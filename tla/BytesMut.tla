------------------------------ MODULE BytesMut ------------------------------
(***************************************************************************)
(* BytesMut (src/bytes/src/bytes_mut.rs): growable byte buffers that share *)
(* one allocation, together with the Bytes handles that freezing them      *)
(* makes (the SHARED_VTABLE at the end of that file, driven by the vtable- *)
(* independent methods of src/bytes/src/bytes.rs).                         *)
(*                                                                         *)
(* A handle is a view off .. off+cap-1 of one allocation, of which the     *)
(* first len bytes are its contents.  In KIND_VEC form it owns the         *)
(* allocation; in KIND_ARC form a Shared block owns it and counts handles. *)
(* Handles live on different threads, and the only memory two threads both *)
(* write is a ref_count.  An action is what one thread does to the handles *)
(* it borrows, with at most one access to a ref_count that another thread  *)
(* can change too; an is_unique() that answers false is therefore a step   *)
(* of its own (LoadNotUnique), stale when the copying branch releases.     *)
(*                                                                         *)
(* A failed assert! panics before any assignment: it is a disabled action. *)
(***************************************************************************)
EXTENDS Integers, Sequences, FiniteSets

CONSTANTS
  Handles,    \* names for BytesMut / Bytes / Vec<u8> values
  Bufs,       \* names for heap allocations of bytes
  Shareds,    \* names for boxed Shared blocks
  Byte,       \* the byte values
  Uninit,     \* content of a byte that was allocated and never written
  NoBuf,
  NoShared,
  MaxCap,     \* largest capacity an allocation may have (isize::MAX)
  MaxVecPos,  \* MAX_VEC_POS
  MinWidth,   \* MIN_ORIGINAL_CAPACITY_WIDTH
  MaxWidth    \* MAX_ORIGINAL_CAPACITY_WIDTH

ASSUME ConstantsAssumption ==
  /\ IsFiniteSet(Handles)
  /\ NoBuf \notin Bufs
  /\ NoShared \notin Shareds
  /\ Uninit \notin Byte
  /\ MaxCap \in Nat
  /\ MaxVecPos \in Nat
  /\ MinWidth \in Nat /\ MaxWidth \in Nat /\ MinWidth <= MaxWidth

VARIABLES
  hd,         \* the handles: fields of the Rust structs
  heap,       \* the allocations
  sh,         \* the Shared blocks
  seen        \* handles whose thread loaded a ref_count other than 1

vars == <<hd, heap, sh, seen>>

-----------------------------------------------------------------------------
Cap  == 0 .. MaxCap
Idx  == 0 .. MaxCap - 1
Cell == Byte \cup {Uninit}
Repr == 0 .. MaxWidth - MinWidth

Smaller(m, n) == IF m <= n THEN m ELSE n
Larger(m, n)  == IF m >= n THEN m ELSE n

\* Bits needed for cap >> MinWidth, capped.
original_capacity_to_repr(cap) ==
  Smaller(Cardinality({k \in 0 .. cap : 2 ^ (k + MinWidth) <= cap}),
          MaxWidth - MinWidth)

original_capacity_from_repr(repr) ==
  IF repr = 0 THEN 0 ELSE 2 ^ (repr + MinWidth - 1)

\* ty: "mut" is a BytesMut, "bytes" a frozen Bytes, "vec" a Vec<u8>, "moved" a
\* value whose owner is about to drop it.  data is the Shared block (KIND_ARC)
\* or NoShared (KIND_VEC); pos and repr are the fields packed into data in
\* KIND_VEC.  A Bytes has no cap: here its cap is its len.
HandleType ==
  [ty : {"none", "mut", "bytes", "vec", "moved"}, data : Shareds \cup {NoShared},
   pos : Cap, repr : Repr, buf : Bufs \cup {NoBuf}, off : Cap, len : Cap, cap : Cap]

SharedType ==
  [st : {"none", "live"}, vec : Bufs \cup {NoBuf}, ref_count : Nat, repr : Repr]

AllocType == [live : BOOLEAN, cap : Cap, cells : [Idx -> Cell]]

NoHandle == [ty |-> "none", data |-> NoShared, pos |-> 0, repr |-> 0,
             buf |-> NoBuf, off |-> 0, len |-> 0, cap |-> 0]

\* Bytes::new() and new_empty_with_ptr: an empty slice behind STATIC_VTABLE.
StaticEmpty == [NoHandle EXCEPT !.ty = "bytes"]

NoSharedBlock == [st |-> "none", vec |-> NoBuf, ref_count |-> 0, repr |-> 0]

Freed == [live |-> FALSE, cap |-> 0, cells |-> [i \in Idx |-> Uninit]]

TypeOK ==
  /\ hd \in [Handles -> HandleType]
  /\ heap \in [Bufs -> AllocType]
  /\ sh \in [Shareds -> SharedType]
  /\ seen \in SUBSET Handles

Init ==
  /\ hd = [h \in Handles |-> NoHandle]
  /\ heap = [b \in Bufs |-> Freed]
  /\ sh = [s \in Shareds |-> NoSharedBlock]
  /\ seen = {}

-----------------------------------------------------------------------------
\* The contents a handle dereferences to.
Slice(r) == [i \in 1 .. r.len |-> heap[r.buf].cells[r.off + i - 1]]

\* Copies of the first n cells of f from position `from` on, the rest unwritten.
CopyOf(f, from, n) == [i \in Idx |-> IF i < n THEN f[from + i] ELSE Uninit]

\* ptr::copy of n cells from position `from` to the front of the allocation.
ShiftedDown(f, from, n) == [i \in Idx |-> IF i < n THEN f[from + i] ELSE f[i]]

\* ptr::copy_nonoverlapping: no defined contents if source and target overlap.
ShiftedApart(f, from, n) ==
  IF n <= from THEN ShiftedDown(f, from, n) ELSE [i \in Idx |-> Uninit]

\* f with the bytes w written from position `from` on.
Written(f, from, w) ==
  [i \in Idx |-> IF i \in from .. from + Len(w) - 1 THEN w[i - from + 1] ELSE f[i]]

Alloc(cap, cells) == [live |-> TRUE, cap |-> cap, cells |-> cells]

Idle(h, ty) == hd[h].ty = ty /\ h \notin seen
IsArc(h)    == hd[h].data # NoShared
IsFree(b)   == ~heap[b].live

\* BytesMut::from_vec of a vector in b.
FromVec(b, len, cap) ==
  [ty |-> "mut", data |-> NoShared, pos |-> 0, repr |-> original_capacity_to_repr(cap),
   buf |-> b, off |-> 0, len |-> len, cap |-> cap]

VecOf(b, len, cap) == [NoHandle EXCEPT !.ty = "vec", !.buf = b, !.len = len, !.cap = cap]

\* The handle part of advance_unchecked(count).
Advanced(r, count) ==
  [r EXCEPT !.off = @ + count,
            !.len = IF @ >= count THEN @ - count ELSE 0,
            !.cap = @ - count]

\* The view of a Bytes narrowed to n bytes from its i-th on.
Narrowed(r, i, n) == [r EXCEPT !.off = @ + i, !.len = n, !.cap = n]

\* The same handle in KIND_ARC form on block s.
OnShared(r, s) == [r EXCEPT !.data = s, !.pos = 0, !.repr = 0]

-----------------------------------------------------------------------------
(* Creation: with_capacity, zeroed, From<&[u8]>, FromIterator, Clone.      *)

with_capacity(h, b, cap) ==
  /\ hd[h].ty = "none" /\ IsFree(b)
  /\ hd' = [hd EXCEPT ![h] = FromVec(b, 0, cap)]
  /\ heap' = [heap EXCEPT ![b] = Alloc(cap, [i \in Idx |-> Uninit])]
  /\ UNCHANGED <<sh, seen>>

\* BytesMut::from_vec of a full vector holding w.
from_slice(h, b, w) ==
  /\ hd[h].ty = "none" /\ IsFree(b)
  /\ hd' = [hd EXCEPT ![h] = FromVec(b, Len(w), Len(w))]
  /\ heap' = [heap EXCEPT ![b] = Alloc(Len(w), Written([i \in Idx |-> Uninit], 0, w))]
  /\ UNCHANGED <<sh, seen>>

clone(h, o, b) == Idle(h, "mut") /\ from_slice(o, b, Slice(hd[h]))

-----------------------------------------------------------------------------
(* Sharing: shallow_clone leaves both handles on block s, which is the     *)
(* handle's own block or, in KIND_VEC form, a new one with ref_count 2.    *)

promote_to_shared(r, s, ref_count) ==
  /\ sh[s].st = "none"
  /\ sh' = [sh EXCEPT ![s] = [st |-> "live", vec |-> r.buf,
                              ref_count |-> ref_count, repr |-> r.repr]]

increment_shared(s) == sh' = [sh EXCEPT ![s].ref_count = @ + 1]

\* release_shared(s): fetch_sub, and the last one out drops block and vector.
ReleasedSh(s) ==
  [sh EXCEPT ![s] = IF sh[s].ref_count = 1 THEN NoSharedBlock
                    ELSE [sh[s] EXCEPT !.ref_count = @ - 1]]

ReleasedHeap(hp, s) ==
  IF sh[s].ref_count = 1 THEN [hp EXCEPT ![sh[s].vec] = Freed] ELSE hp

\* Mutant: the promoted block starts at 1 although two handles refer to it.
shallow_clone_one(h, s) ==
  IF IsArc(h) THEN s = hd[h].data /\ increment_shared(s)
              ELSE promote_to_shared(hd[h], s, 1)

shallow_clone(h, s) ==
  IF IsArc(h) THEN s = hd[h].data /\ increment_shared(s)
              ELSE promote_to_shared(hd[h], s, 2)

\* Mutant: the first half keeps the whole capacity.
split_off_keeps_cap(h, o, at, s) ==
  /\ Idle(h, "mut") /\ hd[o].ty = "none"
  /\ at <= hd[h].cap
  /\ shallow_clone(h, s)
  /\ LET r == OnShared(hd[h], s)
     IN hd' = [hd EXCEPT ![h] = [r EXCEPT !.len = Smaller(@, at)], ![o] = Advanced(r, at)]
  /\ UNCHANGED <<heap, seen>>

split_off(h, o, at, s) ==
  /\ Idle(h, "mut") /\ hd[o].ty = "none"
  /\ at <= hd[h].cap
  /\ shallow_clone(h, s)
  /\ LET r == OnShared(hd[h], s)
     IN hd' = [hd EXCEPT ![h] = [r EXCEPT !.cap = at, !.len = Smaller(@, at)],
                         ![o] = Advanced(r, at)]
  /\ UNCHANGED <<heap, seen>>

\* split() is split_to(len).
split_to(h, o, at, s) ==
  /\ Idle(h, "mut") /\ hd[o].ty = "none"
  /\ at <= hd[h].len
  /\ shallow_clone(h, s)
  /\ LET r == OnShared(hd[h], s)
     IN hd' = [hd EXCEPT ![h] = Advanced(r, at),
                         ![o] = [r EXCEPT !.cap = at, !.len = at]]
  /\ UNCHANGED <<heap, seen>>

\* Buf::advance; the position does not fit in data when it exceeds MaxVecPos.
advance(h, count) ==
  /\ Idle(h, "mut")
  /\ count \in 1 .. hd[h].len
  /\ IsArc(h) \/ hd[h].pos + count <= MaxVecPos
  /\ hd' = [hd EXCEPT ![h] = [Advanced(hd[h], count) EXCEPT
                                !.pos = IF IsArc(h) THEN @ ELSE @ + count]]
  /\ UNCHANGED <<heap, sh, seen>>

advance_promoting(h, count, s) ==
  /\ Idle(h, "mut")
  /\ count \in 1 .. hd[h].len
  /\ ~IsArc(h) /\ hd[h].pos + count > MaxVecPos
  /\ promote_to_shared(hd[h], s, 1)
  /\ hd' = [hd EXCEPT ![h] = Advanced(OnShared(@, s), count)]
  /\ UNCHANGED <<heap, seen>>

\* set_len behind truncate, clear and a shrinking resize.
truncate(h, len) ==
  /\ Idle(h, "mut")
  /\ len <= hd[h].len
  /\ hd' = [hd EXCEPT ![h].len = len]
  /\ UNCHANGED <<heap, sh, seen>>

\* A store through DerefMut / AsMut / BorrowMut.
store(h, i, v) ==
  /\ Idle(h, "mut")
  /\ i < hd[h].len
  /\ heap' = [heap EXCEPT ![hd[h].buf].cells[hd[h].off + i] = v]
  /\ UNCHANGED <<hd, sh, seen>>

-----------------------------------------------------------------------------
(* reserve(n), followed by the writes of the operation that called it: the *)
(* bytes w (none, for reserve itself) are appended and the handles in      *)
(* `gone` (unsplit's argument) are left to be dropped.  One operator per   *)
(* branch of reserve_inner.                                                *)

Finish(h, r, hp, w, gone) ==
  /\ hd' = [x \in Handles |->
              IF x = h THEN [r EXCEPT !.len = @ + Len(w)]
              ELSE IF x \in gone THEN [hd[x] EXCEPT !.ty = "moved"] ELSE hd[x]]
  /\ heap' = [hp EXCEPT ![r.buf].cells = Written(@, r.off + r.len, w)]

Fits(h, n) == n <= hd[h].cap - hd[h].len

in_place(h, n, w, gone) ==
  /\ h \notin seen /\ Fits(h, n)
  /\ Finish(h, hd[h], heap, w, gone)
  /\ UNCHANGED <<sh, seen>>

\* KIND_VEC, enough room in front: move the contents back to the base.
VecShifts(r, n) == r.cap - r.len + r.pos >= n /\ r.pos >= r.len

vec_shift(h, n, w, gone) ==
  LET r == hd[h]
  IN /\ h \notin seen /\ ~Fits(h, n) /\ ~IsArc(h) /\ VecShifts(r, n)
     /\ Finish(h, [r EXCEPT !.off = @ - r.pos, !.pos = 0, !.cap = @ + r.pos],
               [heap EXCEPT ![r.buf].cells = ShiftedApart(@, r.off, r.len)], w, gone)
     /\ UNCHANGED <<sh, seen>>

\* KIND_VEC otherwise: Vec::reserve of the rebuilt vector.
vec_grow(h, n, w, gone, b, cap) ==
  LET r == hd[h]
  IN /\ h \notin seen /\ ~Fits(h, n) /\ ~IsArc(h) /\ ~VecShifts(r, n)
     /\ IsFree(b) /\ cap >= r.pos + r.len + n
     /\ Finish(h, [r EXCEPT !.buf = b, !.off = r.pos, !.cap = cap - r.pos],
               [heap EXCEPT ![r.buf] = Freed,
                  ![b] = Alloc(cap, CopyOf(heap[r.buf].cells, r.off - r.pos, r.pos + r.len))], w, gone)
     /\ UNCHANGED <<sh, seen>>

\* Mutant: the reference count is not looked at.
AlwaysUnique(h) == IsArc(h) /\ h \notin seen

Unique(h) == IsArc(h) /\ h \notin seen /\ sh[hd[h].data].ref_count = 1

\* KIND_ARC and unique, the allocation reaches far enough behind the handle.
arc_expand(h, n, w, gone) ==
  LET r == hd[h]
      new_cap == r.len + n
  IN /\ Unique(h) /\ ~Fits(h, n)
     /\ heap[sh[r.data].vec].cap >= new_cap + r.off
     /\ Finish(h, [r EXCEPT !.cap = new_cap], heap, w, gone)
     /\ UNCHANGED <<sh, seen>>

\* KIND_ARC and unique, enough room once the contents move to the front.
arc_shift(h, n, w, gone) ==
  LET r == hd[h]
      v == sh[r.data].vec
      new_cap == r.len + n
  IN /\ Unique(h) /\ ~Fits(h, n)
     /\ heap[v].cap < new_cap + r.off
     /\ heap[v].cap >= new_cap /\ r.off >= r.len
     /\ Finish(h, [r EXCEPT !.off = 0, !.cap = heap[v].cap],
               [heap EXCEPT ![v].cells = ShiftedApart(@, r.off, r.len)], w, gone)
     /\ UNCHANGED <<sh, seen>>

\* KIND_ARC and unique otherwise: set_len(off + len), then Vec::reserve.
arc_grow(h, n, w, gone, b, cap) ==
  LET r == hd[h]
      v == sh[r.data].vec
      new_cap == r.len + n
  IN /\ Unique(h) /\ ~Fits(h, n)
     /\ heap[v].cap < new_cap + r.off
     /\ heap[v].cap < new_cap \/ r.off < r.len
     /\ IsFree(b) /\ cap >= Larger(2 * heap[v].cap, new_cap + r.off)
     /\ sh' = [sh EXCEPT ![r.data].vec = b]
     /\ Finish(h, [r EXCEPT !.buf = b, !.cap = cap - r.off],
               [heap EXCEPT ![v] = Freed,
                  ![b] = Alloc(cap, CopyOf(heap[v].cells, 0, r.off + r.len))], w, gone)
     /\ UNCHANGED seen

\* KIND_ARC and not unique when ref_count was loaded: copy out, then release.
copy_out(h, n, w, gone, b, cap) ==
  LET r == hd[h]
      repr == sh[r.data].repr
  IN /\ h \in seen /\ ~Fits(h, n)
     /\ IsFree(b)
     /\ cap = Larger(r.len + n, original_capacity_from_repr(repr))
     /\ seen' = seen \ {h}
     /\ sh' = ReleasedSh(r.data)
     /\ Finish(h, [r EXCEPT !.data = NoShared, !.pos = 0, !.repr = repr, !.buf = b,
                            !.off = 0, !.cap = cap],
               ReleasedHeap([heap EXCEPT ![b] =
                  Alloc(cap, CopyOf(heap[r.buf].cells, r.off, r.len))], r.data), w, gone)

ReserveThen(h, n, w, gone) ==
  /\ hd[h].ty = "mut"
  /\ \/ in_place(h, n, w, gone)
     \/ vec_shift(h, n, w, gone)
     \/ arc_expand(h, n, w, gone)
     \/ arc_shift(h, n, w, gone)
     \/ \E b \in Bufs, cap \in Cap :
          \/ vec_grow(h, n, w, gone, b, cap)
          \/ arc_grow(h, n, w, gone, b, cap)
          \/ copy_out(h, n, w, gone, b, cap)

\* reserve, and try_reclaim, which passes allocate = true to reserve_inner too.
reserve(h, n) == ReserveThen(h, n, << >>, {})

\* extend_from_slice, put_slice, put_bytes, put, write_str, a growing resize.
extend_from_slice(h, w) == ReserveThen(h, Len(w), w, {})

\* is_unique() answers false.  The thread is then bound for a copying branch.
LoadNotUnique(h) ==
  /\ Idle(h, "mut") \/ Idle(h, "bytes")
  /\ IsArc(h) /\ sh[hd[h].data].ref_count # 1
  /\ seen' = seen \cup {h}
  /\ UNCHANGED <<hd, heap, sh>>

-----------------------------------------------------------------------------
(* unsplit(other): the argument is dropped when the call returns, except   *)
(* that an empty self is dropped instead and replaced.                     *)

\* Mutant: the empty self is overwritten without being dropped.
unsplit_empty_forgets(h, o) ==
  /\ Idle(h, "mut") /\ Idle(o, "mut") /\ h # o
  /\ hd[h].len = 0
  /\ hd' = [hd EXCEPT ![h] = hd[o], ![o] = NoHandle]
  /\ UNCHANGED <<heap, sh, seen>>

unsplit_empty(h, o) ==
  /\ Idle(h, "mut") /\ Idle(o, "mut") /\ h # o
  /\ hd[h].len = 0
  /\ hd' = [hd EXCEPT ![h] = hd[o], ![o] = [hd[h] EXCEPT !.ty = "moved"]]
  /\ UNCHANGED <<heap, sh, seen>>

Contiguous(r, t) == /\ r.buf = t.buf /\ r.off + r.len = t.off
                    /\ r.data # NoShared /\ r.data = t.data

\* try_unsplit returning Ok.
unsplit_joined(h, o) ==
  /\ Idle(h, "mut") /\ Idle(o, "mut") /\ h # o
  /\ hd[h].len # 0
  /\ hd[o].cap = 0 \/ Contiguous(hd[h], hd[o])
  /\ hd' = [hd EXCEPT
              ![h] = IF hd[o].cap = 0 THEN hd[h]
                     ELSE [hd[h] EXCEPT !.len = @ + hd[o].len, !.cap = @ + hd[o].cap],
              ![o].ty = "moved"]
  /\ UNCHANGED <<heap, sh, seen>>

unsplit_copied(h, o) ==
  /\ Idle(o, "mut") /\ h # o
  /\ hd[h].len # 0 /\ hd[o].cap # 0 /\ ~Contiguous(hd[h], hd[o])
  /\ ReserveThen(h, hd[o].len, Slice(hd[o]), {o})

-----------------------------------------------------------------------------
(* Freezing, the frozen handles (bytes_mut.rs's SHARED_VTABLE under the    *)
(* methods of Bytes), and the conversions between the three types.  A      *)
(* frozen KIND_VEC buffer goes to the vtables of bytes.rs; here it only    *)
(* keeps its allocation until it is dropped.                               *)

freeze(h) ==
  /\ Idle(h, "mut")
  /\ hd' = [hd EXCEPT ![h] = [@ EXCEPT !.ty = "bytes", !.pos = 0, !.repr = 0,
                                       !.cap = hd[h].len]]
  /\ UNCHANGED <<heap, sh, seen>>

Frozen(h) == Idle(h, "bytes") /\ IsArc(h)

\* shared_v_clone, for r a narrowing of h's view.
shared_v_clone(h, o, self, other) ==
  /\ hd[o].ty = "none"
  /\ increment_shared(hd[h].data)
  /\ hd' = [hd EXCEPT ![h] = self, ![o] = other]
  /\ UNCHANGED <<heap, seen>>

\* Moves that need no reference: one of the two halves is empty and static.
NoClone(h, o, self, other) ==
  /\ hd[o].ty = "none"
  /\ hd' = [hd EXCEPT ![h] = self, ![o] = other]
  /\ UNCHANGED <<heap, sh, seen>>

bytes_clone(h, o) == Frozen(h) /\ shared_v_clone(h, o, hd[h], hd[h])

\* Bytes::slice(begin .. end).
slice(h, o, begin, end) ==
  /\ Frozen(h)
  /\ begin <= end /\ end <= hd[h].len
  /\ IF begin = end
     THEN NoClone(h, o, hd[h], StaticEmpty)
     ELSE shared_v_clone(h, o, hd[h], Narrowed(hd[h], begin, end - begin))

bytes_split_off(h, o, at) ==
  LET r == hd[h]
  IN /\ Frozen(h) /\ at <= r.len
     /\ IF at = r.len THEN NoClone(h, o, r, StaticEmpty)
        ELSE IF at = 0 THEN NoClone(h, o, StaticEmpty, r)
        ELSE shared_v_clone(h, o, Narrowed(r, 0, at), Narrowed(r, at, r.len - at))

bytes_split_to(h, o, at) ==
  LET r == hd[h]
  IN /\ Frozen(h) /\ at <= r.len
     /\ IF at = r.len THEN NoClone(h, o, StaticEmpty, r)
        ELSE IF at = 0 THEN NoClone(h, o, r, StaticEmpty)
        ELSE shared_v_clone(h, o, Narrowed(r, at, r.len - at), Narrowed(r, 0, at))

\* Bytes::truncate / clear (not a promotable vtable) and Buf::advance.
bytes_narrow(h, i, n) ==
  /\ Frozen(h)
  /\ i + n <= hd[h].len /\ (i = 0 \/ i + n = hd[h].len)
  /\ hd' = [hd EXCEPT ![h] = Narrowed(@, i, n)]
  /\ UNCHANGED <<heap, sh, seen>>

\* From<BytesMut> for Vec<u8> in KIND_VEC form.
into_vec_owned(h) ==
  LET r == hd[h]
  IN /\ Idle(h, "mut") /\ ~IsArc(h)
     /\ hd' = [hd EXCEPT ![h] = VecOf(r.buf, r.len, r.cap + r.pos)]
     /\ heap' = [heap EXCEPT ![r.buf].cells = ShiftedDown(@, r.off, r.len)]
     /\ UNCHANGED <<sh, seen>>

\* The unique branch of From<BytesMut> for Vec<u8> and of shared_v_to_vec: the
\* vector is taken out and the block released (its last reference).
into_vec_unique(h) ==
  LET r == hd[h]
      v == sh[r.data].vec
  IN /\ hd[h].ty \in {"mut", "bytes"} /\ Unique(h)
     /\ hd' = [hd EXCEPT ![h] = VecOf(v, r.len, heap[v].cap)]
     /\ heap' = [heap EXCEPT ![v].cells = ShiftedDown(@, r.off, r.len)]
     /\ sh' = [sh EXCEPT ![r.data] = NoSharedBlock]
     /\ UNCHANGED seen

\* The copying branches: slice.to_vec(), then release_shared.
CopyThenRelease(h, b, result) ==
  LET r == hd[h]
  IN /\ h \in seen /\ IsFree(b)
     /\ hd' = [hd EXCEPT ![h] = result]
     /\ heap' = ReleasedHeap([heap EXCEPT ![b] =
                  Alloc(r.len, CopyOf(heap[r.buf].cells, r.off, r.len))], r.data)
     /\ sh' = ReleasedSh(r.data)
     /\ seen' = seen \ {h}

into_vec_copied(h, b) ==
  hd[h].ty \in {"mut", "bytes"} /\ CopyThenRelease(h, b, VecOf(b, hd[h].len, hd[h].len))

\* Mutant: the offset is not taken off the capacity.
into_mut_whole(h) ==
  /\ hd[h].ty = "bytes" /\ Unique(h)
  /\ hd' = [hd EXCEPT ![h].ty = "mut", ![h].cap = heap[sh[hd[h].data].vec].cap]
  /\ UNCHANGED <<heap, sh, seen>>

\* shared_v_to_mut, also behind try_into_mut when is_unique() is true.
into_mut_unique(h) ==
  /\ hd[h].ty = "bytes" /\ Unique(h)
  /\ hd' = [hd EXCEPT ![h].ty = "mut",
                      ![h].cap = heap[sh[hd[h].data].vec].cap - hd[h].off]
  /\ UNCHANGED <<heap, sh, seen>>

into_mut_copied(h, b) ==
  hd[h].ty = "bytes" /\ CopyThenRelease(h, b, FromVec(b, hd[h].len, hd[h].len))

-----------------------------------------------------------------------------
(* Destruction.                                                            *)

drop(h) ==
  LET r == hd[h]
  IN /\ r.ty # "none" /\ h \notin seen
     /\ hd' = [hd EXCEPT ![h] = NoHandle]
     /\ IF IsArc(h)
        THEN sh' = ReleasedSh(r.data) /\ heap' = ReleasedHeap(heap, r.data)
        ELSE /\ heap' = IF r.buf = NoBuf THEN heap ELSE [heap EXCEPT ![r.buf] = Freed]
             /\ UNCHANGED sh
     /\ UNCHANGED seen

-----------------------------------------------------------------------------
\* The slices a caller passes in: some number of copies of one byte.
Slices == {[i \in 1 .. n |-> v] : n \in Cap, v \in Byte}

Create(h) ==
  \E b \in Bufs :
    \/ \E cap \in Cap : with_capacity(h, b, cap)
    \/ \E w \in Slices : from_slice(h, b, w)
    \/ \E o \in Handles : clone(o, h, b)

Split(h) ==
  \E o \in Handles, at \in Cap, s \in Shareds : split_off(h, o, at, s) \/ split_to(h, o, at, s)

Edit(h) ==
  \/ \E n \in Cap : advance(h, n) \/ truncate(h, n)
  \/ \E n \in Cap, s \in Shareds : advance_promoting(h, n, s)
  \/ \E i \in Idx, v \in Byte : store(h, i, v)

Grow(h) ==
  \/ \E n \in Cap : reserve(h, n)
  \/ \E w \in Slices : extend_from_slice(h, w)
  \/ LoadNotUnique(h)

Unsplit(h) ==
  \E o \in Handles : unsplit_empty(h, o) \/ unsplit_joined(h, o) \/ unsplit_copied(h, o)

Share(h) ==
  \/ freeze(h)
  \/ \E o \in Handles : bytes_clone(h, o)
  \/ \E o \in Handles, i, j \in Cap : slice(h, o, i, j)
  \/ \E o \in Handles, at \in Cap : bytes_split_off(h, o, at) \/ bytes_split_to(h, o, at)
  \/ \E i, n \in Cap : bytes_narrow(h, i, n)

Convert(h) ==
  \/ into_vec_owned(h) \/ into_vec_unique(h) \/ into_mut_unique(h)
  \/ \E b \in Bufs : into_vec_copied(h, b) \/ into_mut_copied(h, b)

Next ==
  \E h \in Handles :
    \/ Create(h) \/ Split(h) \/ Edit(h) \/ Grow(h) \/ Unsplit(h)
    \/ Share(h) \/ Convert(h) \/ drop(h)

Spec == Init /\ [][Next]_vars

-----------------------------------------------------------------------------
(* Properties.                                                             *)

InUse(h)   == hd[h].ty \in {"mut", "bytes", "vec"}
Exists(h)  == hd[h].ty # "none"
Region(r)  == r.off .. r.off + r.cap - 1
Holders(s) == {h \in Handles : Exists(h) /\ hd[h].data = s}

\* ref_count is exact: it counts the handles on the block, so that the block is
\* dropped with the last of them and not before.
RefCountExact ==
  \A s \in Shareds :
    /\ sh[s].ref_count = Cardinality(Holders(s))
    /\ (sh[s].st = "live") <=> (sh[s].ref_count > 0)

\* No handle outlives its allocation, and none reaches outside it.
WithinLiveAllocation ==
  \A h \in Handles :
    LET r == hd[h]
    IN Exists(h) /\ r.buf # NoBuf =>
         /\ heap[r.buf].live
         /\ r.len <= r.cap /\ r.off + r.cap <= heap[r.buf].cap
         /\ r.data # NoShared => sh[r.data].st = "live" /\ sh[r.data].vec = r.buf

\* rebuild_vec gets back the very vector that was taken apart (Vec::from_raw_parts
\* needs its exact capacity): the stashed position is the handle's offset, and
\* position plus capacity is the allocation's size.
RebuildsVec ==
  \A h \in Handles :
    LET r == hd[h]
    IN r.ty \in {"mut", "moved"} /\ r.data = NoShared =>
         r.off = r.pos /\ r.pos + r.cap = heap[r.buf].cap

\* "A unique reference to a contiguous slice of memory": what a BytesMut may
\* write, its spare capacity included, no other handle can see.
ExclusiveRegions ==
  \A h, o \in Handles :
    /\ h # o /\ hd[h].ty = "mut" /\ InUse(o)
    /\ hd[h].buf = hd[o].buf
    => Region(hd[h]) \cap Region(hd[o]) = {}

\* The handles and blocks that will free an allocation.
Owners(b) == {h \in Handles : Exists(h) /\ hd[h].data = NoShared /\ hd[h].buf = b}
               \cup {s \in Shareds : sh[s].st # "none" /\ sh[s].vec = b}

\* Every allocation has exactly one owner: a KIND_VEC handle or a Shared block.
\* Nothing leaks and nothing is freed twice (release_shared, Drop for BytesMut).
OneOwner ==
  \A b \in Bufs : Cardinality(Owners(b)) = IF heap[b].live THEN 1 ELSE 0

\* The inductive strengthening of the five structural invariants above: what
\* every handle knows of its allocation and block, that no two owners share an
\* allocation, and disjointness as an inequality on offsets.
OwnsVec(h) == hd[h].data = NoShared /\ hd[h].buf # NoBuf

HandleOK(h) ==
  LET r == hd[h]
  IN /\ r.ty = "none" => r = NoHandle
     /\ r.len <= r.cap
     /\ r.buf = NoBuf => r.data = NoShared /\ r.cap = 0 /\ r.ty \in {"none", "bytes"}
     /\ r.buf # NoBuf => heap[r.buf].live /\ r.off + r.cap <= heap[r.buf].cap
     /\ r.data # NoShared => sh[r.data].st = "live" /\ sh[r.data].vec = r.buf
     /\ r.ty \in {"mut", "moved"} /\ r.data = NoShared =>
          r.off = r.pos /\ r.pos + r.cap = heap[r.buf].cap
     /\ h \in seen => r.data # NoShared /\ r.ty \in {"mut", "bytes"}

HandleInv == \A h \in Handles : HandleOK(h)

OwnerInv ==
  /\ \A s \in Shareds : sh[s].st = "live" => sh[s].vec \in Bufs /\ heap[sh[s].vec].live
  /\ \A s, t \in Shareds :
       s # t /\ sh[s].st = "live" /\ sh[t].st = "live" => sh[s].vec # sh[t].vec
  /\ \A h \in Handles, s \in Shareds :
       OwnsVec(h) /\ sh[s].st = "live" => sh[s].vec # hd[h].buf
  /\ \A h, o \in Handles : h # o /\ OwnsVec(h) /\ OwnsVec(o) => hd[h].buf # hd[o].buf

Apart(r, t) == r.cap = 0 \/ t.cap = 0 \/ r.off + r.cap <= t.off \/ t.off + t.cap <= r.off

RegionInv ==
  \A h, o \in Handles :
    h # o /\ hd[h].ty = "mut" /\ InUse(o) /\ hd[h].buf = hd[o].buf => Apart(hd[h], hd[o])

\* Every allocation in use has a handle on it.
ReachInv == \A b \in Bufs : heap[b].live => \E h \in Handles : hd[h].buf = b

\* The inductive invariant: from it follow the structural invariants above
\* (BytesMut_proofs).
IInv == TypeOK /\ HandleInv /\ OwnerInv /\ RefCountExact /\ RegionInv /\ ReachInv
=============================================================================
