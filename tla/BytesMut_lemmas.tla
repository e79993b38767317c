--------------------------- MODULE BytesMut_lemmas ---------------------------
(***************************************************************************)
(* Lemmas about BytesMut's operators and about counting the holders of a   *)
(* block, and the elementary changes of its state (a handle appears, moves *)
(* or goes, an allocation is replaced, a block is shared or released, a    *)
(* vector moves into a block or out of it, two views are joined), creation,*)
(* splitting and editing, each with the proof that it keeps the invariant. *)
(* Then what a window on an array of cells shows when the array is         *)
(* written, copied or moved.                                               *)
(***************************************************************************)
EXTENDS BytesMut, FiniteSetTheorems, TLAPS

\* The prover of a leaf that names none, and the seconds it may take.
USE ZenonT(30)

-----------------------------------------------------------------------------
(* Operators.                                                              *)

\* The packed original-capacity exponent fits the bits reserved for it.
LEMMA ReprType ==
  ASSUME NEW cap \in Cap
  PROVE  original_capacity_to_repr(cap) \in Repr
<1> DEFINE S == {k \in 0 .. cap : 2 ^ (k + MinWidth) <= cap}
<1>1. IsFiniteSet(0 .. cap)
  BY FS_Interval, SMTT(60) DEF Cap
<1>2. IsFiniteSet(S)
  BY <1>1, FS_Subset
<1>3. Cardinality(S) \in Nat
  BY <1>2, FS_CardinalityType
<1> QED
  BY <1>3, ConstantsAssumption, SMTT(60) DEF original_capacity_to_repr, Smaller, Repr

\* A handle built by from_vec has its type.
LEMMA FromVecType ==
  ASSUME NEW b \in Bufs, NEW len \in Cap, NEW cap \in Cap
  PROVE  FromVec(b, len, cap) \in HandleType
BY ReprType, ConstantsAssumption, SMTT(60) DEF FromVec, HandleType, Cap

\* The neutral values belong to the types.
LEMMA Constants ==
  /\ NoHandle \in HandleType
  /\ StaticEmpty \in HandleType
  /\ Freed \in AllocType
  /\ NoSharedBlock \in SharedType
  /\ 0 \in Cap
BY ConstantsAssumption, SMTT(60) DEF NoHandle, StaticEmpty, HandleType, Freed, AllocType, NoSharedBlock,
                           SharedType, Cap, Repr, Cell

\* Writing bytes keeps an array of cells.
LEMMA WrittenType ==
  ASSUME NEW f \in [Idx -> Cell], NEW from \in Nat, NEW w \in Seq(Cell)
  PROVE  Written(f, from, w) \in [Idx -> Cell]
<1>1. ASSUME NEW i \in Idx, i \in from .. from + Len(w) - 1
      PROVE  w[i - from + 1] \in Cell
  <2>1. i - from + 1 \in 1 .. Len(w)
    BY <1>1, SMTT(60) DEF Idx
  <2> QED BY <2>1, SMTT(60)
<1> QED BY <1>1 DEF Written

\* A member of Slices is a sequence of cells within the capacity.
LEMMA SlicesType ==
  ASSUME NEW w \in Slices
  PROVE  w \in Seq(Cell) /\ Len(w) \in Cap
<1>1. PICK n \in Cap, v \in Byte : w = [i \in 1 .. n |-> v]
  BY SMTT(60) DEF Slices
<1>2. n \in Nat /\ w \in [1 .. n -> Cell]
  BY <1>1, ConstantsAssumption, SMTT(60) DEF Cap, Cell
<1>3. w \in Seq(Cell)
  BY <1>2, SMTT(60)
<1>4. DOMAIN w = 1 .. n
  BY <1>1
<1>5. Len(w) = n
  BY <1>2, <1>3, <1>4, SMTT(60)
<1> QED BY <1>3, <1>5

\* The bytes a handle sees are a sequence of its length.
LEMMA SliceType ==
  ASSUME NEW r \in HandleType, heap \in [Bufs -> AllocType], r.buf \in Bufs,
         r.off + r.len <= MaxCap
  PROVE  Slice(r) \in Seq(Cell) /\ Len(Slice(r)) = r.len
<1>1. r.len \in Nat /\ r.off \in Nat
  BY SMTT(60) DEF HandleType, Cap
<1>2. \A i \in 1 .. r.len : r.off + i - 1 \in Idx
  BY <1>1, ConstantsAssumption, SMTT(60) DEF Idx
<1>3. Slice(r) \in [1 .. r.len -> Cell]
  BY <1>2 DEF Slice, AllocType
<1>4. Slice(r) \in Seq(Cell)
  BY <1>1, <1>3, SMTT(60)
<1>5. DOMAIN Slice(r) = 1 .. r.len
  BY DEF Slice
<1> QED BY <1>1, <1>4, <1>5, SMTT(60)

\* ptr::copy and copy_nonoverlapping keep an array of cells.
LEMMA MovesType ==
  ASSUME NEW f \in [Idx -> Cell], NEW from \in Nat, NEW n \in Nat, from + n <= MaxCap
  PROVE  /\ CopyOf(f, from, n) \in [Idx -> Cell]
         /\ ShiftedDown(f, from, n) \in [Idx -> Cell]
         /\ ShiftedApart(f, from, n) \in [Idx -> Cell]
BY ConstantsAssumption, SMTT(60) DEF CopyOf, ShiftedDown, ShiftedApart, Idx, Cell

\* What promote_to_shared changes in a handle.
LEMMA OnSharedFields ==
  ASSUME NEW r \in HandleType, NEW s \in Shareds
  PROVE  /\ OnShared(r, s) \in HandleType
         /\ OnShared(r, s).ty = r.ty /\ OnShared(r, s).data = s
         /\ OnShared(r, s).buf = r.buf /\ OnShared(r, s).off = r.off
         /\ OnShared(r, s).len = r.len /\ OnShared(r, s).cap = r.cap
<1>1. 0 \in Cap /\ 0 \in Repr
  BY ConstantsAssumption, SMTT(60) DEF Cap, Repr
<1> QED BY <1>1 DEF HandleType, OnShared

\* What advance_unchecked changes in a handle.
LEMMA AdvancedFields ==
  ASSUME NEW r \in HandleType, NEW count \in Cap, count <= r.cap, r.off + r.cap <= MaxCap
  PROVE  /\ Advanced(r, count) \in HandleType
         /\ Advanced(r, count).ty = r.ty /\ Advanced(r, count).data = r.data
         /\ Advanced(r, count).buf = r.buf /\ Advanced(r, count).pos = r.pos
         /\ Advanced(r, count).off = r.off + count
         /\ Advanced(r, count).len = IF r.len >= count THEN r.len - count ELSE 0
         /\ Advanced(r, count).cap = r.cap - count
<1>1. r.off + count \in Cap /\ r.cap - count \in Cap
  BY ConstantsAssumption, SMTT(60) DEF HandleType, Cap
<1>2. (IF r.len >= count THEN r.len - count ELSE 0) \in Cap
  BY ConstantsAssumption, SMTT(60) DEF HandleType, Cap
<1> QED BY <1>1, <1>2 DEF HandleType, Advanced

-----------------------------------------------------------------------------
(* Counting.                                                               *)

\* A block has finitely many holders.
LEMMA HoldersFinite ==
  ASSUME NEW s \in Shareds
  PROVE  IsFiniteSet(Holders(s)) /\ Cardinality(Holders(s)) \in Nat
BY ConstantsAssumption, FS_Subset, FS_CardinalityType DEF Holders

\* A step that keeps the holders of each block, adds one and increments, removes
\* one and decrements (dropping the block at zero), exchanges one for another, or
\* puts two holders on a new block, keeps every count exact.
Counted(s) ==
  \/ /\ Holders(s)' = Holders(s)
     /\ sh'[s].ref_count = sh[s].ref_count /\ sh'[s].st = sh[s].st
  \/ /\ \E h \in Handles \ Holders(s) : Holders(s)' = Holders(s) \cup {h}
     /\ sh'[s].ref_count = sh[s].ref_count + 1 /\ sh'[s].st = "live"
  \/ /\ \E h \in Holders(s) : Holders(s)' = Holders(s) \ {h}
     /\ sh'[s].ref_count = sh[s].ref_count - 1
     /\ (sh'[s].st = "live") <=> (sh[s].ref_count > 1)
  \/ /\ \E h \in Holders(s), o \in Handles \ Holders(s) :
           Holders(s)' = (Holders(s) \ {h}) \cup {o}
     /\ sh'[s].ref_count = sh[s].ref_count /\ sh'[s].st = sh[s].st
  \/ /\ Holders(s) = {}
     /\ \E h, o \in Handles : h # o /\ Holders(s)' = {h, o}
     /\ sh'[s].ref_count = 2 /\ sh'[s].st = "live"

\* Counting under such steps: clone, release and promotion keep RefCountExact.
LEMMA CountingSteps ==
  ASSUME TypeOK, RefCountExact, \A s \in Shareds : Counted(s)
  PROVE  RefCountExact'
<1> SUFFICES ASSUME NEW s \in Shareds
             PROVE  /\ sh'[s].ref_count = Cardinality(Holders(s)')
                    /\ (sh'[s].st = "live") <=> (sh'[s].ref_count > 0)
  BY DEF RefCountExact, Holders, Exists
<1>1. IsFiniteSet(Holders(s)) /\ Cardinality(Holders(s)) \in Nat
  BY HoldersFinite
<1>2. /\ sh[s].ref_count = Cardinality(Holders(s))
      /\ (sh[s].st = "live") <=> (sh[s].ref_count > 0)
  BY DEF RefCountExact
<1>3. CASE /\ Holders(s)' = Holders(s)
           /\ sh'[s].ref_count = sh[s].ref_count /\ sh'[s].st = sh[s].st
  BY <1>2, <1>3
<1>4. CASE /\ \E h \in Handles \ Holders(s) : Holders(s)' = Holders(s) \cup {h}
           /\ sh'[s].ref_count = sh[s].ref_count + 1 /\ sh'[s].st = "live"
  <2>1. Cardinality(Holders(s)') = Cardinality(Holders(s)) + 1
    BY <1>1, <1>4, FS_AddElement
  <2> QED BY <1>1, <1>2, <1>4, <2>1, SMTT(60)
<1>5. CASE /\ \E h \in Holders(s) : Holders(s)' = Holders(s) \ {h}
           /\ sh'[s].ref_count = sh[s].ref_count - 1
           /\ (sh'[s].st = "live") <=> (sh[s].ref_count > 1)
  <2>1. Cardinality(Holders(s)') = Cardinality(Holders(s)) - 1
    BY <1>1, <1>5, FS_RemoveElement
  <2> QED BY <1>1, <1>2, <1>5, <2>1, SMTT(60)
<1>6. CASE /\ Holders(s) = {}
           /\ \E h, o \in Handles : h # o /\ Holders(s)' = {h, o}
           /\ sh'[s].ref_count = 2 /\ sh'[s].st = "live"
  <2>1. PICK h \in Handles, o \in Handles : h # o /\ Holders(s)' = {h} \cup {o}
    BY <1>6
  <2>2. IsFiniteSet({h}) /\ Cardinality({h}) = 1
    BY FS_Singleton
  <2>3. Cardinality({h} \cup {o}) = 2
    BY <2>1, <2>2, FS_AddElement, SMTT(60)
  <2> QED BY <1>6, <2>1, <2>3, SMTT(60)
<1>7. CASE /\ \E h \in Holders(s), o \in Handles \ Holders(s) :
                Holders(s)' = (Holders(s) \ {h}) \cup {o}
           /\ sh'[s].ref_count = sh[s].ref_count /\ sh'[s].st = sh[s].st
  <2>1. PICK h \in Holders(s), o \in Handles \ Holders(s) :
          Holders(s)' = (Holders(s) \ {h}) \cup {o}
    BY <1>7
  <2>2. /\ IsFiniteSet(Holders(s) \ {h})
        /\ Cardinality(Holders(s) \ {h}) = Cardinality(Holders(s)) - 1
    BY <1>1, FS_RemoveElement
  <2>3. Cardinality(Holders(s)') = Cardinality(Holders(s) \ {h}) + 1
    BY <2>1, <2>2, FS_AddElement
  <2> QED BY <1>1, <1>2, <1>7, <2>2, <2>3, SMTT(60)
<1> QED BY <1>3, <1>4, <1>5, <1>6, <1>7 DEF Counted

\* A set of one element is that element's singleton.
LEMMA SoleElement ==
  ASSUME NEW S, IsFiniteSet(S), Cardinality(S) = 1, NEW x \in S
  PROVE  S = {x}
<1>1. IsFiniteSet(S \ {x}) /\ Cardinality(S \ {x}) = 0
  BY FS_RemoveElement, SMTT(60)
<1>2. S \ {x} = {}
  BY <1>1, FS_EmptySet
<1> QED BY <1>2

\* What is_unique() means: the handle is the only one on its allocation.
LEMMA UniqueIsAlone ==
  ASSUME IInv, NEW h \in Handles, IsArc(h), sh[hd[h].data].ref_count = 1
  PROVE  /\ hd[h].data \in Shareds
         /\ Holders(hd[h].data) = {h}
         /\ \A o \in Handles : o # h /\ hd[o].buf = hd[h].buf => hd[o].ty = "none"
<1> DEFINE s == hd[h].data
<1>1. s \in Shareds /\ hd[h].buf # NoBuf /\ hd[h].ty # "none"
  BY SMTT(60) DEF IInv, TypeOK, HandleType, IsArc, HandleInv, HandleOK, NoHandle
<1>2. IsFiniteSet(Holders(s)) /\ Cardinality(Holders(s)) = 1 /\ h \in Holders(s)
  BY <1>1, HoldersFinite DEF IInv, RefCountExact, Holders, Exists
<1>5. Holders(s) = {h}
  BY <1>2, SoleElement
<1>6. ASSUME NEW o \in Handles, o # h, hd[o].buf = hd[h].buf, hd[o].ty # "none"
      PROVE  FALSE
  <2>1. hd[o].data # s
    BY <1>5, <1>6 DEF Holders, Exists
  <2>2. hd[o].data \in Shareds \cup {NoShared}
    BY DEF IInv, TypeOK, HandleType
  <2>3. sh[s].st = "live" /\ sh[s].vec = hd[h].buf
    BY <1>1, ConstantsAssumption DEF IInv, HandleInv, HandleOK
  <2> QED BY <1>1, <1>6, <2>1, <2>2, <2>3, SMTT(60) DEF IInv, HandleInv, HandleOK, OwnerInv, OwnsVec
<1> QED BY <1>1, <1>5, <1>6

\* The two library facts the later modules use.
LEMMA EmptyCount ==
  ASSUME NEW S
  PROVE  S = {} => Cardinality(S) = 0
BY FS_EmptySet

\* The length of a sequence is a number.
LEMMA LenNat ==
  ASSUME NEW S, NEW w \in Seq(S)
  PROVE  Len(w) \in Nat
BY SMTT(60)

-----------------------------------------------------------------------------
(* Elementary changes.                                                     *)

\* The fields of a slot without a handle.
LEMMA NoHandleFields ==
  /\ NoHandle.ty = "none" /\ NoHandle.data = NoShared /\ NoHandle.buf = NoBuf
  /\ NoHandle.off = 0 /\ NoHandle.len = 0 /\ NoHandle.cap = 0 /\ NoHandle.pos = 0
BY DEF NoHandle

\* with_capacity, from_slice and clone: a handle on a fresh allocation.
LEMMA CreatedKeepsInv ==
  ASSUME IInv, NEW h \in Handles, NEW b \in Bufs, NEW len \in Cap, NEW cap \in Cap,
         NEW cells \in [Idx -> Cell], len <= cap,
         hd[h].ty = "none", IsFree(b),
         hd' = [hd EXCEPT ![h] = FromVec(b, len, cap)],
         heap' = [heap EXCEPT ![b] = Alloc(cap, cells)],
         sh' = sh, seen' = seen
  PROVE  IInv'
<1> DEFINE r == FromVec(b, len, cap)
<1>1. r \in HandleType
  BY FromVecType
<1>2. TypeOK'
  BY <1>1 DEF IInv, TypeOK, Alloc, AllocType
<1>3. /\ r.ty = "mut" /\ r.data = NoShared /\ r.pos = 0 /\ r.buf = b
      /\ r.off = 0 /\ r.len = len /\ r.cap = cap
  BY DEF FromVec
<1>4. /\ \A o \in Handles : hd[o].buf # b
      /\ \A s \in Shareds : sh[s].st = "live" => sh[s].vec # b
      /\ hd[h] = NoHandle /\ h \notin seen
  BY ConstantsAssumption, SMTT(60) DEF IInv, TypeOK, HandleType, HandleInv, HandleOK, OwnerInv, IsFree, NoHandle
<1>5. /\ hd'[h] = r /\ \A o \in Handles \ {h} : hd'[o] = hd[o]
      /\ heap'[b].live /\ heap'[b].cap = cap
      /\ \A a \in Bufs \ {b} : heap'[a] = heap[a]
  BY DEF IInv, TypeOK, Alloc
<1> HIDE DEF r
<1>6. HandleInv'
  BY <1>3, <1>4, <1>5, ConstantsAssumption, SMTT(60) DEF IInv, TypeOK, HandleType, HandleInv, HandleOK, Cap
<1>7. OwnerInv'
  BY <1>3, <1>4, <1>5, ConstantsAssumption, SMTT(60) DEF IInv, OwnerInv, OwnsVec
<1>8. RefCountExact'
  <2>1. \A s \in Shareds : Holders(s)' = Holders(s)
    BY <1>3, <1>4, <1>5, ConstantsAssumption, SMTT(60) DEF Holders, Exists, NoHandle
  <2> QED BY <2>1, CountingSteps DEF IInv, Counted
<1>9. RegionInv'
  BY <1>3, <1>4, <1>5, SMTT(60) DEF IInv, RegionInv, Apart, InUse
<1>10. ReachInv'
  BY <1>3, <1>4, <1>5, NoHandleFields, ConstantsAssumption, SMTT(60) DEF IInv, ReachInv
<1> QED BY <1>2, <1>6, <1>7, <1>8, <1>9, <1>10 DEF IInv

\* A handle the step leaves alone, or marks as about to be dropped.
Kept(x) ==
  \/ hd'[x] = hd[x]
  \/ hd[x].ty = "mut" /\ x \notin seen /\ hd'[x] = [hd[x] EXCEPT !.ty = "moved"]

\* What such a handle keeps.
LEMMA KeptFields ==
  ASSUME TypeOK, NEW x \in Handles, Kept(x)
  PROVE  /\ hd'[x].data = hd[x].data /\ hd'[x].buf = hd[x].buf
         /\ hd'[x].pos = hd[x].pos /\ hd'[x].off = hd[x].off
         /\ hd'[x].len = hd[x].len /\ hd'[x].cap = hd[x].cap
         /\ \/ hd'[x] = hd[x]
            \/ hd[x].ty = "mut" /\ hd'[x].ty = "moved" /\ x \notin seen
         /\ hd'[x] \in HandleType
BY DEF TypeOK, HandleType, Kept

\* Such a handle stays well formed if its allocation and its block do.
LEMMA KeptOK ==
  ASSUME TypeOK, NEW x \in Handles, Kept(x), HandleOK(x), x \in seen' => x \in seen,
         hd[x].buf # NoBuf => /\ heap'[hd[x].buf].live = heap[hd[x].buf].live
                              /\ heap'[hd[x].buf].cap = heap[hd[x].buf].cap,
         hd[x].data # NoShared => /\ sh'[hd[x].data].st = sh[hd[x].data].st
                                  /\ sh'[hd[x].data].vec = sh[hd[x].data].vec
  PROVE  HandleOK(x)'
<1>1. hd[x].ty \in {"mut", "moved"} => hd[x].buf # NoBuf
  BY DEF HandleOK
<1>2. CASE hd'[x] = hd[x]
  BY <1>1, <1>2 DEF HandleOK
<1>3. CASE hd[x].ty = "mut" /\ x \notin seen /\ hd'[x] = [hd[x] EXCEPT !.ty = "moved"]
  <2>1. /\ hd'[x].data = hd[x].data /\ hd'[x].buf = hd[x].buf
        /\ hd'[x].pos = hd[x].pos /\ hd'[x].off = hd[x].off
        /\ hd'[x].len = hd[x].len /\ hd'[x].cap = hd[x].cap /\ hd'[x].ty = "moved"
    BY <1>3 DEF TypeOK, HandleType
  <2> QED BY <1>1, <1>3, <2>1, SMTT(60) DEF HandleOK
<1> QED BY <1>2, <1>3 DEF Kept

\* A slot without a handle satisfies the handle invariant.
LEMMA NoHandleOK ==
  ASSUME NEW x \in Handles, hd'[x] = NoHandle, x \notin seen'
  PROVE  HandleOK(x)'
BY NoHandleFields, SMTT(60) DEF HandleOK

Alone(h) == \A o \in Handles : o # h /\ hd[o].buf = hd[h].buf => hd[o].ty = "none"

\* A handle keeps its allocation and block and changes its view of it: to a part
\* of what it had, or to anything when no other handle is on the allocation.
Views(h) ==
  /\ \A x \in Handles \ {h} : Kept(x)
  /\ \A a \in Bufs : heap'[a].live = heap[a].live /\ heap'[a].cap = heap[a].cap
  /\ sh' = sh /\ seen' \ {h} = seen \ {h}
  /\ hd[h].ty # "none" /\ hd'[h].ty # "none"
  /\ hd'[h].data = hd[h].data /\ hd'[h].buf = hd[h].buf /\ hd[h].buf # NoBuf
  /\ hd'[h].len <= hd'[h].cap
  /\ hd'[h].off + hd'[h].cap <= heap[hd[h].buf].cap
  /\ hd'[h].ty \in {"mut", "moved"} /\ hd[h].data = NoShared =>
       hd'[h].off = hd'[h].pos /\ hd'[h].pos + hd'[h].cap = heap[hd[h].buf].cap
  /\ h \in seen' => hd[h].data # NoShared /\ hd'[h].ty \in {"mut", "bytes"}
  /\ \/ Alone(h)
     \/ /\ hd'[h].ty = "mut" => hd[h].ty = "mut"
        /\ InUse(h)' => InUse(h)
        /\ hd[h].off <= hd'[h].off
        /\ hd'[h].off + hd'[h].cap <= hd[h].off + hd[h].cap

\* An action that only moves one handle's window keeps the invariant.
LEMMA ViewKeepsInv ==
  ASSUME IInv, TypeOK', NEW h \in Handles, Views(h)
  PROVE  IInv'
<1>1. ASSUME NEW x \in Handles, x # h
      PROVE  /\ hd'[x].data = hd[x].data /\ hd'[x].buf = hd[x].buf
             /\ hd'[x].pos = hd[x].pos /\ hd'[x].off = hd[x].off
             /\ hd'[x].len = hd[x].len /\ hd'[x].cap = hd[x].cap
             /\ \/ hd'[x] = hd[x]
                \/ hd[x].ty = "mut" /\ hd'[x].ty = "moved" /\ x \notin seen
             /\ x \in seen' <=> x \in seen
  <2>1. Kept(x) /\ (x \in seen' <=> x \in seen)
    BY <1>1 DEF Views
  <2> QED BY <2>1, KeptFields DEF IInv
<1>2. /\ hd'[h].data = hd[h].data /\ hd'[h].buf = hd[h].buf /\ hd[h].buf \in Bufs
      /\ hd[h].ty # "none" /\ hd'[h].ty # "none" /\ sh' = sh
      /\ \A a \in Bufs : heap'[a].live = heap[a].live /\ heap'[a].cap = heap[a].cap
      /\ \A x \in Handles : hd[x] \in HandleType /\ hd'[x] \in HandleType
  BY DEF IInv, TypeOK, HandleType, Views
<1>3. HandleInv'
  <2> SUFFICES ASSUME NEW x \in Handles PROVE HandleOK(x)'
    BY DEF HandleInv
  <2>1. HandleOK(x) /\ TypeOK /\ (hd[x].buf # NoBuf => hd[x].buf \in Bufs)
    BY <1>2 DEF IInv, HandleInv, HandleType
  <2>2. CASE x = h
    BY <1>2, <2>1, <2>2, SMTT(60) DEF Views, HandleOK
  <2>3. CASE x # h
    <3>1. Kept(x) /\ (x \in seen' => x \in seen)
      BY <1>1, <2>3 DEF Views
    <3> QED BY <1>2, <2>1, <3>1, KeptOK
  <2> QED BY <2>2, <2>3
<1>4. OwnerInv'
  BY <1>1, <1>2, SMTT(60) DEF IInv, OwnerInv, OwnsVec
<1>5. RefCountExact'
  <2>1. \A s \in Shareds : Holders(s)' = Holders(s)
    BY <1>1, <1>2, SMTT(60) DEF Holders, Exists
  <2> QED BY <1>2, <2>1, CountingSteps DEF IInv, Counted
<1>6. RegionInv'
  <2> SUFFICES ASSUME NEW x \in Handles, NEW y \in Handles, x # y,
                      hd'[x].ty = "mut", InUse(y)', hd'[x].buf = hd'[y].buf
               PROVE  Apart(hd'[x], hd'[y])
    BY DEF RegionInv
  <2>1. hd[x].buf = hd[y].buf
    BY <1>1, <1>2
  <2>2. CASE x # h /\ y # h
    BY <1>1, <2>1, <2>2, SMTT(60) DEF IInv, RegionInv, InUse, Apart
  <2>3. CASE x = h
    BY <1>1, <1>2, <2>1, <2>3, SMTT(60) DEF IInv, RegionInv, InUse, Apart, Alone, HandleType, Cap, Views
  <2>4. CASE y = h
    BY <1>1, <1>2, <2>1, <2>4, SMTT(60) DEF IInv, RegionInv, InUse, Apart, Alone, HandleType, Cap, Views
  <2> QED BY <2>2, <2>3, <2>4
<1>7. ReachInv'
  BY <1>1, <1>2, SMTT(60) DEF IInv, ReachInv
<1> QED BY <1>3, <1>4, <1>5, <1>6, <1>7 DEF IInv

\* The allocation of the only handle on it is exchanged for a fresh one.
LEMMA ReallocKeepsInv ==
  ASSUME IInv, TypeOK', NEW h \in Handles, NEW b \in Bufs,
         \A x \in Handles \ {h} : Kept(x),
         Alone(h), IsFree(b), hd[h].buf # NoBuf, hd[h].ty = "mut",
         \A a \in Bufs \ {b, hd[h].buf} : heap'[a] = heap[a],
         heap'[b].live, ~heap'[hd[h].buf].live, seen' = seen,
         hd'[h].ty = "mut", hd'[h].data = hd[h].data, hd'[h].buf = b,
         hd'[h].len <= hd'[h].cap, hd'[h].off + hd'[h].cap <= heap'[b].cap,
         hd[h].data = NoShared =>
           hd'[h].off = hd'[h].pos /\ hd'[h].pos + hd'[h].cap = heap'[b].cap,
         IF hd[h].data = NoShared THEN sh' = sh
         ELSE sh' = [sh EXCEPT ![hd[h].data].vec = b],
         hd[h].data # NoShared => sh[hd[h].data].ref_count = 1
  PROVE  IInv'
<1>1. ASSUME NEW x \in Handles, x # h
      PROVE  /\ hd'[x].data = hd[x].data /\ hd'[x].buf = hd[x].buf
             /\ hd'[x].pos = hd[x].pos /\ hd'[x].off = hd[x].off
             /\ hd'[x].len = hd[x].len /\ hd'[x].cap = hd[x].cap
             /\ \/ hd'[x] = hd[x]
                \/ hd[x].ty = "mut" /\ hd'[x].ty = "moved" /\ x \notin seen
             /\ hd[x].buf # hd[h].buf
             /\ hd[x].buf # b
  <2>1. hd[x].buf # hd[h].buf
    BY <1>1, SMTT(60) DEF IInv, HandleInv, HandleOK, Alone, NoHandle
  <2>2. hd[x].buf # b
    BY ConstantsAssumption, SMTT(60) DEF IInv, HandleInv, HandleOK, IsFree
  <2> QED BY <1>1, <2>1, <2>2, KeptFields DEF IInv
<1>2. /\ hd[h].buf \in Bufs /\ hd[h].buf # b
      /\ \A x \in Handles : hd[x] \in HandleType /\ hd'[x] \in HandleType
  BY DEF IInv, TypeOK, HandleType, HandleInv, HandleOK, IsFree
<1>3. \A s \in Shareds : sh[s].st = "live" => sh[s].vec # b
  BY DEF IInv, OwnerInv, IsFree
<1>4. ASSUME NEW s \in Shareds
      PROVE  /\ sh'[s].st = sh[s].st /\ sh'[s].ref_count = sh[s].ref_count
             /\ s # hd[h].data => sh'[s].vec = sh[s].vec
             /\ s = hd[h].data => sh'[s].vec = b
  BY ConstantsAssumption, SMTT(60) DEF IInv, TypeOK, SharedType
<1>5. \A s \in Shareds : sh[s].st = "live" /\ s # hd[h].data => sh[s].vec # hd[h].buf
  BY <1>2, SMTT(60) DEF IInv, HandleInv, HandleOK, OwnerInv, OwnsVec, HandleType
<1>6. \A x \in Handles : x # h => hd[x].data # hd[h].data \/ hd[x].data = NoShared
  BY <1>1, SMTT(60) DEF IInv, HandleInv, HandleOK
<1>7. HandleInv'
  BY <1>1, <1>2, <1>4, <1>6, ConstantsAssumption, SMTT(60) DEF IInv, HandleInv, HandleOK, HandleType
<1>8. OwnerInv'
  BY <1>1, <1>2, <1>3, <1>4, <1>5, SMTT(60) DEF IInv, OwnerInv, OwnsVec, HandleType
<1>9. RefCountExact'
  <2>1. \A s \in Shareds : Holders(s)' = Holders(s)
    BY <1>1, SMTT(60) DEF Holders, Exists
  <2> QED BY <1>4, <2>1, CountingSteps DEF IInv, Counted
<1>10. RegionInv'
  BY <1>1, SMTT(60) DEF IInv, RegionInv, InUse, Apart
<1>11. ReachInv'
  BY <1>1, <1>2, SMTT(60) DEF IInv, ReachInv
<1> QED BY <1>7, <1>8, <1>9, <1>10, <1>11 DEF IInv

\* A handle leaves its block, dropping it if it was the last: drop, and the
\* branches that copy the contents into a fresh allocation before they release.
Releases(h) ==
  /\ \A x \in Handles \ {h} : Kept(x)
  /\ IsArc(h) /\ seen' = seen \ {h}
  /\ sh' = ReleasedSh(hd[h].data)
  /\ \A a \in Bufs :
       \/ heap'[a].live = heap[a].live /\ heap'[a].cap = heap[a].cap
       \/ a = hd'[h].buf
       \/ a = sh[hd[h].data].vec /\ sh[hd[h].data].ref_count = 1
  /\ sh[hd[h].data].ref_count = 1 => ~heap'[sh[hd[h].data].vec].live
  /\ \/ hd'[h] = NoHandle
     \/ /\ hd'[h].buf \in Bufs /\ IsFree(hd'[h].buf)
        /\ hd'[h].ty # "none" /\ hd'[h].data = NoShared /\ heap'[hd'[h].buf].live
        /\ hd'[h].len <= hd'[h].cap
        /\ hd'[h].off = 0 /\ hd'[h].pos = 0 /\ hd'[h].cap = heap'[hd'[h].buf].cap

\* An action that leaves a Shared block for a fresh allocation keeps the invariant.
LEMMA ReleaseKeepsInv ==
  ASSUME IInv, TypeOK', NEW h \in Handles, Releases(h)
  PROVE  IInv'
<1> DEFINE b == hd'[h].buf
<1>1. PICK s \in Shareds : s = hd[h].data
  BY DEF IInv, TypeOK, HandleType, IsArc, Releases
<1>2. /\ s = hd[h].data /\ hd[h].ty # "none" /\ sh[s].st = "live" /\ sh[s].vec = hd[h].buf
      /\ \A x \in Handles : hd[x] \in HandleType /\ hd'[x] \in HandleType
  BY <1>1, SMTT(60) DEF IInv, TypeOK, HandleType, HandleInv, HandleOK, IsArc, NoHandle, Releases
<1>3. /\ hd'[h] = NoHandle \/ (b \in Bufs /\ IsFree(b) /\ heap'[b].live)
      /\ hd'[h].data = NoShared /\ h \notin seen'
  BY NoHandleFields DEF Releases
<1>4. \A x \in Handles : hd[x].buf # NoBuf => hd[x].buf # b
  BY <1>3, NoHandleFields, ConstantsAssumption DEF IInv, HandleInv, HandleOK, IsFree
<1>5. \A t \in Shareds : sh[t].st = "live" => sh[t].vec # b
  BY <1>3, NoHandleFields, ConstantsAssumption DEF IInv, OwnerInv, IsFree
<1>6. ASSUME NEW x \in Handles, x # h
      PROVE  /\ hd'[x].data = hd[x].data /\ hd'[x].buf = hd[x].buf
             /\ hd'[x].pos = hd[x].pos /\ hd'[x].off = hd[x].off
             /\ hd'[x].len = hd[x].len /\ hd'[x].cap = hd[x].cap
             /\ \/ hd'[x] = hd[x]
                \/ hd[x].ty = "mut" /\ hd'[x].ty = "moved" /\ x \notin seen
             /\ x \in seen' <=> x \in seen
             /\ Kept(x)
  <2>1. Kept(x) /\ (x \in seen' <=> x \in seen)
    BY <1>6 DEF Releases
  <2> QED BY <2>1, KeptFields DEF IInv
<1>7. /\ sh'[s].ref_count = sh[s].ref_count - 1
      /\ sh[s].ref_count # 1 => sh'[s].st = sh[s].st /\ sh'[s].vec = sh[s].vec
      /\ sh[s].ref_count = 1 => sh'[s].st = "none"
      /\ \A t \in Shareds : t # s => sh'[t] = sh[t]
  BY <1>1, SMTT(60) DEF IInv, TypeOK, SharedType, ReleasedSh, NoSharedBlock, Releases
<1>8. sh[s].ref_count \in Nat /\ sh[s].ref_count > 0
  BY <1>2 DEF IInv, RefCountExact, TypeOK, SharedType
<1>9. /\ \A a \in Bufs : \/ heap'[a].live = heap[a].live /\ heap'[a].cap = heap[a].cap
                         \/ a = b
                         \/ a = sh[s].vec /\ sh[s].ref_count = 1
      /\ sh[s].ref_count = 1 => ~heap'[sh[s].vec].live
  BY <1>1 DEF Releases
<1>10. ASSUME sh[s].ref_count = 1, NEW x \in Handles, x # h, hd[x].ty # "none"
       PROVE  hd[x].buf # sh[s].vec /\ hd[x].data # s
  <2>1. hd[x].buf # sh[s].vec
    BY <1>2, <1>10, UniqueIsAlone DEF Releases
  <2> QED BY <1>2, <2>1, ConstantsAssumption DEF IInv, HandleInv, HandleOK
<1>11. ASSUME NEW x \in Handles, x # h, hd[x].buf # NoBuf
       PROVE  /\ heap'[hd[x].buf].live = heap[hd[x].buf].live
              /\ heap'[hd[x].buf].cap = heap[hd[x].buf].cap
  <2>1. HandleOK(x) /\ hd[x] \in HandleType
    BY <1>2 DEF IInv, HandleInv
  <2>2. hd[x].buf \in Bufs /\ hd[x].ty # "none"
    BY <1>11, <2>1, NoHandleFields DEF HandleOK, HandleType
  <2>3. sh[s].ref_count = 1 => hd[x].buf # sh[s].vec
    BY <1>10, <1>11, <2>2
  <2> QED BY <1>4, <1>9, <1>11, <2>2, <2>3
<1>12. HandleInv'
  <2> SUFFICES ASSUME NEW x \in Handles PROVE HandleOK(x)'
    BY DEF HandleInv
  <2>1. CASE x = h
    <3>1. CASE hd'[h] = NoHandle
      BY <1>3, <2>1, <3>1, NoHandleOK
    <3>2. CASE hd'[h] # NoHandle
      BY <1>2, <1>3, <2>1, <3>2, ConstantsAssumption, SMTT(60) DEF HandleOK, HandleType, Cap, Releases
    <3> QED BY <3>1, <3>2
  <2>2. CASE x # h
    <3>1. HandleOK(x) /\ TypeOK /\ Kept(x) /\ (x \in seen' => x \in seen)
      BY <1>6, <2>2 DEF IInv, HandleInv
    <3>2. hd[x].data # NoShared => /\ hd[x].ty # "none" /\ hd[x].data \in Shareds
                                   /\ sh[hd[x].data].st = "live"
                                   /\ sh[hd[x].data].vec = hd[x].buf
      BY <1>2, <3>1, NoHandleFields DEF HandleOK, HandleType
    <3>3. hd[x].data # NoShared => /\ sh'[hd[x].data].st = sh[hd[x].data].st
                                   /\ sh'[hd[x].data].vec = sh[hd[x].data].vec
      BY <1>7, <1>10, <2>2, <3>2
    <3>4. hd[x].buf # NoBuf => /\ heap'[hd[x].buf].live = heap[hd[x].buf].live
                               /\ heap'[hd[x].buf].cap = heap[hd[x].buf].cap
      BY <1>11, <2>2
    <3> QED BY <3>1, <3>3, <3>4, KeptOK
  <2> QED BY <2>1, <2>2
<1>13. OwnerInv'
  <2>1. ASSUME NEW t \in Shareds, sh'[t].st = "live"
        PROVE  /\ sh[t].st = "live" /\ sh'[t].vec = sh[t].vec
               /\ t = s => sh[s].ref_count # 1
    BY <1>2, <1>7, <2>1
  <2>2. ASSUME NEW t \in Shareds, sh'[t].st = "live"
        PROVE  sh'[t].vec \in Bufs /\ heap'[sh'[t].vec].live
    <3>1. sh[t].vec \in Bufs /\ heap[sh[t].vec].live /\ sh[t].vec # b
      BY <1>5, <2>1, <2>2 DEF IInv, OwnerInv
    <3>2. sh[s].ref_count = 1 => sh[t].vec # sh[s].vec
      BY <1>2, <2>1, <2>2 DEF IInv, OwnerInv
    <3> QED BY <1>9, <2>1, <2>2, <3>1, <3>2
  <2>3. \A t, u \in Shareds :
          t # u /\ sh'[t].st = "live" /\ sh'[u].st = "live" => sh'[t].vec # sh'[u].vec
    BY <2>1, SMTT(60) DEF IInv, OwnerInv
  <2>4. ASSUME NEW x \in Handles, NEW t \in Shareds, OwnsVec(x)', sh'[t].st = "live"
        PROVE  sh'[t].vec # hd'[x].buf
    BY <1>5, <1>6, <2>1, <2>4, SMTT(60) DEF IInv, OwnerInv, OwnsVec
  <2>5. ASSUME NEW x \in Handles, NEW y \in Handles, x # y, OwnsVec(x)', OwnsVec(y)'
        PROVE  hd'[x].buf # hd'[y].buf
    BY <1>4, <1>6, <2>5, SMTT(60) DEF IInv, OwnerInv, OwnsVec
  <2> QED BY <2>2, <2>3, <2>4, <2>5 DEF OwnerInv
<1>14. RefCountExact'
  <2>1. \A t \in Shareds : t # s => Holders(t)' = Holders(t)
    BY <1>2, <1>3, <1>6, ConstantsAssumption, SMTT(60) DEF Holders, Exists
  <2>2. h \in Holders(s) /\ Holders(s)' = Holders(s) \ {h}
    BY <1>2, <1>3, <1>6, ConstantsAssumption, SMTT(60) DEF Holders, Exists
  <2>3. (sh'[s].st = "live") <=> (sh[s].ref_count > 1)
    BY <1>2, <1>7, <1>8, SMTT(60)
  <2> QED BY <1>7, <2>1, <2>2, <2>3, CountingSteps DEF IInv, Counted
<1>15. RegionInv'
  <2>1. \A x \in Handles : x # h /\ InUse(x)' => InUse(x)
    BY <1>6 DEF InUse
  <2>2. \A x \in Handles : hd'[h].buf = hd[x].buf => hd'[h].cap = 0 \/ hd[x].cap = 0
    BY <1>3, <1>4, NoHandleFields, ConstantsAssumption DEF IInv, HandleInv, HandleOK
  <2> QED BY <1>6, <2>1, <2>2, SMTT(60) DEF IInv, RegionInv, Apart
<1>16. ReachInv'
  <2> SUFFICES ASSUME NEW a \in Bufs, heap'[a].live PROVE \E x \in Handles : hd'[x].buf = a
    BY DEF ReachInv
  <2>1. CASE a = b
    BY <2>1
  <2>2. CASE a # b /\ a = hd[h].buf
    <3>1. PICK x \in Holders(s) : x # h
      <4>1. sh[s].ref_count # 1
        BY <1>2, <1>9, <2>2
      <4>2. Cardinality(Holders(s)) # 1
        BY <4>1 DEF IInv, RefCountExact
      <4>3. Holders(s) # {h}
        BY <4>2, FS_Singleton
      <4>4. h \in Holders(s)
        BY <1>2 DEF Holders, Exists
      <4> QED BY <4>3, <4>4
    <3> QED BY <1>2, <1>6, <2>2, <3>1, ConstantsAssumption, SMTT(60) DEF Holders, IInv, HandleInv, HandleOK
  <2>3. CASE a # b /\ a # hd[h].buf
    BY <1>2, <1>6, <1>9, <2>3, SMTT(60) DEF IInv, ReachInv
  <2> QED BY <2>1, <2>2, <2>3
<1> QED BY <1>12, <1>13, <1>14, <1>15, <1>16 DEF IInv

\* shallow_clone and shared_v_clone: a new handle joins the block, which is new
\* if the old handle owned its vector; both see parts of what the old one saw.
Shares(h, o, s) ==
  /\ hd[h].ty \in {"mut", "bytes"} /\ hd[h].buf # NoBuf /\ h \notin seen /\ hd[o].ty = "none"
  /\ \A x \in Handles \ {h, o} : hd'[x] = hd[x]
  /\ heap' = heap /\ seen' = seen
  /\ \A t \in Shareds : t # s => sh'[t] = sh[t]
  /\ sh'[s].st = "live" /\ sh'[s].vec = hd[h].buf
  /\ \/ hd[h].data = NoShared /\ sh[s].st = "none" /\ sh'[s].ref_count = 2
     \/ hd[h].data = s /\ sh'[s].ref_count = sh[s].ref_count + 1
  /\ \A x \in {h, o} :
       /\ hd'[x].ty = hd[h].ty /\ hd'[x].data = s /\ hd'[x].buf = hd[h].buf
       /\ hd'[x].len <= hd'[x].cap
       /\ hd[h].off <= hd'[x].off
       /\ hd'[x].off + hd'[x].cap <= hd[h].off + hd[h].cap
  /\ hd[h].ty = "mut" => Apart(hd'[h], hd'[o])

\* An action that hands a part of a window to a new handle keeps the invariant.
LEMMA ShareKeepsInv ==
  ASSUME IInv, TypeOK', NEW h \in Handles, NEW o \in Handles, NEW s \in Shareds, Shares(h, o, s)
  PROVE  IInv'
<1>1. /\ hd[h].buf \in Bufs /\ s # NoShared /\ h # o
      /\ hd[o] = NoHandle /\ o \notin seen /\ hd[o].data = NoShared /\ hd[o].buf = NoBuf
      /\ \A x \in Handles : hd[x] \in HandleType /\ hd'[x] \in HandleType
      /\ hd[h].ty \in {"mut", "bytes"} /\ h \notin seen
      /\ heap' = heap /\ seen' = seen
  BY ConstantsAssumption, SMTT(60) DEF IInv, TypeOK, HandleType, HandleInv, HandleOK, NoHandle, Shares
<1>2. /\ heap[hd[h].buf].live
      /\ hd[h].off + hd[h].cap <= heap[hd[h].buf].cap
      /\ heap[hd[h].buf].cap \in Nat
      /\ hd[h].data # NoShared => hd[h].data = s /\ sh[s].st = "live" /\ sh[s].vec = hd[h].buf
      /\ hd[h].data = NoShared => \A x \in Handles : hd[x].data # s
  BY <1>1, SMTT(60) DEF IInv, HandleInv, HandleOK, TypeOK, AllocType, Cap, Shares
<1>3. /\ \A x \in Handles \ {h, o} : hd'[x] = hd[x]
      /\ \A x \in {h, o} : hd'[x].ty = hd[h].ty /\ hd'[x].data = s /\ hd'[x].buf = hd[h].buf
  BY DEF Shares
<1>4. /\ \A t \in Shareds : t # s => sh'[t] = sh[t]
      /\ sh'[s].st = "live" /\ sh'[s].vec = hd[h].buf
  BY DEF Shares
<1>5. ASSUME NEW x \in Handles PROVE HandleOK(x)'
  <2>1. CASE x \in {h, o}
    BY <1>1, <1>2, <2>1, SMTT(60) DEF HandleOK, HandleType, Cap, Shares
  <2>2. CASE x \notin {h, o}
    <3>1. hd[x].data # s => sh'[hd[x].data] = sh[hd[x].data] \/ hd[x].data = NoShared
      BY <1>1, <1>4 DEF HandleType
    <3>2. HandleOK(x) /\ TypeOK /\ Kept(x)
      BY <1>3, <2>2 DEF IInv, HandleInv, Kept
    <3>3. hd[x].data # NoShared => sh'[hd[x].data].st = sh[hd[x].data].st
                                   /\ sh'[hd[x].data].vec = sh[hd[x].data].vec
      BY <1>2, <1>4, <3>1
    <3> QED BY <1>1, <3>2, <3>3, KeptOK
  <2> QED BY <2>1, <2>2
<1>6. OwnerInv'
  <2>1. \A t \in Shareds : t # s /\ sh[t].st = "live" => sh[t].vec # hd[h].buf
    BY <1>1, <1>2, ConstantsAssumption DEF IInv, OwnerInv, OwnsVec
  <2>2. \A x \in Handles \ {h} : OwnsVec(x) => hd[x].buf # hd[h].buf
    BY <1>1, <1>2, ConstantsAssumption DEF IInv, OwnerInv, OwnsVec
  <2> QED BY <1>1, <1>2, <1>3, <1>4, <2>1, <2>2, SMTT(60) DEF IInv, OwnerInv, OwnsVec
<1>7. RefCountExact'
  <2>1. \A t \in Shareds : t # s => Holders(t)' = Holders(t)
    BY <1>1, <1>2, <1>3, ConstantsAssumption, SMTT(60) DEF Holders, Exists
  <2>2. CASE hd[h].data = NoShared
    <3>1. Holders(s) = {} /\ Holders(s)' = {h, o}
      BY <1>1, <1>2, <1>3, <2>2, SMTT(60) DEF Holders, Exists
    <3>2. sh'[s].ref_count = 2
      BY <1>1, <2>2 DEF Shares
    <3> QED BY <1>1, <1>4, <2>1, <3>1, <3>2, CountingSteps DEF IInv, Counted
  <2>3. CASE hd[h].data = s
    <3>1. o \notin Holders(s) /\ Holders(s)' = Holders(s) \cup {o}
      BY <1>1, <1>2, <1>3, <2>3 DEF Holders, Exists
    <3>2. sh'[s].ref_count = sh[s].ref_count + 1
      BY <1>1, <2>3 DEF Shares
    <3> QED BY <1>1, <1>4, <2>1, <3>1, <3>2, CountingSteps DEF IInv, Counted
  <2> QED BY <1>2, <2>2, <2>3
<1>8. RegionInv'
  <2> SUFFICES ASSUME NEW x \in Handles, NEW y \in Handles, x # y,
                      hd'[x].ty = "mut", InUse(y)', hd'[x].buf = hd'[y].buf
               PROVE  Apart(hd'[x], hd'[y])
    BY DEF RegionInv
  <2>1. CASE x \notin {h, o} /\ y \notin {h, o}
    BY <1>3, <2>1 DEF IInv, RegionInv, InUse
  <2>2. CASE x \in {h, o} /\ y \notin {h, o}
    BY <1>1, <2>2, SMTT(60) DEF IInv, RegionInv, InUse, Apart, HandleType, Cap, Shares
  <2>3. CASE x \notin {h, o} /\ y \in {h, o}
    BY <1>1, <2>3, SMTT(60) DEF IInv, RegionInv, InUse, Apart, HandleType, Cap, Shares
  <2>4. CASE x \in {h, o} /\ y \in {h, o}
    <3>1. Apart(hd'[h], hd'[o])
      BY <1>3, <2>4 DEF Shares
    <3> QED BY <2>4, <3>1, SMTT(60) DEF Apart
  <2> QED BY <2>1, <2>2, <2>3, <2>4
<1>9. ReachInv'
  BY <1>1, <1>3, ConstantsAssumption, SMTT(60) DEF IInv, ReachInv
<1> QED BY <1>5, <1>6, <1>7, <1>8, <1>9 DEF IInv, HandleInv

\* Two handles change places (unsplit of an empty self, a split at one end); the
\* one that was there before is then to be dropped, or is an empty static Bytes.
LEMMA SwapKeepsInv ==
  ASSUME IInv, TypeOK', NEW h \in Handles, NEW o \in Handles, h # o,
         h \notin seen, o \notin seen, hd[h].ty # "none",
         \A x \in Handles \ {h, o} : hd'[x] = hd[x],
         hd'[o] = hd[h],
         \/ hd[o].ty = "none" /\ hd'[h] = StaticEmpty
         \/ hd[o].ty = "mut" /\ hd'[h] = [hd[o] EXCEPT !.ty = "moved"],
         heap' = heap, sh' = sh, seen' = seen
  PROVE  IInv'
<1>1. /\ hd'[h].data = hd[o].data /\ hd'[h].buf = hd[o].buf
      /\ hd'[h].pos = hd[o].pos /\ hd'[h].off = hd[o].off
      /\ hd'[h].len = hd[o].len /\ hd'[h].cap = hd[o].cap
      /\ hd[o].ty = "none" => hd[o] = NoHandle
      /\ hd'[h].ty = IF hd[o].ty = "none" THEN "bytes" ELSE "moved"
      /\ \A x \in Handles : hd[x] \in HandleType /\ hd'[x] \in HandleType
  BY SMTT(60) DEF IInv, TypeOK, HandleType, HandleInv, HandleOK, StaticEmpty, NoHandle
<1>2. HandleInv'
  BY <1>1, ConstantsAssumption, SMTT(60) DEF IInv, HandleInv, HandleOK, HandleType, NoHandle
<1>3. OwnerInv'
  BY <1>1, SMTT(60) DEF IInv, OwnerInv, OwnsVec
<1>4. RefCountExact'
  <2>1. ASSUME NEW s \in Shareds PROVE Counted(s)
    <3>1. CASE hd[h].data = hd[o].data \/ (hd[h].data # s /\ hd[o].data # s)
      <4>1. Holders(s)' = Holders(s)
        BY <1>1, <3>1, ConstantsAssumption, SMTT(60) DEF Holders, Exists, NoHandle
      <4> QED BY <4>1 DEF Counted
    <3>2. CASE hd[h].data = s /\ hd[o].data # s
      <4>1. h \in Holders(s) /\ o \notin Holders(s) /\ Holders(s)' = (Holders(s) \ {h}) \cup {o}
        BY <1>1, <3>2, ConstantsAssumption, SMTT(60) DEF Holders, Exists, NoHandle
      <4> QED BY <4>1 DEF Counted
    <3>3. CASE hd[o].data = s /\ hd[h].data # s
      <4>1. o \in Holders(s) /\ h \notin Holders(s) /\ Holders(s)' = (Holders(s) \ {o}) \cup {h}
        BY <1>1, <3>3, ConstantsAssumption, SMTT(60) DEF Holders, Exists, NoHandle
      <4> QED BY <4>1 DEF Counted
    <3> QED BY <3>1, <3>2, <3>3
  <2> QED BY <2>1, CountingSteps DEF IInv
<1>5. RegionInv'
  <2> SUFFICES ASSUME NEW x \in Handles, NEW y \in Handles, x # y,
                      hd'[x].ty = "mut", InUse(y)', hd'[x].buf = hd'[y].buf
               PROVE  Apart(hd'[x], hd'[y])
    BY DEF RegionInv
  <2>1. x # h
    BY <1>1
  <2>2. CASE y = h
    BY <1>1, <2>2, SMTT(60) DEF InUse, Apart, NoHandle
  <2>3. CASE y # h
    BY <2>1, <2>3, SMTT(60) DEF IInv, RegionInv, InUse
  <2> QED BY <2>2, <2>3
<1>6. ReachInv'
  BY <1>1, SMTT(60) DEF IInv, ReachInv
<1> QED BY <1>2, <1>3, <1>4, <1>5, <1>6 DEF IInv

-----------------------------------------------------------------------------
(* Changes of owner, joins, creation, splitting and editing.               *)

\* Buf::advance past MAX_VEC_POS: the owner of a vector moves it into a block.
LEMMA PromoteKeepsInv ==
  ASSUME IInv, NEW h \in Handles, NEW count \in Cap, NEW s \in Shareds,
         advance_promoting(h, count, s)
  PROVE  IInv'
<1> DEFINE r == Advanced(OnShared(hd[h], s), count)
<1>1. /\ hd[h] \in HandleType /\ hd[h].ty = "mut" /\ hd[h].buf \in Bufs /\ h \notin seen
      /\ hd[h].data = NoShared /\ sh[s].st = "none"
      /\ count \in 1 .. hd[h].len /\ hd[h].len <= hd[h].cap
      /\ heap[hd[h].buf].live /\ hd[h].off + hd[h].cap <= heap[hd[h].buf].cap
      /\ heap[hd[h].buf].cap \in 0 .. MaxCap /\ heap' = heap /\ seen' = seen
  BY DEF IInv, TypeOK, HandleType, HandleInv, HandleOK, AllocType, Cap,
         advance_promoting, promote_to_shared, Idle, IsArc
<1>2. /\ r.ty = "mut" /\ r.data = s /\ r.buf = hd[h].buf
      /\ r.off = hd[h].off + count /\ r.len = hd[h].len - count /\ r.cap = hd[h].cap - count
      /\ r \in HandleType
  BY <1>1, OnSharedFields, AdvancedFields, ConstantsAssumption, SMTT(60) DEF Cap, HandleType
<1>3. hd' = [hd EXCEPT ![h] = r]
  BY DEF advance_promoting
<1>4. /\ sh'[s] \in SharedType /\ sh'[s].st = "live" /\ sh'[s].vec = hd[h].buf
      /\ sh'[s].ref_count = 1 /\ \A t \in Shareds : t # s => sh'[t] = sh[t]
      /\ sh' \in [Shareds -> SharedType]
  BY <1>1 DEF IInv, TypeOK, HandleType, SharedType, advance_promoting, promote_to_shared
<1> HIDE DEF r
<1>5. hd'[h] = r /\ (\A x \in Handles \ {h} : hd'[x] = hd[x]) /\ TypeOK'
  BY <1>1, <1>2, <1>3, <1>4 DEF IInv, TypeOK
<1>6. \A x \in Handles : hd[x] \in HandleType /\ hd[x].data # s /\ hd[x].off \in Nat /\ hd[x].cap \in Nat
  BY <1>1, ConstantsAssumption, SMTT(60) DEF IInv, TypeOK, HandleType, HandleInv, HandleOK, Cap
<1>7. ASSUME NEW x \in Handles PROVE HandleOK(x)'
  <2>1. CASE x = h
    BY <1>1, <1>2, <1>4, <1>5, <1>6, <2>1, ConstantsAssumption, SMTT(60) DEF HandleOK, Cap, HandleType
  <2>2. CASE x # h
    <3>1. sh'[hd[x].data] = sh[hd[x].data] \/ hd[x].data = NoShared
      BY <1>4, <1>6 DEF HandleType
    <3>2. HandleOK(x) /\ TypeOK /\ Kept(x)
      BY <1>5, <2>2 DEF IInv, HandleInv, Kept
    <3> QED BY <1>1, <3>1, <3>2, KeptOK
  <2> QED BY <2>1, <2>2
<1>8. OwnerInv'
  <2>1. \A t \in Shareds : t # s /\ sh[t].st = "live" => sh[t].vec # hd[h].buf
    BY <1>1, ConstantsAssumption DEF IInv, OwnerInv, OwnsVec
  <2>2. \A x \in Handles \ {h} : OwnsVec(x) => hd[x].buf # hd[h].buf
    BY <1>1, ConstantsAssumption DEF IInv, OwnerInv, OwnsVec
  <2> QED BY <1>1, <1>2, <1>4, <1>5, <2>1, <2>2, ConstantsAssumption, SMTT(60) DEF IInv, OwnerInv, OwnsVec
<1>9. RefCountExact'
  <2>1. \A t \in Shareds : t # s => Holders(t)' = Holders(t)
    BY <1>1, <1>2, <1>5, ConstantsAssumption, SMTT(60) DEF Holders, Exists
  <2>2. h \notin Holders(s) /\ Holders(s)' = Holders(s) \cup {h}
    BY <1>1, <1>2, <1>5, <1>6 DEF Holders, Exists
  <2>3. sh[s].ref_count = 0
    BY <1>1, SMTT(60) DEF IInv, RefCountExact, TypeOK, SharedType
  <2> QED BY <1>4, <2>1, <2>2, <2>3, CountingSteps, SMTT(60) DEF IInv, Counted
<1>10. RegionInv'
  BY <1>1, <1>2, <1>5, <1>6, SMTT(60) DEF IInv, RegionInv, InUse, Apart, HandleType, Cap
<1>11. ReachInv'
  BY <1>1, <1>2, <1>5, SMTT(60) DEF IInv, ReachInv
<1> QED BY <1>5, <1>7, <1>8, <1>9, <1>10, <1>11 DEF IInv, HandleInv

\* try_unsplit on two contiguous parts of one allocation.
LEMMA JoinKeepsInv ==
  ASSUME IInv, NEW h \in Handles, NEW o \in Handles, unsplit_joined(h, o)
  PROVE  IInv'
<1>1. /\ hd[h] \in HandleType /\ hd[h].ty = "mut" /\ hd[h].buf \in Bufs /\ h \notin seen
      /\ hd[o] \in HandleType /\ hd[o].ty = "mut" /\ hd[o].buf \in Bufs /\ o \notin seen
      /\ h # o /\ heap' = heap /\ sh' = sh /\ seen' = seen
      /\ \A x \in Handles : hd[x] \in HandleType /\ HandleOK(x)
      /\ \A a \in Bufs : heap[a].cap \in 0 .. MaxCap
  BY DEF IInv, TypeOK, HandleType, HandleInv, HandleOK, AllocType, Cap, unsplit_joined, Idle
<1>2. hd'[o] = [hd[o] EXCEPT !.ty = "moved"] /\ \A x \in Handles \ {h, o} : hd'[x] = hd[x]
  BY <1>1 DEF IInv, TypeOK, unsplit_joined
<1>3. \A x \in Handles \ {h} : Kept(x)
  BY <1>1, <1>2 DEF Kept
<1>4. CASE hd[o].cap = 0
  <2>1. hd'[h] = hd[h]
    BY <1>1, <1>4 DEF IInv, TypeOK, unsplit_joined
  <2>2. TypeOK'
    BY <1>1, <1>2, <2>1, SMTT(60) DEF IInv, TypeOK, HandleType, unsplit_joined
  <2>3. HandleOK(h)
    BY <1>1
  <2>4. hd[h].buf # NoBuf
    BY <1>1, ConstantsAssumption
  <2>5. hd[h].off \in Nat /\ hd[h].cap \in Nat
    BY <1>1, SMTT(60) DEF HandleType, Cap
  <2>6. /\ hd[h].len <= hd[h].cap /\ hd[h].off + hd[h].cap <= heap[hd[h].buf].cap
        /\ hd[h].data = NoShared =>
             hd[h].off = hd[h].pos /\ hd[h].pos + hd[h].cap = heap[hd[h].buf].cap
    BY <1>1, <2>3, <2>4 DEF HandleOK
  <2>7. /\ InUse(h)' => InUse(h)
        /\ hd[h].off <= hd'[h].off /\ hd'[h].off + hd'[h].cap <= hd[h].off + hd[h].cap
    BY <2>1, <2>5, SMTT(60) DEF InUse
  <2>8. hd[h].ty = "mut" /\ h \notin seen /\ sh' = sh /\ seen' = seen /\ heap' = heap
    BY <1>1
  <2> QED BY <1>3, <2>1, <2>2, <2>4, <2>6, <2>7, <2>8, ViewKeepsInv DEF Views
<1>5. CASE hd[o].cap # 0
  <2>1. /\ Contiguous(hd[h], hd[o])
        /\ hd'[h] = [hd[h] EXCEPT !.len = hd[h].len + hd[o].len, !.cap = hd[h].cap + hd[o].cap]
    BY <1>1, <1>5 DEF IInv, TypeOK, unsplit_joined
  <2>2. hd[h].len # 0 /\ Apart(hd[h], hd[o])
    BY <1>1, <2>1 DEF IInv, RegionInv, InUse, Contiguous, unsplit_joined
  <2>3. hd[h].cap = hd[h].len
    BY ONLY <1>1, <1>5, <2>1, <2>2, SMTT(60) DEF Contiguous, Apart, HandleOK, HandleType, Cap
  <2>4. hd[h].off + hd[h].cap + hd[o].cap <= heap[hd[h].buf].cap
    BY <1>1, <2>1, <2>3, ConstantsAssumption, SMTT(60) DEF Contiguous, HandleOK, HandleType, Cap
  <2>5. /\ hd'[h].ty = "mut" /\ hd'[h].data = hd[h].data /\ hd'[h].buf = hd[h].buf
        /\ hd'[h].off = hd[h].off /\ hd'[h].len = hd[h].len + hd[o].len
        /\ hd'[h].cap = hd[h].cap + hd[o].cap /\ hd'[h].pos = hd[h].pos
        /\ hd'[h] \in HandleType
    <3>1. hd[h].len + hd[o].len \in Cap /\ hd[h].cap + hd[o].cap \in Cap
      <4>1. /\ hd[h].off \in Nat /\ hd[h].len \in Nat /\ hd[h].cap \in Nat
            /\ hd[o].len \in Nat /\ hd[o].cap \in Nat
        BY <1>1, SMTT(60) DEF HandleType, Cap
      <4>2. hd[o].len <= hd[o].cap
        BY <1>1 DEF HandleOK
      <4>3. /\ heap[hd[h].buf].cap \in Nat /\ heap[hd[h].buf].cap <= MaxCap /\ MaxCap \in Nat
        BY <1>1, ConstantsAssumption, SMTT(60)
      <4>4. hd[h].cap + hd[o].cap <= MaxCap
        BY <2>4, <4>1, <4>3, SMTT(60)
      <4>5. hd[h].len + hd[o].len <= MaxCap
        BY <2>3, <4>1, <4>2, <4>3, <4>4, SMTT(60)
      <4> QED BY <4>1, <4>4, <4>5, SMTT(60) DEF Cap
    <3> QED BY <1>1, <2>1, <3>1 DEF HandleType
  <2>6. TypeOK'
    <3>1. hd' = [x \in Handles |-> hd'[x]]
      BY DEF IInv, TypeOK, unsplit_joined
    <3>2. \A x \in Handles : hd'[x] \in HandleType
      BY <1>1, <1>3, <2>5, KeptFields DEF IInv
    <3> QED BY <1>1, <3>1, <3>2 DEF IInv, TypeOK
  <2>7. \A x \in Handles \ {h} :
          /\ hd'[x].data = hd[x].data /\ hd'[x].buf = hd[x].buf
          /\ hd'[x].pos = hd[x].pos /\ hd'[x].off = hd[x].off
          /\ hd'[x].len = hd[x].len /\ hd'[x].cap = hd[x].cap
          /\ x # o => hd'[x] = hd[x]
    BY <1>1, <1>2, <1>3, KeptFields DEF IInv
  <2>8. hd'[o].ty = "moved" /\ hd[h].data # NoShared /\ hd[o].data # NoShared
    BY <1>1, <1>2, <2>1 DEF HandleType, Contiguous
  <2>13. /\ hd[h].off + hd[h].cap = hd[o].off /\ hd[h].cap # 0 /\ hd[o].buf = hd[h].buf
         /\ \A x \in Handles : hd[x].off \in Nat /\ hd[x].cap \in Nat
    BY <1>1, <2>1, <2>2, <2>3, SMTT(60) DEF Contiguous, HandleType, Cap
  <2>9. HandleInv'
    <3> SUFFICES ASSUME NEW x \in Handles PROVE HandleOK(x)'
      BY DEF HandleInv
    <3>1. CASE x # h
      <4>1. Kept(x) /\ HandleOK(x) /\ TypeOK
        BY <1>1, <1>3, <3>1 DEF IInv
      <4> QED BY <1>1, <4>1, KeptOK
    <3>2. CASE x = h
      <4>1. HandleOK(h) /\ hd[h].buf # NoBuf
        BY <1>1, ConstantsAssumption
      <4>2. /\ hd[h].off \in Nat /\ hd[h].len \in Nat /\ hd[h].cap \in Nat
            /\ hd[o].len \in Nat /\ hd[o].cap \in Nat
        BY <1>1, SMTT(60) DEF HandleType, Cap
      <4>3. hd[h].len <= hd[h].cap /\ hd[o].len <= hd[o].cap
        BY <1>1 DEF HandleOK
      <4>4. hd'[h].len <= hd'[h].cap /\ hd'[h].off + hd'[h].cap <= heap[hd[h].buf].cap
        <5>1. hd[h].len + hd[o].len <= hd[h].cap + hd[o].cap
          BY <4>2, <4>3, SMTT(60)
        <5>2. hd[h].off + (hd[h].cap + hd[o].cap) = hd[h].off + hd[h].cap + hd[o].cap
          BY <4>2, SMTT(60)
        <5> QED BY <2>4, <2>5, <5>1, <5>2
      <4>5. h \notin seen' /\ heap' = heap /\ sh' = sh /\ hd[h].ty = "mut"
        BY <1>1
      <4> QED BY <2>5, <2>8, <3>2, <4>1, <4>4, <4>5 DEF HandleOK
    <3> QED BY <3>1, <3>2
  <2>10. OwnerInv'
    BY <1>1, <2>5, <2>7, <2>8, SMTT(60) DEF IInv, OwnerInv, OwnsVec
  <2>11. RefCountExact'
    <3>1. \A s \in Shareds : Holders(s)' = Holders(s)
      BY <1>1, <2>5, <2>7, <2>8, SMTT(60) DEF Holders, Exists
    <3> QED BY <1>1, <3>1, CountingSteps DEF IInv, Counted
  <2>12. RegionInv'
    <3> SUFFICES ASSUME NEW x \in Handles, NEW y \in Handles, x # y,
                        hd'[x].ty = "mut", InUse(y)', hd'[x].buf = hd'[y].buf
                 PROVE  Apart(hd'[x], hd'[y])
      BY DEF RegionInv
    <3>1. x # o /\ y # o
      BY <2>8 DEF InUse
    <3>2. CASE x # h /\ y # h
      BY <2>7, <3>1, <3>2 DEF IInv, RegionInv, InUse
    <3>3. CASE x = h
      <4>1. Apart(hd[h], hd[y]) /\ Apart(hd[o], hd[y])
        <5>1. y # h /\ y # o /\ InUse(y) /\ hd[y].buf = hd[h].buf
          BY <2>5, <2>7, <3>1, <3>3 DEF InUse
        <5>2. hd[h].ty = "mut" /\ hd[o].ty = "mut" /\ hd[o].buf = hd[h].buf
          BY <1>1, <2>13
        <5> QED BY <5>1, <5>2 DEF IInv, RegionInv
      <4> QED BY <1>5, <2>5, <2>7, <2>13, <3>1, <3>3, <4>1, SMTT(60) DEF Apart
    <3>4. CASE y = h
      <4>1. Apart(hd[x], hd[h]) /\ Apart(hd[x], hd[o])
        <5>1. x # h /\ x # o /\ hd[x].ty = "mut" /\ hd[x].buf = hd[h].buf
          BY <2>5, <2>7, <3>1, <3>4
        <5>2. InUse(h) /\ InUse(o) /\ hd[o].buf = hd[h].buf
          BY <1>1, <2>13 DEF InUse
        <5> QED BY <5>1, <5>2 DEF IInv, RegionInv
      <4> QED BY <1>5, <2>5, <2>7, <2>13, <3>1, <3>4, <4>1, SMTT(60) DEF Apart
    <3> QED BY <3>2, <3>3, <3>4
  <2>14. ReachInv'
    BY <1>1, <2>5, <2>7, SMTT(60) DEF IInv, ReachInv
  <2> QED BY <2>6, <2>9, <2>10, <2>11, <2>12, <2>14 DEF IInv
<1> QED BY <1>4, <1>5

\* The unique branch of the conversions to Vec: the block gives its vector back.
LEMMA TakeVecKeepsInv ==
  ASSUME IInv, NEW h \in Handles, into_vec_unique(h)
  PROVE  IInv'
<1> DEFINE v == hd[h].buf
           r == VecOf(v, hd[h].len, heap[v].cap)
<1>1. PICK s \in Shareds : s = hd[h].data
  BY DEF IInv, TypeOK, HandleType, into_vec_unique, Unique, IsArc
<1>2. /\ sh[s].ref_count = 1 /\ sh[s].st = "live" /\ sh[s].vec = v /\ v \in Bufs /\ h \notin seen
      /\ hd[h].ty \in {"mut", "bytes"}
      /\ Holders(s) = {h}
      /\ \A o \in Handles : o # h /\ hd[o].buf = v => hd[o].ty = "none"
      /\ \A x \in Handles : hd[x] \in HandleType /\ HandleOK(x)
  <2>1. /\ hd[h].data = s /\ IsArc(h) /\ h \notin seen /\ hd[h].ty \in {"mut", "bytes"}
        /\ sh[s].ref_count = 1
    BY <1>1 DEF into_vec_unique, Unique
  <2>2. \A x \in Handles : hd[x] \in HandleType /\ HandleOK(x)
    BY DEF IInv, TypeOK, HandleInv
  <2>3. sh[s].st = "live" /\ sh[s].vec = v /\ s # NoShared
    BY <2>1, <2>2, ConstantsAssumption DEF HandleOK
  <2>4. v \in Bufs
    BY <2>1, <2>2, <2>3 DEF HandleOK, HandleType
  <2>5. Holders(s) = {h} /\ \A o \in Handles : o # h /\ hd[o].buf = v => hd[o].ty = "none"
    BY <2>1, UniqueIsAlone
  <2> QED BY <2>1, <2>2, <2>3, <2>4, <2>5
<1>3. \A x \in Handles : x # h => hd[x].buf # v /\ hd[x].data # s
  BY <1>1, <1>2, ConstantsAssumption, SMTT(60) DEF HandleOK, NoHandle
<1>4. /\ hd' = [hd EXCEPT ![h] = r]
      /\ heap' = [heap EXCEPT ![v].cells = ShiftedDown(@, hd[h].off, hd[h].len)]
      /\ sh' = [sh EXCEPT ![s] = NoSharedBlock] /\ seen' = seen
  BY <1>1, <1>2 DEF into_vec_unique
<1>5. /\ hd[h].off \in Nat /\ hd[h].len \in Nat /\ hd[h].len <= heap[v].cap
      /\ hd[h].off + hd[h].len <= MaxCap
      /\ heap[v].cap \in Cap /\ heap[v].live /\ heap[v].cells \in [Idx -> Cell]
  <2>1. HandleOK(h) /\ v # NoBuf
    BY <1>2, ConstantsAssumption
  <2>2. hd[h].off \in Nat /\ hd[h].len \in Nat /\ hd[h].cap \in Nat
    BY <1>2, SMTT(60) DEF HandleType, Cap
  <2>3. heap[v].cap \in Cap /\ heap[v].cells \in [Idx -> Cell]
    BY <1>2 DEF IInv, TypeOK, AllocType
  <2>4. hd[h].len <= hd[h].cap /\ hd[h].off + hd[h].cap <= heap[v].cap /\ heap[v].live
    BY <1>2, <2>1 DEF HandleOK
  <2>5. heap[v].cap \in Nat /\ heap[v].cap <= MaxCap /\ MaxCap \in Nat
    BY <2>3, ConstantsAssumption, SMTT(60) DEF Cap
  <2> QED BY <2>2, <2>3, <2>4, <2>5, SMTT(60)
<1>6. /\ r \in HandleType /\ r.ty = "vec" /\ r.data = NoShared /\ r.buf = v
      /\ r.off = 0 /\ r.len = hd[h].len /\ r.cap = heap[v].cap
  <2>1. hd[h].len \in Cap
    BY <1>2 DEF HandleType
  <2> QED BY <1>2, <1>5, <2>1, Constants DEF HandleType, VecOf, NoHandle
<1>7. heap' \in [Bufs -> AllocType] /\ \A a \in Bufs :
        heap'[a].live = heap[a].live /\ heap'[a].cap = heap[a].cap
  BY <1>2, <1>4, <1>5, MovesType, SMTT(60) DEF IInv, TypeOK, AllocType
<1>8. /\ sh' \in [Shareds -> SharedType] /\ sh'[s].st = "none" /\ sh'[s].ref_count = 0
      /\ \A t \in Shareds : t # s => sh'[t] = sh[t]
  BY <1>4, Constants DEF IInv, TypeOK, NoSharedBlock
<1> HIDE DEF r
<1>9. TypeOK' /\ hd'[h] = r /\ \A x \in Handles \ {h} : hd'[x] = hd[x]
  BY <1>4, <1>6, <1>7, <1>8 DEF IInv, TypeOK
<1> HIDE DEF v
<1>10. ASSUME NEW x \in Handles PROVE HandleOK(x)'
  <2>1. CASE x = h
    BY <1>2, <1>4, <1>5, <1>6, <1>7, <1>9, <2>1, ConstantsAssumption, SMTT(60) DEF HandleOK, Cap
  <2>2. CASE x # h
    <3>1. hd[x].data = NoShared \/ sh'[hd[x].data] = sh[hd[x].data]
      BY <1>2, <1>3, <1>8, <2>2 DEF HandleType
    <3>2. HandleOK(x) /\ TypeOK /\ Kept(x)
      BY <1>2, <1>9, <2>2 DEF IInv, Kept
    <3>3. hd[x].buf # NoBuf => /\ heap'[hd[x].buf].live = heap[hd[x].buf].live
                               /\ heap'[hd[x].buf].cap = heap[hd[x].buf].cap
      BY <1>2, <1>7 DEF HandleType
    <3> QED BY <1>4, <3>1, <3>2, <3>3, KeptOK
  <2> QED BY <2>1, <2>2
<1>11. OwnerInv'
  <2>1. \A t \in Shareds : t # s /\ sh[t].st = "live" => sh[t].vec # v
    BY <1>2 DEF IInv, OwnerInv
  <2> QED BY <1>3, <1>6, <1>7, <1>8, <1>9, <2>1, SMTT(60) DEF IInv, OwnerInv, OwnsVec
<1>12. RefCountExact'
  <2>1. \A t \in Shareds : t # s => Holders(t)' = Holders(t)
    BY <1>1, <1>6, <1>9, ConstantsAssumption DEF Holders, Exists
  <2>2. h \in Holders(s) /\ Holders(s)' = Holders(s) \ {h}
    BY <1>2, <1>6, <1>9, ConstantsAssumption, SMTT(60) DEF Holders, Exists
  <2> QED BY <1>2, <1>8, <2>1, <2>2, CountingSteps, SMTT(60) DEF IInv, Counted
<1>13. RegionInv'
  BY <1>3, <1>6, <1>9 DEF IInv, RegionInv, InUse
<1>14. ReachInv'
  BY <1>3, <1>6, <1>7, <1>9, SMTT(60) DEF IInv, ReachInv, v
<1> QED BY <1>9, <1>10, <1>11, <1>12, <1>13, <1>14 DEF IInv, HandleInv

\* Dropping a handle in KIND_VEC form, a Vec or an empty static Bytes.
LEMMA DropOwnerKeepsInv ==
  ASSUME IInv, NEW h \in Handles, drop(h), ~IsArc(h)
  PROVE  IInv'
<1>1. /\ hd' = [hd EXCEPT ![h] = NoHandle] /\ sh' = sh /\ seen' = seen /\ h \notin seen
      /\ heap' = IF hd[h].buf = NoBuf THEN heap ELSE [heap EXCEPT ![hd[h].buf] = Freed]
      /\ hd[h].data = NoShared
      /\ \A x \in Handles : hd[x] \in HandleType /\ HandleOK(x)
  BY DEF drop, IsArc, IInv, TypeOK, HandleInv
<1>2. TypeOK' /\ hd'[h] = NoHandle /\ \A x \in Handles \ {h} : hd'[x] = hd[x]
  BY <1>1, Constants DEF IInv, TypeOK, HandleType
<1>3. \A a \in Bufs : a # hd[h].buf => heap'[a] = heap[a]
  BY <1>1 DEF IInv, TypeOK
<1>4. \A x \in Handles : x # h /\ hd[x].buf # NoBuf => hd[x].buf # hd[h].buf
  <2> SUFFICES ASSUME NEW x \in Handles, x # h, hd[x].buf # NoBuf, hd[x].buf = hd[h].buf
               PROVE  FALSE
    OBVIOUS
  <2>1. OwnsVec(h) /\ HandleOK(x) /\ hd[x] \in HandleType
    BY <1>1 DEF OwnsVec
  <2>2. CASE hd[x].data = NoShared
    BY <2>1, <2>2 DEF IInv, OwnerInv, OwnsVec
  <2>3. CASE hd[x].data # NoShared
    <3>1. /\ hd[x].data \in Shareds
          /\ sh[hd[x].data].st = "live" /\ sh[hd[x].data].vec = hd[h].buf
      BY <2>1, <2>3 DEF HandleOK, HandleType
    <3> QED BY <2>1, <3>1 DEF IInv, OwnerInv
  <2> QED BY <2>2, <2>3
<1>5. \A t \in Shareds : sh[t].st = "live" => sh[t].vec # hd[h].buf
  BY <1>1, ConstantsAssumption DEF IInv, OwnerInv, OwnsVec
<1>6. ASSUME NEW x \in Handles PROVE HandleOK(x)'
  <2>1. CASE x = h
    <3>1. hd'[x] = NoHandle /\ x \notin seen'
      BY <1>1, <1>2, <2>1
    <3> QED BY <3>1, NoHandleOK
  <2>2. CASE x # h
    <3>1. HandleOK(x) /\ TypeOK /\ Kept(x)
      BY <1>1, <1>2, <2>2 DEF IInv, Kept
    <3>2. hd[x].buf # NoBuf => heap'[hd[x].buf] = heap[hd[x].buf]
      BY <1>1, <1>3, <1>4, <2>2 DEF HandleType
    <3> QED BY <1>1, <3>1, <3>2, KeptOK
  <2> QED BY <2>1, <2>2
<1>7. OwnerInv'
  <2>1. ~OwnsVec(h)'
    BY <1>2, NoHandleFields DEF OwnsVec
  <2>2. \A x \in Handles : OwnsVec(x)' => OwnsVec(x) /\ hd'[x].buf = hd[x].buf
    BY <1>2, <2>1 DEF OwnsVec
  <2>3. \A t \in Shareds : sh[t].st = "live" => sh[t].vec \in Bufs /\ heap'[sh[t].vec].live
    BY <1>3, <1>5 DEF IInv, OwnerInv
  <2>4. sh' = sh
    BY <1>1
  <2> QED BY <2>2, <2>3, <2>4 DEF IInv, OwnerInv
<1>8. RefCountExact'
  <2>1. \A t \in Shareds : Holders(t)' = Holders(t)
    BY <1>1, <1>2, ConstantsAssumption, SMTT(60) DEF Holders, Exists, NoHandle
  <2> QED BY <1>1, <2>1, CountingSteps DEF IInv, Counted
<1>9. RegionInv'
  BY <1>2, SMTT(60) DEF IInv, RegionInv, InUse, NoHandle
<1>10. ReachInv'
  <2>1. hd[h].buf \in Bufs => ~heap'[hd[h].buf].live
    BY <1>1, ConstantsAssumption DEF IInv, TypeOK, Freed
  <2> QED BY <1>2, <1>3, <2>1, SMTT(60) DEF IInv, ReachInv
<1> QED BY <1>2, <1>6, <1>7, <1>8, <1>9, <1>10 DEF IInv, HandleInv

\* A new handle that is an empty static Bytes.
LEMMA StaticKeepsInv ==
  ASSUME IInv, NEW o \in Handles, hd[o].ty = "none",
         hd' = [hd EXCEPT ![o] = StaticEmpty],
         heap' = heap, sh' = sh, seen' = seen
  PROVE  IInv'
<1>1. /\ hd[o] = NoHandle /\ o \notin seen
      /\ StaticEmpty.ty = "bytes" /\ StaticEmpty.data = NoShared /\ StaticEmpty.buf = NoBuf
      /\ StaticEmpty.off = 0 /\ StaticEmpty.len = 0 /\ StaticEmpty.cap = 0
  BY DEF IInv, HandleInv, HandleOK, NoHandle, StaticEmpty
<1>2. TypeOK' /\ hd'[o] = StaticEmpty /\ \A x \in Handles \ {o} : hd'[x] = hd[x]
  BY Constants DEF IInv, TypeOK
<1>3. HandleInv'
  BY <1>1, <1>2, SMTT(60) DEF IInv, HandleInv, HandleOK
<1>4. OwnerInv'
  BY <1>1, <1>2, SMTT(60) DEF IInv, OwnerInv, OwnsVec
<1>5. RefCountExact'
  <2>1. \A t \in Shareds : Holders(t)' = Holders(t)
    BY <1>1, <1>2, ConstantsAssumption DEF Holders, Exists, NoHandle
  <2> QED BY <2>1, CountingSteps DEF IInv, Counted
<1>6. RegionInv'
  BY <1>1, <1>2, SMTT(60) DEF IInv, RegionInv, InUse, Apart
<1>7. ReachInv'
  BY <1>1, <1>2, NoHandleFields, ConstantsAssumption, SMTT(60) DEF IInv, ReachInv
<1> QED BY <1>2, <1>3, <1>4, <1>5, <1>6, <1>7 DEF IInv

-----------------------------------------------------------------------------
(* Actions.                                                                *)

\* What the invariant says of a handle on an allocation.
LEMMA ViewFacts ==
  ASSUME IInv, NEW h \in Handles, hd[h].buf # NoBuf
  PROVE  /\ hd[h] \in HandleType /\ hd[h].buf \in Bufs /\ hd[h].ty # "none"
         /\ hd[h].off \in Nat /\ hd[h].len \in Nat /\ hd[h].cap \in Nat /\ hd[h].pos \in Nat
         /\ hd[h].len <= hd[h].cap /\ hd[h].off + hd[h].cap <= heap[hd[h].buf].cap
         /\ heap[hd[h].buf].live /\ heap[hd[h].buf].cap \in Nat /\ heap[hd[h].buf].cap <= MaxCap
         /\ heap[hd[h].buf].cells \in [Idx -> Cell]
         /\ hd[h].ty \in {"mut", "moved"} /\ hd[h].data = NoShared =>
              hd[h].off = hd[h].pos /\ hd[h].pos + hd[h].cap = heap[hd[h].buf].cap
         /\ hd[h].data # NoShared => /\ hd[h].data \in Shareds
                                     /\ sh[hd[h].data].st = "live"
                                     /\ sh[hd[h].data].vec = hd[h].buf
BY SMTT(60) DEF IInv, TypeOK, HandleType, AllocType, HandleInv, HandleOK, NoHandle, Cap

\* A BytesMut, and a handle on a block, is on an allocation.
LEMMA MutHasBuf ==
  ASSUME IInv, NEW h \in Handles, hd[h].ty = "mut" \/ IsArc(h)
  PROVE  hd[h].buf # NoBuf
BY DEF IInv, HandleInv, HandleOK, IsArc

\* A handle in KIND_VEC form is alone on its allocation.
LEMMA OwnerIsAlone ==
  ASSUME IInv, NEW h \in Handles, hd[h].data = NoShared, hd[h].buf # NoBuf
  PROVE  Alone(h)
BY SMTT(60) DEF IInv, HandleInv, HandleOK, OwnerInv, OwnsVec, Alone, TypeOK, HandleType

\* A handle whose block answers is_unique() is alone on its allocation.
LEMMA UniqueAlone ==
  ASSUME IInv, NEW h \in Handles, Unique(h)
  PROVE  Alone(h)
BY UniqueIsAlone DEF Unique, Alone

\* with_capacity, from a slice, and Clone.
LEMMA CreateKeepsInv ==
  ASSUME IInv, NEW h \in Handles, Create(h)
  PROVE  IInv'
<1> DEFINE blank == [i \in Idx |-> Uninit]
<1>1. blank \in [Idx -> Cell]
  BY DEF Cell
<1>2. ASSUME NEW w \in Seq(Cell), Len(w) \in Cap, NEW b \in Bufs, from_slice(h, b, w)
      PROVE  IInv'
  <2>1. Written(blank, 0, w) \in [Idx -> Cell]
    BY <1>1, WrittenType
  <2>2. Len(w) <= Len(w)
    BY <1>2, SMTT(60) DEF Cap
  <2> QED BY <1>2, <2>1, <2>2, CreatedKeepsInv DEF from_slice
<1>3. ASSUME NEW b \in Bufs, NEW cap \in Cap, with_capacity(h, b, cap) PROVE IInv'
  <2>1. 0 <= cap
    BY SMTT(60) DEF Cap
  <2> QED BY <1>1, <1>3, <2>1, Constants, CreatedKeepsInv DEF with_capacity
<1>4. ASSUME NEW b \in Bufs, NEW w \in Slices, from_slice(h, b, w) PROVE IInv'
  BY <1>2, <1>4, SlicesType
<1>5. ASSUME NEW b \in Bufs, NEW o \in Handles, clone(o, h, b) PROVE IInv'
  <2>1. hd[o].ty = "mut" /\ from_slice(h, b, Slice(hd[o]))
    BY <1>5 DEF clone, Idle
  <2>2. hd[o].buf # NoBuf
    BY <2>1, MutHasBuf
  <2>3. Slice(hd[o]) \in Seq(Cell) /\ Len(Slice(hd[o])) \in Cap
    <3>1. hd[o].off + hd[o].len <= MaxCap
      BY <2>2, ViewFacts, ConstantsAssumption, SMTT(60)
    <3>2. hd[o] \in HandleType /\ hd[o].buf \in Bufs /\ hd[o].len \in Cap
      BY <2>2, ViewFacts DEF HandleType
    <3> QED BY <3>1, <3>2, SliceType DEF IInv, TypeOK
  <2> QED BY <1>2, <2>1, <2>3
<1> QED BY <1>3, <1>4, <1>5 DEF Create

\* Two updates of a function at different points.
LEMMA TwoUpdates ==
  ASSUME NEW S, NEW T, NEW f \in [S -> T], NEW a \in S, NEW b \in S, a # b,
         NEW u \in T, NEW v \in T, NEW g, g = [f EXCEPT ![a] = u, ![b] = v]
  PROVE  g \in [S -> T] /\ g[a] = u /\ g[b] = v /\ \A x \in S \ {a, b} : g[x] = f[x]
OBVIOUS

\* What shallow_clone leaves in the block and the two handles.
LEMMA ShallowCloneFacts ==
  ASSUME IInv, NEW h \in Handles, NEW s \in Shareds, hd[h].ty = "mut", shallow_clone(h, s)
  PROVE  /\ sh' \in [Shareds -> SharedType]
         /\ \A t \in Shareds : t # s => sh'[t] = sh[t]
         /\ sh'[s].st = "live" /\ sh'[s].vec = hd[h].buf
         /\ \/ hd[h].data = NoShared /\ sh[s].st = "none" /\ sh'[s].ref_count = 2
            \/ hd[h].data = s /\ sh'[s].ref_count = sh[s].ref_count + 1
<1>1. hd[h].buf # NoBuf
  BY MutHasBuf
<1>2. CASE IsArc(h)
  <2>1. /\ s = hd[h].data /\ sh' = [sh EXCEPT ![s].ref_count = @ + 1]
        /\ sh \in [Shareds -> SharedType]
    BY <1>2 DEF IInv, TypeOK, shallow_clone, increment_shared
  <2>2. sh[s].st = "live" /\ sh[s].vec = hd[h].buf
    BY <1>1, <1>2, <2>1, ViewFacts DEF IsArc
  <2> QED BY <2>1, <2>2, SMTT(60) DEF SharedType
<1>3. CASE ~IsArc(h)
  <2>1. /\ sh[s].st = "none" /\ sh \in [Shareds -> SharedType]
        /\ sh' = [sh EXCEPT ![s] = [st |-> "live", vec |-> hd[h].buf,
                                    ref_count |-> 2, repr |-> hd[h].repr]]
    BY <1>3 DEF IInv, TypeOK, shallow_clone, promote_to_shared
  <2>2. hd[h].buf \in Bufs /\ hd[h].repr \in Repr
    BY <1>1, ViewFacts DEF HandleType
  <2> QED BY <1>3, <2>1, <2>2 DEF SharedType, IsArc
<1> QED BY <1>2, <1>3

\* split_off, split_to and split.
LEMMA SplitKeepsInv ==
  ASSUME IInv, NEW h \in Handles, Split(h)
  PROVE  IInv'
<1>1. PICK o \in Handles, at \in Cap, s \in Shareds :
        split_off(h, o, at, s) \/ split_to(h, o, at, s)
  BY DEF Split
<1> DEFINE q == OnShared(hd[h], s)
           far == Advanced(q, at)
           near == [q EXCEPT !.cap = at, !.len = Smaller(hd[h].len, at)]
<1>2. /\ hd[h].ty = "mut" /\ h \notin seen /\ hd[o].ty = "none" /\ h # o
      /\ hd[h].buf # NoBuf /\ shallow_clone(h, s)
      /\ heap' = heap /\ seen' = seen
  BY <1>1, MutHasBuf DEF split_off, split_to, Idle
<1>3. at \in Nat /\ at <= hd[h].cap
  BY <1>1, <1>2, ViewFacts, SMTT(60) DEF split_off, split_to, Cap
<1>4. /\ q \in HandleType /\ q.ty = "mut" /\ q.data = s /\ q.buf = hd[h].buf
      /\ q.off = hd[h].off /\ q.len = hd[h].len /\ q.cap = hd[h].cap
  BY <1>2, ViewFacts, OnSharedFields, SMTT(60)
<1>5. /\ far \in HandleType /\ far.ty = "mut" /\ far.data = s /\ far.buf = hd[h].buf
      /\ far.off = hd[h].off + at /\ far.cap = hd[h].cap - at /\ far.len <= far.cap
  <2>1. q.off + q.cap <= MaxCap
    BY <1>2, <1>4, ViewFacts, ConstantsAssumption, SMTT(60)
  <2> HIDE DEF q
  <2>2. /\ far \in HandleType /\ far.ty = "mut" /\ far.data = s /\ far.buf = hd[h].buf
        /\ far.off = hd[h].off + at /\ far.cap = hd[h].cap - at
        /\ far.len = IF hd[h].len >= at THEN hd[h].len - at ELSE 0
    BY <1>3, <1>4, <2>1, AdvancedFields, SMTT(60)
  <2> QED BY <1>2, <1>3, <2>2, ViewFacts, SMTT(60)
<1>6. /\ near \in HandleType /\ near.ty = "mut" /\ near.data = s /\ near.buf = hd[h].buf
      /\ near.off = hd[h].off /\ near.cap = at /\ near.len <= near.cap
  <2>1. Smaller(hd[h].len, at) \in Cap /\ Smaller(hd[h].len, at) <= at
    BY <1>2, <1>3, ViewFacts, SMTT(60) DEF Smaller, HandleType
  <2> HIDE DEF q
  <2> QED BY <1>4, <2>1 DEF HandleType
<1>7. split_to(h, o, at, s) => Smaller(hd[h].len, at) = at
  BY <1>2, <1>3, ViewFacts, SMTT(60) DEF Smaller, split_to
<1>8. \/ hd' = [hd EXCEPT ![h] = near, ![o] = far]
      \/ hd' = [hd EXCEPT ![h] = far, ![o] = near]
  BY <1>1, <1>4, <1>7 DEF split_off, split_to
<1> HIDE DEF near, far
<1>9. /\ \A x \in Handles \ {h, o} : hd'[x] = hd[x]
      /\ (hd'[h] = near /\ hd'[o] = far) \/ (hd'[h] = far /\ hd'[o] = near)
      /\ TypeOK'
  <2>1. sh' \in [Shareds -> SharedType]
    BY <1>2, ShallowCloneFacts
  <2>2. hd \in [Handles -> HandleType] /\ near \in HandleType /\ far \in HandleType
    BY <1>5, <1>6 DEF IInv, TypeOK
  <2>3. /\ \A x \in Handles \ {h, o} : hd'[x] = hd[x]
        /\ (hd'[h] = near /\ hd'[o] = far) \/ (hd'[h] = far /\ hd'[o] = near)
        /\ hd' \in [Handles -> HandleType]
    <3>1. CASE hd' = [hd EXCEPT ![h] = near, ![o] = far]
      BY <1>2, <2>2, <3>1, TwoUpdates
    <3>2. CASE hd' = [hd EXCEPT ![h] = far, ![o] = near]
      BY <1>2, <2>2, <3>2, TwoUpdates
    <3> QED BY <1>8, <3>1, <3>2
  <2> QED BY <1>2, <2>1, <2>3 DEF IInv, TypeOK
<1>10. Apart(hd'[h], hd'[o])
  BY <1>2, <1>3, <1>5, <1>6, <1>9, ViewFacts, SMTT(60) DEF Apart
<1>11. /\ \A t \in Shareds : t # s => sh'[t] = sh[t]
       /\ sh'[s].st = "live" /\ sh'[s].vec = hd[h].buf
       /\ \/ hd[h].data = NoShared /\ sh[s].st = "none" /\ sh'[s].ref_count = 2
          \/ hd[h].data = s /\ sh'[s].ref_count = sh[s].ref_count + 1
  BY <1>2, ShallowCloneFacts
<1>12. \A x \in {h, o} :
         /\ hd'[x].ty = hd[h].ty /\ hd'[x].data = s /\ hd'[x].buf = hd[h].buf
         /\ hd'[x].len <= hd'[x].cap
         /\ hd[h].off <= hd'[x].off
         /\ hd'[x].off + hd'[x].cap <= hd[h].off + hd[h].cap
  <2>1. \A r \in {near, far} :
         /\ r.ty = hd[h].ty /\ r.data = s /\ r.buf = hd[h].buf
         /\ r.len <= r.cap
         /\ hd[h].off <= r.off
         /\ r.off + r.cap <= hd[h].off + hd[h].cap
    <3>1. hd[h].off \in Nat /\ hd[h].cap \in Nat
      BY <1>2, ViewFacts
    <3> QED BY <1>2, <1>3, <1>5, <1>6, <3>1, SMTT(60)
  <2> QED BY <1>9, <2>1
<1> QED BY <1>2, <1>9, <1>10, <1>11, <1>12, ShareKeepsInv DEF Shares

\* ViewKeepsInv for a step that changes one handle and perhaps some cells.
LEMMA ReviewKeepsInv ==
  ASSUME IInv, NEW h \in Handles, NEW r \in HandleType,
         hd' = [hd EXCEPT ![h] = r], sh' = sh, seen' = seen, h \notin seen,
         heap' \in [Bufs -> AllocType],
         \A a \in Bufs : heap'[a].live = heap[a].live /\ heap'[a].cap = heap[a].cap,
         hd[h].buf # NoBuf, r.ty # "none", r.data = hd[h].data, r.buf = hd[h].buf,
         r.len <= r.cap, r.off + r.cap <= heap[hd[h].buf].cap,
         r.ty \in {"mut", "moved"} /\ hd[h].data = NoShared =>
           r.off = r.pos /\ r.pos + r.cap = heap[hd[h].buf].cap,
         \/ Alone(h)
         \/ /\ r.ty = "mut" => hd[h].ty = "mut"
            /\ r.ty = hd[h].ty \/ hd[h].ty = "mut"
            /\ hd[h].off <= r.off
            /\ r.off + r.cap <= hd[h].off + hd[h].cap
  PROVE  IInv'
<1>1. hd'[h] = r /\ \A x \in Handles \ {h} : hd'[x] = hd[x]
  BY DEF IInv, TypeOK
<1>2. TypeOK'
  BY DEF IInv, TypeOK
<1>3. \A x \in Handles \ {h} : Kept(x)
  BY <1>1 DEF Kept
<1>4. hd[h].ty # "none"
  BY ViewFacts
<1>5. InUse(h)' => Alone(h) \/ InUse(h)
  BY <1>1 DEF InUse
<1> QED BY <1>1, <1>2, <1>3, <1>4, <1>5, ViewKeepsInv DEF Views

\* advance, truncate, clear, set_len and writes through the slice.
LEMMA EditKeepsInv ==
  ASSUME IInv, NEW h \in Handles, Edit(h)
  PROVE  IInv'
<1>1. ASSUME NEW n \in Cap, advance(h, n) PROVE IInv'
  <2> DEFINE q == Advanced(hd[h], n)
             r == [q EXCEPT !.pos = IF IsArc(h) THEN @ ELSE @ + n]
  <2>1. hd[h].ty = "mut" /\ hd[h].buf # NoBuf /\ h \notin seen
    BY <1>1, MutHasBuf DEF advance, Idle
  <2>2. /\ n \in 1 .. hd[h].len /\ n <= hd[h].cap
        /\ hd[h].off + hd[h].cap <= MaxCap
        /\ hd' = [hd EXCEPT ![h] = r] /\ heap' = heap /\ sh' = sh /\ seen' = seen
    BY <1>1, <2>1, ViewFacts, ConstantsAssumption, SMTT(60) DEF advance
  <2>3. /\ q \in HandleType /\ q.ty = "mut" /\ q.data = hd[h].data /\ q.buf = hd[h].buf
        /\ q.pos = hd[h].pos
        /\ q.off = hd[h].off + n /\ q.len = hd[h].len - n /\ q.cap = hd[h].cap - n
    BY <2>1, <2>2, ViewFacts, AdvancedFields, SMTT(60)
  <2>4. ~IsArc(h) => q.pos + n \in Cap
    BY <2>1, <2>2, <2>3, ViewFacts, ConstantsAssumption, SMTT(60) DEF IsArc, Cap
  <2> HIDE DEF q
  <2>5. /\ r \in HandleType /\ r.ty = "mut" /\ r.data = hd[h].data /\ r.buf = hd[h].buf
        /\ r.off = hd[h].off + n /\ r.len = hd[h].len - n /\ r.cap = hd[h].cap - n
        /\ ~IsArc(h) => r.pos = hd[h].pos + n
    BY <2>3, <2>4 DEF HandleType
  <2> HIDE DEF r
  <2>6. heap \in [Bufs -> AllocType]
    BY DEF IInv, TypeOK
  <2>7. /\ r.len <= r.cap /\ r.off + r.cap <= heap[hd[h].buf].cap
        /\ hd[h].off <= r.off /\ r.off + r.cap <= hd[h].off + hd[h].cap
        /\ hd[h].data = NoShared => r.off = r.pos /\ r.pos + r.cap = heap[hd[h].buf].cap
    BY <2>1, <2>2, <2>5, ViewFacts, SMTT(60) DEF IsArc
  <2> QED BY <2>1, <2>2, <2>5, <2>6, <2>7, ReviewKeepsInv
<1>2. ASSUME NEW n \in Cap, truncate(h, n) PROVE IInv'
  <2> DEFINE r == [hd[h] EXCEPT !.len = n]
  <2>1. hd[h].ty = "mut" /\ hd[h].buf # NoBuf /\ h \notin seen
    BY <1>2, MutHasBuf DEF truncate, Idle
  <2>2. /\ hd' = [hd EXCEPT ![h] = r] /\ heap' = heap /\ sh' = sh /\ seen' = seen
        /\ heap \in [Bufs -> AllocType]
    BY <1>2 DEF truncate, IInv, TypeOK
  <2>3. /\ r \in HandleType /\ r.ty = "mut" /\ r.data = hd[h].data /\ r.buf = hd[h].buf
        /\ r.off = hd[h].off /\ r.pos = hd[h].pos /\ r.len = n /\ r.cap = hd[h].cap
    BY <2>1, ViewFacts, SMTT(60) DEF HandleType
  <2> HIDE DEF r
  <2>4. r.len <= r.cap /\ r.off + r.cap <= heap[hd[h].buf].cap
    BY <1>2, <2>1, <2>3, ViewFacts, SMTT(60) DEF truncate, Cap
  <2>5. hd[h].off <= r.off /\ r.off + r.cap <= hd[h].off + hd[h].cap
    BY <2>1, <2>3, ViewFacts, SMTT(60)
  <2>6. hd[h].data = NoShared => r.off = r.pos /\ r.pos + r.cap = heap[hd[h].buf].cap
    BY <2>1, <2>3, ViewFacts
  <2> QED BY <2>1, <2>2, <2>3, <2>4, <2>5, <2>6, ReviewKeepsInv
<1>3. ASSUME NEW i \in Idx, NEW v \in Byte, store(h, i, v) PROVE IInv'
  <2>1. hd[h].ty = "mut" /\ hd[h].buf # NoBuf /\ h \notin seen
    BY <1>3, MutHasBuf DEF store, Idle
  <2>2. /\ hd' = [hd EXCEPT ![h] = hd[h]] /\ sh' = sh /\ seen' = seen
        /\ heap' = [heap EXCEPT ![hd[h].buf].cells[hd[h].off + i] = v]
    BY <1>3 DEF store, IInv, TypeOK
  <2>3. /\ heap' \in [Bufs -> AllocType]
        /\ \A a \in Bufs : heap'[a].live = heap[a].live /\ heap'[a].cap = heap[a].cap
    BY <2>1, <2>2, ViewFacts DEF IInv, TypeOK, AllocType, Cell
  <2>4. hd[h].off <= hd[h].off /\ hd[h].off + hd[h].cap <= hd[h].off + hd[h].cap
    BY <2>1, ViewFacts, SMTT(60)
  <2> QED BY <2>1, <2>2, <2>3, <2>4, ViewFacts, ReviewKeepsInv
<1> QED BY <1>1, <1>2, <1>3, PromoteKeepsInv DEF Edit

\* What the last part of reserve and of its callers changes.
LEMMA FinishFacts ==
  ASSUME TypeOK, NEW h \in Handles, NEW r \in HandleType, NEW hp \in [Bufs -> AllocType],
         NEW w \in Seq(Cell), NEW gone \in SUBSET (Handles \ {h}),
         \A x \in gone : hd[x].ty = "mut" /\ x \notin seen,
         r.buf \in Bufs, r.len + Len(w) \in Cap, r.ty = "mut",
         Finish(h, r, hp, w, gone)
  PROVE  /\ hd' \in [Handles -> HandleType] /\ heap' \in [Bufs -> AllocType]
         /\ \A x \in Handles \ {h} : Kept(x)
         /\ hd'[h].ty = "mut" /\ hd'[h].data = r.data /\ hd'[h].buf = r.buf
         /\ hd'[h].pos = r.pos /\ hd'[h].off = r.off /\ hd'[h].cap = r.cap
         /\ hd'[h].len = r.len + Len(w)
         /\ \A a \in Bufs : heap'[a].live = hp[a].live /\ heap'[a].cap = hp[a].cap
         /\ \A a \in Bufs : a # r.buf => heap'[a] = hp[a]
<1> DEFINE q == [r EXCEPT !.len = r.len + Len(w)]
<1>1. /\ q \in HandleType /\ q.ty = "mut" /\ q.data = r.data /\ q.buf = r.buf
      /\ q.pos = r.pos /\ q.off = r.off /\ q.cap = r.cap /\ q.len = r.len + Len(w)
  BY DEF HandleType
<1>2. hd' = [x \in Handles |->
               IF x = h THEN q
               ELSE IF x \in gone THEN [hd[x] EXCEPT !.ty = "moved"] ELSE hd[x]]
  BY DEF Finish
<1> HIDE DEF q
<1>3. hd'[h] = q /\ \A x \in Handles \ {h} : Kept(x)
  BY <1>2 DEF Kept
<1>4. \A x \in Handles : hd'[x] \in HandleType
  BY <1>1, <1>3, KeptFields
<1>5. hd' \in [Handles -> HandleType]
  BY <1>2, <1>4
<1> DEFINE c == Written(hp[r.buf].cells, r.off + r.len, w)
<1>6. c \in [Idx -> Cell]
  <2>1. r.off + r.len \in Nat
    BY SMTT(60) DEF HandleType, Cap
  <2>2. hp[r.buf].cells \in [Idx -> Cell]
    BY DEF AllocType
  <2> QED BY <2>1, <2>2, WrittenType
<1>7. heap' = [hp EXCEPT ![r.buf].cells = c]
  BY DEF Finish
<1> HIDE DEF c
<1>8. /\ heap' \in [Bufs -> AllocType]
      /\ \A a \in Bufs : heap'[a].live = hp[a].live /\ heap'[a].cap = hp[a].cap
      /\ \A a \in Bufs : a # r.buf => heap'[a] = hp[a]
  BY <1>6, <1>7 DEF AllocType
<1> QED BY <1>1, <1>3, <1>5, <1>8

\* A view ends below the largest capacity.
LEMMA ViewBound ==
  ASSUME IInv, NEW h \in Handles, hd[h].buf # NoBuf
  PROVE  hd[h].off + hd[h].len <= MaxCap /\ hd[h].off + hd[h].cap <= MaxCap
BY ViewFacts, ConstantsAssumption, SMTT(60)

\* What reserve_inner asks of a new capacity leaves room for the bytes to append.
LEMMA FitsAfter ==
  ASSUME NEW cap \in Cap, NEW at \in Nat, NEW len \in Nat, NEW n \in Nat, NEW k \in Nat,
         k <= n, cap >= len + n + at
  PROVE  len + k \in Cap /\ len + k <= cap - at
BY ConstantsAssumption, SMTT(60) DEF Cap

-----------------------------------------------------------------------------
(* Windows on an array of cells.                                           *)

\* The n cells of f from off on: what a handle of that offset and length sees.
View(f, off, n) == [i \in 1 .. n |-> f[off + i - 1]]

\* The window lies inside the array.
Fit(off, n) == off \in Nat /\ n \in Nat /\ off + n <= MaxCap

\* A window is a sequence of cells.
LEMMA ViewIsSeq ==
  ASSUME NEW f \in [Idx -> Cell], NEW off, NEW n, Fit(off, n)
  PROVE  /\ View(f, off, n) \in Seq(Cell) /\ Len(View(f, off, n)) = n
         /\ \A i \in 1 .. n : View(f, off, n)[i] = f[off + i - 1]
<1>1. \A i \in 1 .. n : f[off + i - 1] \in Cell
  BY ConstantsAssumption, SMTT(60) DEF Fit, Idx
<1>2. n \in Nat
  BY DEF Fit
<1> QED BY <1>1, <1>2, SMTT(60) DEF View

\* Sequences of cells with the same elements are equal.
LEMMA SameSeq ==
  ASSUME NEW S, NEW s \in Seq(S), NEW t \in Seq(S), Len(s) = Len(t), \A i \in 1 .. Len(s) : s[i] = t[i]
  PROVE  s = t
BY SMTT(60)

\* The same n cells, at `to` of g and at off of f.
SameCells(g, to, f, off, n) ==
  off \in Nat /\ to \in Nat /\ n \in Nat /\ \A i \in 0 .. n - 1 : g[to + i] = f[off + i]

\* Windows on the same cells are equal.
LEMMA SameView ==
  ASSUME NEW f, NEW g, NEW off, NEW to, NEW n, SameCells(g, to, f, off, n)
  PROVE  View(g, to, n) = View(f, off, n)
<1>1. \A i \in 1 .. n : g[to + i - 1] = f[off + i - 1]
  <2> SUFFICES ASSUME NEW i \in 1 .. n PROVE g[to + i - 1] = f[off + i - 1]
    OBVIOUS
  <2>1. i - 1 \in 0 .. n - 1 /\ to + (i - 1) = to + i - 1 /\ off + (i - 1) = off + i - 1
    BY SMTT(60) DEF SameCells
  <2> QED BY <2>1 DEF SameCells
<1> QED BY <1>1 DEF View

\* One place of a function is updated.
LEMMA UpdateAt ==
  ASSUME NEW S, NEW T, NEW f \in [S -> T], NEW a, NEW v, NEW x \in S
  PROVE  [f EXCEPT ![a] = v][x] = IF x = a THEN v ELSE f[x]
OBVIOUS

\* A window of a window: the parts a split, an advance or a slice makes.
LEMMA SubView ==
  ASSUME NEW f \in [Idx -> Cell], NEW off, NEW n, Fit(off, n), NEW i \in Nat, NEW k \in Nat, i + k <= n
  PROVE  SubSeq(View(f, off, n), i + 1, i + k) = View(f, off + i, k)
<1> DEFINE at == off + i
           v == View(f, off, n)
           w == View(f, at, k)
           s == SubSeq(v, i + 1, i + k)
<1>1. Fit(at, k) /\ n \in Nat /\ off \in Nat
  BY ConstantsAssumption, SMTT(60) DEF Fit
<1>2. v \in Seq(Cell) /\ Len(v) = n /\ \A j \in 1 .. n : v[j] = f[off + j - 1]
  BY ViewIsSeq
<1>3. w \in Seq(Cell) /\ Len(w) = k /\ \A j \in 1 .. k : w[j] = f[at + j - 1]
  <2> HIDE DEF at
  <2> QED BY ONLY <1>1, ViewIsSeq
<1> HIDE DEF v, w
<1>4. s \in Seq(Cell) /\ Len(s) = k /\ \A j \in 1 .. k : s[j] = v[i + j]
  BY <1>1, <1>2, SMTT(60)
<1> HIDE DEF s
<1>5. \A j \in 1 .. k : s[j] = w[j]
  BY <1>1, <1>2, <1>3, <1>4, SMTT(60)
<1>6. s = w
  BY <1>3, <1>4, <1>5, SameSeq
<1> QED BY <1>6 DEF s, v, w

\* Concatenation.
LEMMA ConcatFacts ==
  ASSUME NEW S, NEW a \in Seq(S), NEW b \in Seq(S)
  PROVE  /\ a \o b \in Seq(S) /\ Len(a \o b) = Len(a) + Len(b)
         /\ \A j \in 1 .. Len(a) + Len(b) : (a \o b)[j] = IF j <= Len(a) THEN a[j] ELSE b[j - Len(a)]
BY SMTT(60)

\* Two windows side by side: what try_unsplit joins.
LEMMA JoinView ==
  ASSUME NEW f \in [Idx -> Cell], NEW off, NEW m \in Nat, NEW n \in Nat, Fit(off, m + n)
  PROVE  View(f, off, m) \o View(f, off + m, n) = View(f, off, m + n)
<1> DEFINE at == off + m
           a == View(f, off, m)
           b == View(f, at, n)
           c == View(f, off, m + n)
           s == a \o b
<1>1. off \in Nat
  BY DEF Fit
<1>2. a \in Seq(Cell) /\ Len(a) = m /\ \A j \in 1 .. m : a[j] = f[off + j - 1]
  <2>1. Fit(off, m)
    BY ConstantsAssumption, SMTT(60) DEF Fit
  <2> QED BY ONLY <2>1, ViewIsSeq
<1>3. b \in Seq(Cell) /\ Len(b) = n /\ \A j \in 1 .. n : b[j] = f[at + j - 1]
  <2>1. Fit(at, n)
    BY ConstantsAssumption, SMTT(60) DEF Fit
  <2> HIDE DEF at
  <2> QED BY ONLY <2>1, ViewIsSeq
<1>4. c \in Seq(Cell) /\ Len(c) = m + n /\ \A j \in 1 .. m + n : c[j] = f[off + j - 1]
  BY ONLY Fit(off, m + n), ViewIsSeq
<1> HIDE DEF a, b, c
<1>5. s \in Seq(Cell) /\ Len(s) = m + n
      /\ \A j \in 1 .. m + n : s[j] = IF j <= m THEN a[j] ELSE b[j - m]
  BY ONLY <1>2, <1>3, ConcatFacts, Zenon
<1> HIDE DEF s
<1>6. ASSUME NEW j \in 1 .. m + n PROVE s[j] = c[j]
  <2>1. /\ j <= m => j \in 1 .. m
        /\ ~(j <= m) => j - m \in 1 .. n /\ at + (j - m) - 1 = off + j - 1
    BY ONLY <1>1, SMTT(60)
  <2> HIDE DEF at
  <2>2. s[j] = IF j <= m THEN a[j] ELSE b[j - m]
    BY ONLY <1>5, j \in 1 .. m + n, Zenon
  <2>3. CASE j <= m
    BY ONLY <1>2, <1>4, <2>1, <2>2, <2>3, j \in 1 .. m + n, Zenon
  <2>4. CASE ~(j <= m)
    BY ONLY <1>3, <1>4, <2>1, <2>2, <2>4, j \in 1 .. m + n, Zenon
  <2> QED BY <2>3, <2>4
<1>7. s = c
  BY ONLY <1>4, <1>5, <1>6, SameSeq
<1> QED BY <1>7 DEF s, a, b, c

\* g is f with v stored at one place.
Stored(g, f, at, v) == g = [f EXCEPT ![at] = v]

\* A store through the slice.
LEMMA StoreView ==
  ASSUME NEW f \in [Idx -> Cell], NEW off, NEW n, Fit(off, n), NEW i \in Nat, i < n, NEW v,
         NEW g, Stored(g, f, off + i, v)
  PROVE  Stored(View(g, off, n), View(f, off, n), i + 1, v)
<1>1. off \in Nat /\ n \in Nat /\ off + n <= MaxCap /\ MaxCap \in Nat
  BY ConstantsAssumption DEF Fit
<1>2. \A j \in 1 .. n : /\ off + j - 1 \in Idx
                        /\ (off + j - 1 = off + i) <=> (j = i + 1)
  BY <1>1, SMTT(60) DEF Idx
<1> DEFINE at == off + i
           k == i + 1
<1>3. \A j \in 1 .. n : g[off + j - 1] = IF j = k THEN v ELSE f[off + j - 1]
  <2> SUFFICES ASSUME NEW j \in 1 .. n
               PROVE  g[off + j - 1] = IF j = k THEN v ELSE f[off + j - 1]
    OBVIOUS
  <2> DEFINE p == off + j - 1
  <2>1. p \in Idx /\ (p = at <=> j = k)
    BY <1>2
  <2> HIDE DEF p, at, k
  <2>2. g[p] = IF p = at THEN v ELSE f[p]
    BY <2>1, UpdateAt DEF Stored, at
  <2> QED BY <2>1, <2>2 DEF p
<1>4. k \in 1 .. n
  BY <1>1, SMTT(60)
<1> HIDE DEF k
<1>5. View(g, off, n) = [View(f, off, n) EXCEPT ![k] = v]
  BY <1>3, <1>4 DEF View
<1> QED BY <1>5 DEF Stored, k

\* Bytes appended behind a window, and the window in front of them.
LEMMA WrittenView ==
  ASSUME NEW f \in [Idx -> Cell], NEW off, NEW m \in Nat, NEW w \in Seq(Cell), Fit(off, m + Len(w))
  PROVE  View(Written(f, off + m, w), off, m + Len(w)) = View(f, off, m) \o w
<1> DEFINE at == off + m
           g == Written(f, at, w)
           a == View(f, off, m)
           c == View(g, off, m + Len(w))
           s == a \o w
<1>1. off \in Nat /\ at \in Nat /\ Len(w) \in Nat /\ off + m + Len(w) <= MaxCap /\ MaxCap \in Nat
  BY ConstantsAssumption, LenNat, SMTT(60) DEF Fit
<1>2. g \in [Idx -> Cell] /\ \A j \in Idx : g[j] = IF j \in at .. at + Len(w) - 1 THEN w[j - at + 1] ELSE f[j]
  <2> HIDE DEF at
  <2> QED BY <1>1, WrittenType DEF Written
<1>3. a \in Seq(Cell) /\ Len(a) = m /\ \A j \in 1 .. m : a[j] = f[off + j - 1]
  <2>1. Fit(off, m)
    BY <1>1, SMTT(60) DEF Fit
  <2> QED BY ONLY <2>1, ViewIsSeq
<1> HIDE DEF g
<1>4. c \in Seq(Cell) /\ Len(c) = m + Len(w) /\ \A j \in 1 .. m + Len(w) : c[j] = g[off + j - 1]
  BY ONLY <1>2, Fit(off, m + Len(w)), ViewIsSeq
<1> HIDE DEF a, c
<1>5. s \in Seq(Cell) /\ Len(s) = m + Len(w)
      /\ \A j \in 1 .. m + Len(w) : s[j] = IF j <= m THEN a[j] ELSE w[j - m]
  BY ONLY <1>3, SMTT(60)
<1> HIDE DEF s
<1>6. ASSUME NEW j \in 1 .. m + Len(w) PROVE s[j] = c[j]
  <2>1. off + j - 1 \in Idx /\ (off + j - 1 \in at .. at + Len(w) - 1 <=> ~(j <= m))
        /\ (off + j - 1) - at + 1 = j - m /\ (j <= m => j \in 1 .. m)
    BY ONLY <1>1, SMTT(60) DEF Idx
  <2>2. c[j] = IF j <= m THEN f[off + j - 1] ELSE w[j - m]
    BY ONLY <1>2, <1>4, <2>1, j \in 1 .. m + Len(w)
  <2> QED BY ONLY <1>3, <1>5, <2>1, <2>2, j \in 1 .. m + Len(w)
<1>7. s = c
  BY ONLY <1>4, <1>5, <1>6, SameSeq
<1> QED BY <1>7 DEF s, a, c, g

\* What a copy to a fresh allocation, or to the front of its own, shows.
LEMMA CopyView ==
  ASSUME NEW f \in [Idx -> Cell], NEW from \in Nat, NEW n \in Nat, n <= MaxCap, NEW k \in Nat, NEW m \in Nat, k + m <= n
  PROVE  /\ View(CopyOf(f, from, n), k, m) = View(f, from + k, m)
         /\ View(ShiftedDown(f, from, n), k, m) = View(f, from + k, m)
         /\ n <= from => View(ShiftedApart(f, from, n), k, m) = View(f, from + k, m)
<1>1. \A j \in 0 .. m - 1 : k + j \in Idx /\ k + j < n /\ from + (k + j) = (from + k) + j
  BY ConstantsAssumption, SMTT(60) DEF Idx
<1> DEFINE at == from + k
<1>2. at \in Nat
  BY SMTT(60)
<1>3. SameCells(CopyOf(f, from, n), k, f, at, m)
  BY <1>1, <1>2 DEF CopyOf, SameCells
<1>4. SameCells(ShiftedDown(f, from, n), k, f, at, m)
  BY <1>1, <1>2 DEF ShiftedDown, SameCells
<1> HIDE DEF at
<1>5. View(CopyOf(f, from, n), k, m) = View(f, at, m)
  BY <1>3, SameView, SMTT(60)
<1>6. View(ShiftedDown(f, from, n), k, m) = View(f, at, m)
  BY <1>4, SameView, SMTT(60)
<1> QED BY <1>5, <1>6 DEF ShiftedApart, at
=============================================================================
