--------------------------- MODULE BytesMut_proofs ---------------------------
(***************************************************************************)
(* The branches of reserve_inner and the remaining actions of BytesMut     *)
(* keep its invariant; the theorems, for every set of handles, allocations *)
(* and blocks and every capacity bound.  Then the abstraction: when a      *)
(* change of what the handles show is a step of ByteStrings, and that      *)
(* splitting and editing are such changes.                                 *)
(***************************************************************************)
EXTENDS BytesMutRefinement, BytesMut_lemmas

\* The prover of a leaf that names none, and the seconds it may take.
USE ZenonT(30)

-----------------------------------------------------------------------------
(* reserve_inner.                                                          *)

\* The branches of reserve_inner that stay in the allocation.
LEMMA StayKeepsInv ==
  ASSUME IInv, NEW h \in Handles, NEW n \in Cap,
         NEW w \in Seq(Cell), Len(w) <= n, NEW gone \in SUBSET (Handles \ {h}),
         \A x \in gone : hd[x].ty = "mut" /\ x \notin seen,
         hd[h].ty = "mut", h \notin seen,
         \/ in_place(h, n, w, gone)
         \/ vec_shift(h, n, w, gone)
         \/ arc_expand(h, n, w, gone)
         \/ arc_shift(h, n, w, gone)
  PROVE  IInv'
<1>1. hd[h].buf # NoBuf /\ n \in Nat /\ Len(w) \in Nat
  BY MutHasBuf, LenNat, SMTT(60) DEF Cap
<1>2. ASSUME NEW r \in HandleType, NEW hp \in [Bufs -> AllocType],
             Finish(h, r, hp, w, gone), sh' = sh, seen' = seen,
             \A a \in Bufs : hp[a].live = heap[a].live /\ hp[a].cap = heap[a].cap,
             r.ty = "mut", r.data = hd[h].data, r.buf = hd[h].buf, r.len = hd[h].len,
             r.len + n <= r.cap, r.off + r.cap <= heap[hd[h].buf].cap,
             hd[h].data = NoShared => r.off = r.pos /\ r.pos + r.cap = heap[hd[h].buf].cap,
             Alone(h) \/ (r.off = hd[h].off /\ r.cap = hd[h].cap)
      PROVE  IInv'
  <2>1. r.len + Len(w) \in Cap /\ r.len + Len(w) <= r.cap
    <3>1. r.len \in Nat /\ r.cap \in Cap
      BY <1>2, SMTT(60) DEF HandleType, Cap
    <3>2. PICK len \in Nat, cap \in Cap, k \in Nat : len = r.len /\ cap = r.cap /\ k = Len(w)
      BY <1>1, <3>1
    <3>3. k <= n /\ cap >= len + n + 0
      BY <1>1, <1>2, <3>2, SMTT(60) DEF Cap
    <3>4. len + k \in Cap /\ len + k <= cap - 0
      BY <1>1, <3>3, FitsAfter
    <3>5. cap - 0 = cap
      BY SMTT(60) DEF Cap
    <3> QED BY <3>2, <3>4, <3>5
  <2>2. r.buf \in Bufs /\ hd[h].ty # "none"
    BY <1>1, <1>2, ViewFacts
  <2>3. /\ hd' \in [Handles -> HandleType] /\ heap' \in [Bufs -> AllocType]
        /\ \A x \in Handles \ {h} : Kept(x)
        /\ hd'[h].ty = "mut" /\ hd'[h].data = r.data /\ hd'[h].buf = r.buf
        /\ hd'[h].pos = r.pos /\ hd'[h].off = r.off /\ hd'[h].cap = r.cap
        /\ hd'[h].len = r.len + Len(w)
        /\ \A a \in Bufs : heap'[a].live = hp[a].live /\ heap'[a].cap = hp[a].cap
    BY <1>2, <2>1, <2>2, FinishFacts, SMTT(60) DEF IInv
  <2>4. TypeOK'
    BY <1>2, <2>3 DEF IInv, TypeOK
  <2>5. Alone(h) \/ /\ hd[h].off <= hd'[h].off
                    /\ hd'[h].off + hd'[h].cap <= hd[h].off + hd[h].cap
    <3>1. hd[h].off \in Nat /\ hd[h].cap \in Nat
      BY <1>1, ViewFacts
    <3>2. CASE r.off = hd[h].off /\ r.cap = hd[h].cap
      BY <2>3, <3>1, <3>2, SMTT(60)
    <3> QED BY <1>2, <3>2
  <2>6. \A a \in Bufs : heap'[a].live = heap[a].live /\ heap'[a].cap = heap[a].cap
    BY <1>2, <2>3
  <2>7. InUse(h)' => InUse(h)
    BY DEF InUse
  <2> QED BY <1>1, <1>2, <2>1, <2>2, <2>3, <2>4, <2>5, <2>6, <2>7, ViewKeepsInv DEF Views
<1>3. heap \in [Bufs -> AllocType] /\ hd[h] \in HandleType
  BY DEF IInv, TypeOK
<1>4. ASSUME in_place(h, n, w, gone) PROVE IInv'
  <2>1. hd[h].len + n <= hd[h].cap
    BY <1>1, <1>4, ViewFacts, SMTT(60) DEF in_place, Fits
  <2> QED BY <1>1, <1>2, <1>3, <1>4, <2>1, ViewFacts DEF in_place
<1>5. ASSUME vec_shift(h, n, w, gone) PROVE IInv'
  <2> DEFINE r == [hd[h] EXCEPT !.off = hd[h].off - hd[h].pos, !.pos = 0,
                                !.cap = hd[h].cap + hd[h].pos]
             hp == [heap EXCEPT ![hd[h].buf].cells = ShiftedApart(@, hd[h].off, hd[h].len)]
  <2>1. /\ Finish(h, r, hp, w, gone) /\ sh' = sh /\ seen' = seen
        /\ hd[h].data = NoShared /\ VecShifts(hd[h], n)
    BY <1>5 DEF vec_shift, IsArc
  <2>2. hd[h].off - hd[h].pos = 0 /\ hd[h].cap + hd[h].pos \in Cap /\ 0 \in Cap
    <3>1. hd[h].off = hd[h].pos /\ hd[h].off + hd[h].cap <= MaxCap
      BY <1>1, <2>1, ViewFacts, ViewBound
    <3>2. hd[h].off \in Nat /\ hd[h].cap \in Nat /\ MaxCap \in Nat
      BY <1>1, ViewFacts, ConstantsAssumption
    <3> QED BY <3>1, <3>2, SMTT(60) DEF Cap
  <2>3. /\ r \in HandleType /\ r.ty = "mut" /\ r.data = hd[h].data /\ r.buf = hd[h].buf
        /\ r.off = 0 /\ r.pos = 0 /\ r.len = hd[h].len /\ r.cap = hd[h].cap + hd[h].pos
    BY <1>3, <2>2 DEF HandleType
  <2>4. hd[h].off + hd[h].len <= MaxCap
    BY <1>1, ViewBound
  <2>5. ShiftedApart(heap[hd[h].buf].cells, hd[h].off, hd[h].len) \in [Idx -> Cell]
    BY <1>1, <2>4, ViewFacts, MovesType
  <2>6. /\ hp \in [Bufs -> AllocType]
        /\ \A a \in Bufs : hp[a].live = heap[a].live /\ hp[a].cap = heap[a].cap
    BY <1>1, <1>3, <2>5, ViewFacts, SMTT(60) DEF AllocType
  <2> HIDE DEF r, hp
  <2>7. /\ r.len + n <= r.cap /\ r.off + r.cap <= heap[hd[h].buf].cap
        /\ r.off = r.pos /\ r.pos + r.cap = heap[hd[h].buf].cap
    BY <1>1, <2>1, <2>3, ViewFacts, SMTT(60) DEF VecShifts
  <2>8. Alone(h)
    BY <1>1, <2>1, OwnerIsAlone
  <2> QED BY <1>2, <2>1, <2>3, <2>6, <2>7, <2>8
<1>6. ASSUME arc_expand(h, n, w, gone) PROVE IInv'
  <2> DEFINE r == [hd[h] EXCEPT !.cap = hd[h].len + n]
  <2>1. /\ Finish(h, r, heap, w, gone) /\ sh' = sh /\ seen' = seen
        /\ hd[h].data # NoShared /\ Alone(h)
        /\ heap[sh[hd[h].data].vec].cap >= hd[h].len + n + hd[h].off
    BY <1>6, UniqueAlone DEF arc_expand, Unique, IsArc
  <2>2. hd[h].len + n \in Cap /\ hd[h].off + (hd[h].len + n) <= heap[hd[h].buf].cap
    <3>1. /\ sh[hd[h].data].vec = hd[h].buf /\ hd[h].off \in Nat /\ hd[h].len \in Nat
          /\ heap[hd[h].buf].cap \in Nat /\ heap[hd[h].buf].cap <= MaxCap /\ MaxCap \in Nat
      BY <1>1, <2>1, ViewFacts, ConstantsAssumption
    <3> QED BY ONLY <1>1, <2>1, <3>1, SMTT(60) DEF Cap
  <2>3. /\ r \in HandleType /\ r.ty = "mut" /\ r.data = hd[h].data /\ r.buf = hd[h].buf
        /\ r.off = hd[h].off /\ r.len = hd[h].len /\ r.cap = hd[h].len + n
    BY <1>3, <2>2 DEF HandleType
  <2> HIDE DEF r
  <2>4. r.len + n <= r.cap
    BY <1>1, <2>3, ViewFacts, SMTT(60)
  <2> QED BY <1>2, <1>3, <2>1, <2>2, <2>3, <2>4
<1>7. ASSUME arc_shift(h, n, w, gone) PROVE IInv'
  <2> DEFINE v == hd[h].buf
             r == [hd[h] EXCEPT !.off = 0, !.cap = heap[v].cap]
             hp == [heap EXCEPT ![v].cells = ShiftedApart(@, hd[h].off, hd[h].len)]
  <2>1. hd[h].data # NoShared /\ Alone(h) /\ sh[hd[h].data].vec = v
    BY <1>1, <1>7, UniqueAlone, ViewFacts DEF arc_shift, Unique, IsArc
  <2>2. /\ Finish(h, r, hp, w, gone) /\ sh' = sh /\ seen' = seen
        /\ heap[v].cap >= hd[h].len + n
    BY <1>7, <2>1 DEF arc_shift
  <2>3. heap[v].cap \in Cap /\ 0 \in Cap /\ heap[v].cap \in Nat
    BY <1>1, ViewFacts, ConstantsAssumption, SMTT(60) DEF Cap
  <2>4. /\ r \in HandleType /\ r.ty = "mut" /\ r.data = hd[h].data /\ r.buf = hd[h].buf
        /\ r.off = 0 /\ r.len = hd[h].len /\ r.cap = heap[v].cap
    BY <1>3, <2>3 DEF HandleType
  <2>5. hd[h].off + hd[h].len <= MaxCap
    BY <1>1, ViewBound
  <2>6. ShiftedApart(heap[v].cells, hd[h].off, hd[h].len) \in [Idx -> Cell]
    BY <1>1, <2>5, ViewFacts, MovesType
  <2>7. /\ hp \in [Bufs -> AllocType]
        /\ \A a \in Bufs : hp[a].live = heap[a].live /\ hp[a].cap = heap[a].cap
    BY <1>1, <1>3, <2>6, ViewFacts, SMTT(60) DEF AllocType
  <2> HIDE DEF r, hp
  <2>8. r.len + n <= r.cap /\ r.off + r.cap <= heap[hd[h].buf].cap
    BY <1>1, <2>2, <2>3, <2>4, ViewFacts, SMTT(60)
  <2> QED BY <1>2, <2>1, <2>2, <2>4, <2>7, <2>8
<1> QED BY <1>4, <1>5, <1>6, <1>7

\* release_shared keeps the type of the blocks.
LEMMA ReleasedType ==
  ASSUME IInv, NEW h \in Handles, IsArc(h)
  PROVE  ReleasedSh(hd[h].data) \in [Shareds -> SharedType]
<1>1. /\ sh \in [Shareds -> SharedType] /\ hd[h].data \in Shareds
      /\ sh[hd[h].data].ref_count \in Nat \ {0}
  <2>1. hd[h].data \in Shareds /\ sh[hd[h].data].st = "live"
    BY MutHasBuf, ViewFacts DEF IsArc
  <2> QED BY <2>1, SMTT(60) DEF IInv, TypeOK, SharedType, RefCountExact
<1> QED BY <1>1, Constants, SMTT(60) DEF ReleasedSh, SharedType

\* The branches of reserve_inner that move to a fresh allocation.
LEMMA RelocateKeepsInv ==
  ASSUME IInv, NEW h \in Handles, NEW n \in Cap,
         NEW w \in Seq(Cell), Len(w) <= n, NEW gone \in SUBSET (Handles \ {h}),
         \A x \in gone : hd[x].ty = "mut" /\ x \notin seen,
         hd[h].ty = "mut", NEW b \in Bufs, NEW cap \in Cap,
         \/ vec_grow(h, n, w, gone, b, cap)
         \/ arc_grow(h, n, w, gone, b, cap)
         \/ copy_out(h, n, w, gone, b, cap)
  PROVE  IInv'
<1> DEFINE v == hd[h].buf
<1>1. v # NoBuf /\ n \in Nat /\ Len(w) \in Nat /\ cap \in Nat /\ cap <= MaxCap /\ MaxCap \in Nat
  BY MutHasBuf, LenNat, ConstantsAssumption, SMTT(60) DEF Cap
<1>2. /\ v \in Bufs /\ hd[h] \in HandleType /\ heap \in [Bufs -> AllocType]
      /\ hd[h].off \in Nat /\ hd[h].len \in Nat /\ hd[h].cap \in Nat /\ hd[h].pos \in Nat
      /\ hd[h].off + hd[h].len <= MaxCap /\ heap[v].cells \in [Idx -> Cell]
      /\ heap[v].live
  BY <1>1, ViewFacts, ViewBound DEF IInv, TypeOK
<1>3. ASSUME NEW cells \in [Idx -> Cell]
      PROVE  Alloc(cap, cells) \in AllocType /\ Alloc(cap, cells).live /\ Alloc(cap, cells).cap = cap
  BY DEF Alloc, AllocType
<1>4. ASSUME vec_grow(h, n, w, gone, b, cap) PROVE IInv'
  <2> DEFINE r == [hd[h] EXCEPT !.buf = b, !.off = hd[h].pos, !.cap = cap - hd[h].pos]
             c == CopyOf(heap[v].cells, hd[h].off - hd[h].pos, hd[h].pos + hd[h].len)
             hp == [heap EXCEPT ![v] = Freed, ![b] = Alloc(cap, c)]
  <2>1. /\ Finish(h, r, hp, w, gone) /\ sh' = sh /\ seen' = seen
        /\ hd[h].data = NoShared /\ IsFree(b) /\ cap >= hd[h].pos + hd[h].len + n
    BY <1>4 DEF vec_grow, IsArc
  <2>2. hd[h].off = hd[h].pos /\ cap >= hd[h].pos + hd[h].len + n
    BY <1>1, <2>1, ViewFacts
  <2>3. c \in [Idx -> Cell]
    <3>1. hd[h].off - hd[h].pos = 0 /\ hd[h].pos + hd[h].len \in Nat
          /\ 0 + (hd[h].pos + hd[h].len) <= MaxCap
      BY <1>2, <2>2, SMTT(60)
    <3>2. PICK k \in Nat : k = hd[h].pos + hd[h].len
      BY <3>1
    <3>3. CopyOf(heap[v].cells, 0, k) \in [Idx -> Cell]
      <4>1. 0 \in Nat /\ 0 + k <= MaxCap /\ heap[v].cells \in [Idx -> Cell]
        BY <1>2, <3>1, <3>2
      <4> QED BY <4>1, MovesType
    <3> QED BY <3>1, <3>2, <3>3
  <2>4. b # v
    BY <1>2, <2>1 DEF IsFree
  <2> HIDE DEF c
  <2>5. /\ hp \in [Bufs -> AllocType] /\ hp[b].live /\ hp[b].cap = cap
        /\ \A a \in Bufs \ {b, v} : hp[a] = heap[a]
    BY <1>2, <1>3, <2>3, <2>4, Constants, TwoUpdates
  <2>15. ~hp[v].live
    BY <1>2, <2>4 DEF IInv, TypeOK, Freed
  <2>6. cap - hd[h].pos \in Cap
    <3>1. hd[h].pos \in Nat /\ hd[h].len \in Nat
      BY <1>2
    <3>2. hd[h].pos <= cap
      BY <1>1, <2>2, <3>1, SMTT(60)
    <3> QED BY <1>1, <3>1, <3>2, SMTT(60) DEF Cap
  <2>7. /\ r \in HandleType /\ r.ty = "mut" /\ r.data = hd[h].data /\ r.buf = b
        /\ r.off = hd[h].pos /\ r.pos = hd[h].pos /\ r.len = hd[h].len /\ r.cap = cap - hd[h].pos
    BY <1>2, <2>6 DEF HandleType
  <2> HIDE DEF r, hp
  <2>8. r.len + Len(w) \in Cap /\ r.len + Len(w) <= r.cap
    <3>1. hd[h].len \in Nat /\ hd[h].pos \in Nat
      BY <1>2
    <3>2. cap >= hd[h].len + n + hd[h].pos
      BY <1>1, <2>2, <3>1, SMTT(60)
    <3>3. PICK len \in Nat, at \in Nat, k \in Nat : len = hd[h].len /\ at = hd[h].pos /\ k = Len(w)
      BY <1>1, <3>1
    <3>4. len + k \in Cap /\ len + k <= cap - at
      BY <1>1, <3>2, <3>3, FitsAfter
    <3> QED BY <2>7, <3>3, <3>4
  <2>9. /\ hd' \in [Handles -> HandleType] /\ heap' \in [Bufs -> AllocType]
        /\ \A x \in Handles \ {h} : Kept(x)
        /\ hd'[h].ty = "mut" /\ hd'[h].data = r.data /\ hd'[h].buf = r.buf
        /\ hd'[h].pos = r.pos /\ hd'[h].off = r.off /\ hd'[h].cap = r.cap
        /\ hd'[h].len = r.len + Len(w)
        /\ \A a \in Bufs : heap'[a].live = hp[a].live /\ heap'[a].cap = hp[a].cap
        /\ \A a \in Bufs : a # r.buf => heap'[a] = hp[a]
    BY <2>1, <2>5, <2>7, <2>8, FinishFacts DEF IInv
  <2>10. TypeOK'
    BY <2>1, <2>9 DEF IInv, TypeOK
  <2>11. /\ hd'[h].len <= hd'[h].cap /\ hd'[h].off + hd'[h].cap <= heap'[b].cap
         /\ hd'[h].off = hd'[h].pos /\ hd'[h].pos + hd'[h].cap = heap'[b].cap
    <3>1. hd'[h].off = hd[h].pos /\ hd'[h].pos = hd[h].pos /\ hd'[h].cap = cap - hd[h].pos
      BY <2>7, <2>9
    <3>2. hd'[h].len <= hd'[h].cap
      BY <2>8, <2>9
    <3>3. heap'[b].cap = cap
      BY <2>5, <2>9
    <3>4. hd[h].pos + (cap - hd[h].pos) = cap /\ cap <= cap
      BY <1>1, <1>2, SMTT(60)
    <3> QED BY <3>1, <3>2, <3>3, <3>4
  <2>12. \A a \in Bufs \ {b, hd[h].buf} : heap'[a] = heap[a]
    BY <2>5, <2>7, <2>9
  <2>13. Alone(h)
    BY <1>1, <2>1, OwnerIsAlone
  <2>14. heap'[b].live /\ ~heap'[hd[h].buf].live
    BY <1>2, <2>4, <2>5, <2>9, <2>15
  <2> QED BY <1>1, <2>1, <2>7, <2>9, <2>10, <2>11, <2>12, <2>13, <2>14, ReallocKeepsInv
<1>5. ASSUME arc_grow(h, n, w, gone, b, cap) PROVE IInv'
  <2> DEFINE r == [hd[h] EXCEPT !.buf = b, !.cap = cap - hd[h].off]
             c == CopyOf(heap[v].cells, 0, hd[h].off + hd[h].len)
             hp == [heap EXCEPT ![v] = Freed, ![b] = Alloc(cap, c)]
  <2>1. /\ hd[h].data # NoShared /\ Alone(h) /\ sh[hd[h].data].ref_count = 1
        /\ hd[h].data \in Shareds /\ sh[hd[h].data].vec = v
    BY <1>1, <1>5, UniqueAlone, ViewFacts DEF arc_grow, Unique, IsArc
  <2>2. /\ Finish(h, r, hp, w, gone) /\ sh' = [sh EXCEPT ![hd[h].data].vec = b] /\ seen' = seen
        /\ IsFree(b) /\ cap >= Larger(2 * heap[v].cap, hd[h].len + n + hd[h].off)
    BY <1>5, <2>1 DEF arc_grow
  <2>3. c \in [Idx -> Cell]
    <3>1. hd[h].off + hd[h].len \in Nat /\ 0 + (hd[h].off + hd[h].len) <= MaxCap
      BY <1>2, SMTT(60)
    <3> QED BY <1>2, <3>1, MovesType
  <2>4. b # v /\ cap >= hd[h].len + n + hd[h].off
    <3>1. heap[v].cap \in Nat
      BY <1>1, ViewFacts
    <3>2. b # v
      BY <1>2, <2>2 DEF IsFree
    <3>3. cap >= Larger(2 * heap[v].cap, hd[h].len + n + hd[h].off)
      BY <2>2
    <3>4. hd[h].len \in Nat /\ hd[h].off \in Nat
      BY <1>2
    <3>5. cap >= hd[h].len + n + hd[h].off
      <4>1. hd[h].len + n + hd[h].off \in Nat /\ 2 * heap[v].cap \in Nat
        <5>1. n \in Nat
          BY <1>1
        <5>2. hd[h].len + n + hd[h].off \in Nat
          BY <3>4, <5>1, SMTT(60)
        <5>3. 2 * heap[v].cap \in Nat
          BY <3>1, SMTT(60)
        <5> QED BY <5>2, <5>3
      <4>2. CASE 2 * heap[v].cap >= hd[h].len + n + hd[h].off
        BY ONLY <1>1, <3>3, <4>1, <4>2, SMTT(60) DEF Larger
      <4>3. CASE ~(2 * heap[v].cap >= hd[h].len + n + hd[h].off)
        BY <3>3, <4>3 DEF Larger
      <4> QED BY <4>2, <4>3
    <3> QED BY <3>2, <3>5
  <2> HIDE DEF c
  <2>5. /\ hp \in [Bufs -> AllocType] /\ hp[b].live /\ hp[b].cap = cap
        /\ \A a \in Bufs \ {b, v} : hp[a] = heap[a]
    BY <1>2, <1>3, <2>3, <2>4, Constants, TwoUpdates
  <2>14. ~hp[v].live
    BY <1>2, <2>4 DEF IInv, TypeOK, Freed
  <2>6. cap - hd[h].off \in Cap
    <3>1. hd[h].len \in Nat /\ hd[h].off \in Nat
      BY <1>2
    <3> QED BY <1>1, <2>4, <3>1, SMTT(60) DEF Cap
  <2>7. /\ r \in HandleType /\ r.ty = "mut" /\ r.data = hd[h].data /\ r.buf = b
        /\ r.off = hd[h].off /\ r.pos = hd[h].pos /\ r.len = hd[h].len /\ r.cap = cap - hd[h].off
    BY <1>2, <2>6 DEF HandleType
  <2> HIDE DEF r, hp
  <2>8. r.len + Len(w) \in Cap /\ r.len + Len(w) <= r.cap
    <3>1. hd[h].len \in Nat /\ hd[h].off \in Nat
      BY <1>2
    <3>2. PICK len \in Nat, at \in Nat, k \in Nat : len = hd[h].len /\ at = hd[h].off /\ k = Len(w)
      BY <1>1, <3>1
    <3>3. len + k \in Cap /\ len + k <= cap - at
      BY <1>1, <2>4, <3>2, FitsAfter
    <3> QED BY <2>7, <3>2, <3>3
  <2>9. /\ hd' \in [Handles -> HandleType] /\ heap' \in [Bufs -> AllocType]
        /\ \A x \in Handles \ {h} : Kept(x)
        /\ hd'[h].ty = "mut" /\ hd'[h].data = r.data /\ hd'[h].buf = r.buf
        /\ hd'[h].pos = r.pos /\ hd'[h].off = r.off /\ hd'[h].cap = r.cap
        /\ hd'[h].len = r.len + Len(w)
        /\ \A a \in Bufs : heap'[a].live = hp[a].live /\ heap'[a].cap = hp[a].cap
        /\ \A a \in Bufs : a # r.buf => heap'[a] = hp[a]
    BY <2>2, <2>5, <2>7, <2>8, FinishFacts, SMTT(60) DEF IInv
  <2>10. TypeOK'
    <3>1. sh' \in [Shareds -> SharedType]
      <4>1. sh \in [Shareds -> SharedType] /\ seen \subseteq Handles
        BY DEF IInv, TypeOK
      <4> QED BY <2>1, <2>2, <4>1 DEF SharedType
    <3> QED BY <2>2, <2>9, <3>1 DEF IInv, TypeOK
  <2>11. hd'[h].len <= hd'[h].cap /\ hd'[h].off + hd'[h].cap <= heap'[b].cap
    <3>1. hd'[h].off = hd[h].off /\ hd'[h].cap = cap - hd[h].off
      BY <2>7, <2>9
    <3>2. hd'[h].len <= hd'[h].cap
      BY <2>8, <2>9
    <3>3. heap'[b].cap = cap
      BY <2>5, <2>9
    <3>4. hd[h].off + (cap - hd[h].off) = cap /\ cap <= cap
      BY <1>1, <1>2, SMTT(60)
    <3> QED BY <3>1, <3>2, <3>3, <3>4
  <2>12. \A a \in Bufs \ {b, hd[h].buf} : heap'[a] = heap[a]
    BY <2>5, <2>7, <2>9
  <2>13. heap'[b].live /\ ~heap'[hd[h].buf].live
    BY <1>2, <2>4, <2>5, <2>9, <2>14
  <2> QED BY <1>1, <2>1, <2>2, <2>7, <2>9, <2>10, <2>11, <2>12, <2>13, ReallocKeepsInv
<1>6. ASSUME copy_out(h, n, w, gone, b, cap) PROVE IInv'
  <2> DEFINE repr == sh[hd[h].data].repr
             r == [hd[h] EXCEPT !.data = NoShared, !.pos = 0, !.repr = repr, !.buf = b,
                                !.off = 0, !.cap = cap]
             c == CopyOf(heap[v].cells, hd[h].off, hd[h].len)
             h1 == [heap EXCEPT ![b] = Alloc(cap, c)]
             hp == ReleasedHeap(h1, hd[h].data)
  <2>1. h \in seen /\ IsArc(h) /\ hd[h].data \in Shareds /\ sh[hd[h].data].vec = v /\ IsFree(b) /\ b # v
    <3>1. h \in seen /\ IsFree(b)
      BY <1>6 DEF copy_out
    <3>2. IsArc(h)
      BY <3>1 DEF IInv, HandleInv, HandleOK, IsArc
    <3> QED BY <1>1, <1>2, <3>1, <3>2, ViewFacts DEF IsArc, IsFree
  <2>2. /\ Finish(h, r, hp, w, gone) /\ sh' = ReleasedSh(hd[h].data) /\ seen' = seen \ {h}
        /\ cap = Larger(hd[h].len + n, original_capacity_from_repr(repr))
    BY <1>6 DEF copy_out
  <2>3. cap >= hd[h].len + n
    <3>1. cap = Larger(hd[h].len + n, original_capacity_from_repr(repr))
      BY <2>2
    <3>2. hd[h].len + n \in Int /\ cap \in Int
      BY <1>1, <1>2, SMTT(60)
    <3>3. CASE hd[h].len + n >= original_capacity_from_repr(repr)
      BY <3>1, <3>2, <3>3, SMTT(60) DEF Larger
    <3>4. CASE ~(hd[h].len + n >= original_capacity_from_repr(repr))
      BY <3>1, <3>2, <3>4, SMTT(60) DEF Larger
    <3> QED BY <3>3, <3>4
  <2>4. c \in [Idx -> Cell]
    BY <1>2, MovesType
  <2> HIDE DEF c
  <2>5. h1 \in [Bufs -> AllocType] /\ h1[b].live /\ h1[b].cap = cap
        /\ \A a \in Bufs \ {b} : h1[a] = heap[a]
    BY <1>2, <1>3, <2>4
  <2> HIDE DEF h1
  <2>6. /\ hp \in [Bufs -> AllocType] /\ hp[b].live /\ hp[b].cap = cap
        /\ \A a \in Bufs \ {b} : hp[a] = heap[a] \/ (a = v /\ sh[hd[h].data].ref_count = 1)
        /\ sh[hd[h].data].ref_count = 1 => ~hp[v].live
    BY <1>2, <2>1, <2>5, Constants DEF ReleasedHeap, Freed
  <2>7. repr \in Repr /\ sh \in [Shareds -> SharedType]
    BY <2>1 DEF IInv, TypeOK, SharedType
  <2> HIDE DEF repr
  <2>8. /\ r \in HandleType /\ r.ty = "mut" /\ r.data = NoShared /\ r.buf = b
        /\ r.off = 0 /\ r.pos = 0 /\ r.len = hd[h].len /\ r.cap = cap
    BY <1>2, <2>7, Constants DEF HandleType
  <2> HIDE DEF r, hp
  <2>9. r.len + Len(w) \in Cap /\ r.len + Len(w) <= r.cap
    <3>1. PICK len \in Nat, k \in Nat : len = hd[h].len /\ k = Len(w)
      BY <1>1, <1>2
    <3>2. cap >= len + n + 0
      BY <1>1, <2>3, <3>1, SMTT(60)
    <3>3. len + k \in Cap /\ len + k <= cap - 0
      BY <1>1, <3>1, <3>2, FitsAfter
    <3>4. cap - 0 = cap
      BY <1>1, SMTT(60)
    <3> QED BY <2>8, <3>1, <3>3, <3>4
  <2>10. /\ hd' \in [Handles -> HandleType] /\ heap' \in [Bufs -> AllocType]
         /\ \A x \in Handles \ {h} : Kept(x)
         /\ hd'[h].ty = "mut" /\ hd'[h].data = r.data /\ hd'[h].buf = r.buf
         /\ hd'[h].pos = r.pos /\ hd'[h].off = r.off /\ hd'[h].cap = r.cap
         /\ hd'[h].len = r.len + Len(w)
         /\ \A a \in Bufs : heap'[a].live = hp[a].live /\ heap'[a].cap = hp[a].cap
         /\ \A a \in Bufs : a # r.buf => heap'[a] = hp[a]
    BY <2>2, <2>6, <2>8, <2>9, FinishFacts DEF IInv
  <2>11. sh' \in [Shareds -> SharedType] /\ TypeOK'
    <3>1. sh' \in [Shareds -> SharedType]
      BY <2>1, <2>2, ReleasedType
    <3> QED BY <2>2, <2>10, <3>1 DEF IInv, TypeOK
  <2>12. /\ hd'[h].buf \in Bufs /\ IsFree(hd'[h].buf)
         /\ hd'[h].ty # "none" /\ hd'[h].data = NoShared /\ heap'[hd'[h].buf].live
         /\ hd'[h].len <= hd'[h].cap
         /\ hd'[h].off = 0 /\ hd'[h].pos = 0 /\ hd'[h].cap = heap'[hd'[h].buf].cap
    <3>1. hd'[h].buf = b /\ hd'[h].ty = "mut" /\ hd'[h].data = NoShared
      BY <2>8, <2>10
    <3>2. hd'[h].off = 0 /\ hd'[h].pos = 0 /\ hd'[h].cap = cap
      BY <2>8, <2>10
    <3>3. hd'[h].len <= hd'[h].cap
      BY <2>9, <2>10
    <3>4. heap'[b].live /\ heap'[b].cap = cap
      BY <2>6, <2>10
    <3> QED BY <2>1, <3>1, <3>2, <3>3, <3>4
  <2>13. \A a \in Bufs :
           \/ heap'[a].live = heap[a].live /\ heap'[a].cap = heap[a].cap
           \/ a = hd'[h].buf
           \/ a = sh[hd[h].data].vec /\ sh[hd[h].data].ref_count = 1
    BY <2>1, <2>6, <2>8, <2>10, SMTT(60)
  <2>14. sh[hd[h].data].ref_count = 1 => ~heap'[sh[hd[h].data].vec].live
    BY ONLY <1>2, <2>1, <2>6, <2>10, SMTT(60)
  <2> QED BY <2>1, <2>2, <2>10, <2>11, <2>12, <2>13, <2>14, ReleaseKeepsInv DEF Releases
<1> QED BY <1>4, <1>5, <1>6

\* Every branch of reserve_inner.
LEMMA ReserveKeepsInv ==
  ASSUME IInv, NEW h \in Handles, NEW n \in Cap,
         NEW w \in Seq(Cell), Len(w) <= n, NEW gone \in SUBSET (Handles \ {h}),
         \A x \in gone : hd[x].ty = "mut" /\ x \notin seen,
         ReserveThen(h, n, w, gone)
  PROVE  IInv'
<1>1. hd[h].ty = "mut"
  BY DEF ReserveThen
<1>2. CASE \/ in_place(h, n, w, gone)
           \/ vec_shift(h, n, w, gone)
           \/ arc_expand(h, n, w, gone)
           \/ arc_shift(h, n, w, gone)
  <2>1. h \notin seen
    BY <1>2 DEF in_place, vec_shift, arc_expand, arc_shift, Unique
  <2> QED BY <1>1, <1>2, <2>1, StayKeepsInv
<1>3. ASSUME NEW b \in Bufs, NEW cap \in Cap,
             \/ vec_grow(h, n, w, gone, b, cap)
             \/ arc_grow(h, n, w, gone, b, cap)
             \/ copy_out(h, n, w, gone, b, cap)
      PROVE  IInv'
  BY <1>1, <1>3, RelocateKeepsInv
<1> QED BY <1>2, <1>3 DEF ReserveThen

\* reserve, extend_from_slice and is_unique's stale answer.
LEMMA GrowKeepsInv ==
  ASSUME IInv, NEW h \in Handles, Grow(h)
  PROVE  IInv'
<1>1. ASSUME NEW n \in Cap, reserve(h, n) PROVE IInv'
  <2>1. << >> \in Seq(Cell) /\ Len(<< >>) <= n
    BY SMTT(60) DEF Cap
  <2>2. ReserveThen(h, n, << >>, {})
    BY <1>1 DEF reserve
  <2>3. {} \in SUBSET (Handles \ {h}) /\ \A x \in {} : hd[x].ty = "mut" /\ x \notin seen
    OBVIOUS
  <2> QED BY <2>1, <2>2, <2>3, ReserveKeepsInv
<1>2. ASSUME NEW w \in Slices, extend_from_slice(h, w) PROVE IInv'
  <2>1. w \in Seq(Cell) /\ Len(w) \in Cap /\ Len(w) <= Len(w)
    BY SlicesType, SMTT(60) DEF Cap
  <2>2. ReserveThen(h, Len(w), w, {})
    BY <1>2 DEF extend_from_slice
  <2> QED BY <2>1, <2>2, ReserveKeepsInv, SMTT(60)
<1>3. ASSUME LoadNotUnique(h) PROVE IInv'
  <2>1. /\ hd[h].ty \in {"mut", "bytes"} /\ h \notin seen /\ IsArc(h)
        /\ seen' = seen \cup {h} /\ hd' = hd /\ heap' = heap /\ sh' = sh
    BY <1>3 DEF LoadNotUnique, Idle
  <2>2. hd[h].buf # NoBuf
    BY <2>1, MutHasBuf
  <2>3. TypeOK' /\ (\A x \in Handles \ {h} : Kept(x)) /\ seen' \ {h} = seen \ {h}
    BY <2>1 DEF IInv, TypeOK, Kept
  <2>4. hd[h].off <= hd[h].off /\ hd[h].off + hd[h].cap <= hd[h].off + hd[h].cap
    BY <2>2, ViewFacts, SMTT(60)
  <2>5. InUse(h)' => InUse(h)
    BY <2>1 DEF InUse
  <2> QED BY <2>1, <2>2, <2>3, <2>4, <2>5, ViewFacts, ViewKeepsInv DEF IsArc, Views
<1> QED BY <1>1, <1>2, <1>3 DEF Grow

-----------------------------------------------------------------------------
(* The remaining actions.                                                  *)

\* unsplit.
LEMMA UnsplitKeepsInv ==
  ASSUME IInv, NEW h \in Handles, Unsplit(h)
  PROVE  IInv'
<1>1. ASSUME NEW o \in Handles, unsplit_empty(h, o) PROVE IInv'
  <2>1. /\ h # o /\ hd[h].ty = "mut" /\ h \notin seen /\ hd[o].ty = "mut" /\ o \notin seen
        /\ hd' = [hd EXCEPT ![h] = hd[o], ![o] = [hd[h] EXCEPT !.ty = "moved"]]
        /\ heap' = heap /\ sh' = sh /\ seen' = seen
    BY <1>1 DEF unsplit_empty, Idle
  <2> DEFINE m == [hd[h] EXCEPT !.ty = "moved"]
  <2>2. hd \in [Handles -> HandleType] /\ hd[o] \in HandleType /\ m \in HandleType
    BY DEF IInv, TypeOK, HandleType
  <2>3. hd' = [hd EXCEPT ![h] = hd[o], ![o] = m] /\ h # o
    BY <2>1
  <2>7. m = [hd[h] EXCEPT !.ty = "moved"]
    OBVIOUS
  <2> HIDE DEF m
  <2>4. /\ hd' \in [Handles -> HandleType] /\ hd'[h] = hd[o] /\ hd'[o] = m
        /\ \A x \in Handles \ {h, o} : hd'[x] = hd[x]
    BY <2>2, <2>3, TwoUpdates
  <2>5. TypeOK'
    BY <2>1, <2>4 DEF IInv, TypeOK
  <2>6. \A x \in Handles \ {o, h} : hd'[x] = hd[x]
    BY <2>4
  <2> QED BY <2>1, <2>4, <2>5, <2>6, <2>7, SwapKeepsInv
<1>2. ASSUME NEW o \in Handles, unsplit_copied(h, o) PROVE IInv'
  <2>1. /\ hd[o].ty = "mut" /\ o \notin seen /\ h # o
        /\ ReserveThen(h, hd[o].len, Slice(hd[o]), {o})
    BY <1>2 DEF unsplit_copied, Idle
  <2>2. hd[o].buf # NoBuf
    BY <2>1, MutHasBuf
  <2>3. hd[o] \in HandleType /\ hd[o].buf \in Bufs /\ hd[o].len \in Cap /\ hd[o].len \in Nat
    BY <2>2, ViewFacts DEF HandleType
  <2>4. hd[o].off + hd[o].len <= MaxCap
    BY <2>2, ViewBound
  <2>5. Slice(hd[o]) \in Seq(Cell) /\ Len(Slice(hd[o])) = hd[o].len
    BY <2>3, <2>4, SliceType DEF IInv, TypeOK
  <2>6. Len(Slice(hd[o])) <= hd[o].len
    BY <2>3, <2>5, SMTT(60)
  <2>7. {o} \in SUBSET (Handles \ {h}) /\ \A x \in {o} : hd[x].ty = "mut" /\ x \notin seen
    BY <2>1
  <2> QED BY <2>1, <2>3, <2>5, <2>6, <2>7, ReserveKeepsInv
<1> QED BY <1>1, <1>2, JoinKeepsInv DEF Unsplit

\* r is a part of what h sees.
Part(r, h) ==
  /\ r \in HandleType
  /\ r.ty = hd[h].ty /\ r.data = hd[h].data /\ r.buf = hd[h].buf
  /\ r.len <= r.cap
  /\ hd[h].off <= r.off /\ r.off + r.cap <= hd[h].off + hd[h].cap

\* A narrowed view is a part of the view it comes from.
LEMMA NarrowedIsPart ==
  ASSUME IInv, NEW h \in Handles, hd[h].buf # NoBuf,
         NEW i \in Nat, NEW n \in Nat, i + n <= hd[h].len
  PROVE  Part(Narrowed(hd[h], i, n), h)
<1>1. /\ hd[h] \in HandleType /\ hd[h].off \in Nat /\ hd[h].len \in Nat /\ hd[h].cap \in Nat
      /\ hd[h].len <= hd[h].cap /\ hd[h].off + hd[h].len <= MaxCap /\ MaxCap \in Nat
  BY ViewFacts, ViewBound, ConstantsAssumption
<1>2. hd[h].off + i \in Cap /\ n \in Cap /\ n <= n
  BY <1>1, SMTT(60) DEF Cap
<1> DEFINE r == Narrowed(hd[h], i, n)
<1>3. /\ r \in HandleType /\ r.ty = hd[h].ty /\ r.data = hd[h].data /\ r.buf = hd[h].buf
      /\ r.off = hd[h].off + i /\ r.len = n /\ r.cap = n
  BY <1>1, <1>2 DEF HandleType, Narrowed
<1> HIDE DEF r
<1>4. hd[h].off <= r.off /\ r.off + r.cap <= hd[h].off + hd[h].cap
  BY <1>1, <1>3, SMTT(60)
<1>5. Part(r, h)
  BY <1>2, <1>3, <1>4 DEF Part
<1> QED BY <1>5 DEF r

\* A view is a part of itself.
LEMMA SelfIsPart ==
  ASSUME IInv, NEW h \in Handles, hd[h].buf # NoBuf
  PROVE  Part(hd[h], h)
BY ViewFacts, SMTT(60) DEF Part

\* shared_v_clone.
LEMMA VCloneKeepsInv ==
  ASSUME IInv, NEW h \in Handles, NEW o \in Handles, Frozen(h),
         NEW self, Part(self, h), NEW other, Part(other, h),
         shared_v_clone(h, o, self, other)
  PROVE  IInv'
<1>1. /\ hd[h].ty = "bytes" /\ h \notin seen /\ hd[h].data # NoShared /\ hd[o].ty = "none"
      /\ h # o /\ hd' = [hd EXCEPT ![h] = self, ![o] = other] /\ heap' = heap /\ seen' = seen
      /\ increment_shared(hd[h].data)
  BY DEF Frozen, Idle, IsArc, shared_v_clone
<1>2. hd[h].buf # NoBuf
  BY <1>1, MutHasBuf DEF IsArc
<1>3. PICK s \in Shareds : s = hd[h].data /\ sh[s].st = "live" /\ sh[s].vec = hd[h].buf
  BY <1>1, <1>2, ViewFacts
<1>4. sh' = [sh EXCEPT ![s].ref_count = @ + 1] /\ sh \in [Shareds -> SharedType]
  BY <1>1, <1>3 DEF increment_shared, IInv, TypeOK
<1>5. /\ sh' \in [Shareds -> SharedType] /\ \A t \in Shareds : t # s => sh'[t] = sh[t]
      /\ sh'[s].st = "live" /\ sh'[s].vec = hd[h].buf
      /\ sh'[s].ref_count = sh[s].ref_count + 1
  BY <1>3, <1>4, SMTT(60) DEF SharedType
<1>6. hd \in [Handles -> HandleType] /\ self \in HandleType /\ other \in HandleType
  BY DEF IInv, TypeOK, Part
<1>7. /\ hd' \in [Handles -> HandleType] /\ hd'[h] = self /\ hd'[o] = other
      /\ \A x \in Handles \ {h, o} : hd'[x] = hd[x]
  BY <1>1, <1>6, TwoUpdates
<1>8. TypeOK'
  BY <1>1, <1>5, <1>7 DEF IInv, TypeOK
<1>9. \A x \in {h, o} :
        /\ hd'[x].ty = hd[h].ty /\ hd'[x].data = s /\ hd'[x].buf = hd[h].buf
        /\ hd'[x].len <= hd'[x].cap
        /\ hd[h].off <= hd'[x].off
        /\ hd'[x].off + hd'[x].cap <= hd[h].off + hd[h].cap
  BY <1>3, <1>7 DEF Part
<1> QED BY <1>1, <1>2, <1>3, <1>5, <1>7, <1>8, <1>9, ShareKeepsInv, SMTT(60) DEF Shares

\* Bytes::split_off and split_to that take or leave everything.
LEMMA NoCloneKeepsInv ==
  ASSUME IInv, NEW h \in Handles, NEW o \in Handles, Frozen(h),
         NoClone(h, o, hd[h], StaticEmpty) \/ NoClone(h, o, StaticEmpty, hd[h])
  PROVE  IInv'
<1>1. /\ hd[h].ty = "bytes" /\ h \notin seen /\ hd[o].ty = "none" /\ h # o
      /\ heap' = heap /\ sh' = sh /\ seen' = seen
      /\ hd \in [Handles -> HandleType]
  BY DEF Frozen, Idle, NoClone, IInv, TypeOK
<1>2. CASE NoClone(h, o, hd[h], StaticEmpty)
  <2>1. hd' = [hd EXCEPT ![h] = hd[h], ![o] = StaticEmpty]
    BY <1>2 DEF NoClone
  <2>2. hd' = [hd EXCEPT ![o] = StaticEmpty]
    BY <1>1, <2>1
  <2> QED BY <1>1, <2>2, StaticKeepsInv
<1>3. CASE NoClone(h, o, StaticEmpty, hd[h])
  <2>1. hd' = [hd EXCEPT ![h] = StaticEmpty, ![o] = hd[h]]
    BY <1>3 DEF NoClone
  <2>2. StaticEmpty \in HandleType /\ hd[h] \in HandleType
    BY <1>1, Constants
  <2>3. /\ hd' \in [Handles -> HandleType] /\ hd'[h] = StaticEmpty /\ hd'[o] = hd[h]
        /\ \A x \in Handles \ {h, o} : hd'[x] = hd[x]
    BY <1>1, <2>1, <2>2, TwoUpdates
  <2>4. TypeOK'
    BY <1>1, <2>3 DEF IInv, TypeOK
  <2>5. o \notin seen
    BY <1>1 DEF IInv, HandleInv, HandleOK
  <2> QED BY <1>1, <2>3, <2>4, <2>5, SwapKeepsInv
<1> QED BY <1>2, <1>3

\* freeze and the operations of a frozen Bytes.
LEMMA ShareActionsKeepInv ==
  ASSUME IInv, NEW h \in Handles, Share(h)
  PROVE  IInv'
<1>1. ASSUME freeze(h) PROVE IInv'
  <2> DEFINE r == [hd[h] EXCEPT !.ty = "bytes", !.pos = 0, !.repr = 0, !.cap = hd[h].len]
  <2>1. hd[h].ty = "mut" /\ hd[h].buf # NoBuf /\ h \notin seen
    BY <1>1, MutHasBuf DEF freeze, Idle
  <2>2. hd' = [hd EXCEPT ![h] = r] /\ heap' = heap /\ sh' = sh /\ seen' = seen
    BY <1>1 DEF freeze
  <2>3. 0 \in Repr /\ 0 \in Cap /\ hd[h].len \in Cap /\ hd[h] \in HandleType
    BY <2>1, ViewFacts, Constants, ConstantsAssumption, SMTT(60) DEF Repr, HandleType
  <2>4. /\ r \in HandleType /\ r.ty = "bytes" /\ r.data = hd[h].data /\ r.buf = hd[h].buf
        /\ r.off = hd[h].off /\ r.len = hd[h].len /\ r.cap = hd[h].len
    BY <2>3 DEF HandleType
  <2> HIDE DEF r
  <2>5. /\ r.len <= r.cap /\ r.off + r.cap <= heap[hd[h].buf].cap
        /\ hd[h].off <= r.off /\ r.off + r.cap <= hd[h].off + hd[h].cap
    BY <2>1, <2>4, ViewFacts, SMTT(60)
  <2>6. heap \in [Bufs -> AllocType]
    BY DEF IInv, TypeOK
  <2> QED BY <2>1, <2>2, <2>4, <2>5, <2>6, ReviewKeepsInv
<1>2. ASSUME NEW i \in Cap, NEW n \in Cap, bytes_narrow(h, i, n) PROVE IInv'
  <2> DEFINE r == Narrowed(hd[h], i, n)
  <2>1. hd[h].ty = "bytes" /\ h \notin seen /\ hd[h].buf # NoBuf /\ hd[h].data # NoShared
    BY <1>2, MutHasBuf DEF bytes_narrow, Frozen, Idle, IsArc
  <2>2. /\ hd' = [hd EXCEPT ![h] = r] /\ heap' = heap /\ sh' = sh /\ seen' = seen
        /\ i + n <= hd[h].len /\ i \in Nat /\ n \in Nat
    BY <1>2, SMTT(60) DEF bytes_narrow, Cap
  <2>3. Part(r, h)
    BY <2>1, <2>2, NarrowedIsPart
  <2> HIDE DEF r
  <2>4. r.off + r.cap <= heap[hd[h].buf].cap
    BY <2>1, <2>3, ViewFacts, SMTT(60) DEF Part, HandleType, Cap
  <2>5. heap \in [Bufs -> AllocType]
    BY DEF IInv, TypeOK
  <2> QED BY <2>1, <2>2, <2>3, <2>4, <2>5, ReviewKeepsInv DEF Part
<1>3. ASSUME Frozen(h) PROVE hd[h].buf # NoBuf /\ hd[h].len \in Nat
  <2>1. hd[h].buf # NoBuf
    BY <1>3, MutHasBuf DEF Frozen
  <2> QED BY <2>1, ViewFacts
<1>4. ASSUME NEW o \in Handles, bytes_clone(h, o) PROVE IInv'
  BY <1>3, <1>4, SelfIsPart, VCloneKeepsInv DEF bytes_clone
<1>5. ASSUME NEW o \in Handles, NEW i \in Cap, NEW j \in Cap, slice(h, o, i, j) PROVE IInv'
  <2>1. Frozen(h) /\ i \in Nat /\ j \in Nat /\ i <= j /\ j <= hd[h].len
    BY <1>5, SMTT(60) DEF slice, Cap
  <2>2. CASE i = j
    BY <1>5, <2>1, <2>2, NoCloneKeepsInv DEF slice
  <2>3. CASE i # j
    <3>1. j - i \in Nat /\ i + (j - i) <= hd[h].len
      BY <2>1, SMTT(60)
    <3>2. Part(Narrowed(hd[h], i, j - i), h)
      BY <1>3, <2>1, <3>1, NarrowedIsPart
    <3> QED BY <1>3, <1>5, <2>1, <2>3, <3>2, SelfIsPart, VCloneKeepsInv DEF slice
  <2> QED BY <2>2, <2>3
<1>6. ASSUME NEW o \in Handles, NEW at \in Cap, bytes_split_off(h, o, at) \/ bytes_split_to(h, o, at)
      PROVE  IInv'
  <2>1. Frozen(h) /\ at \in Nat /\ at <= hd[h].len
    BY <1>6, SMTT(60) DEF bytes_split_off, bytes_split_to, Cap
  <2>2. Part(Narrowed(hd[h], 0, at), h)
    BY <1>3, <2>1, NarrowedIsPart, SMTT(60)
  <2>3. Part(Narrowed(hd[h], at, hd[h].len - at), h)
    <3>1. hd[h].len - at \in Nat /\ at + (hd[h].len - at) <= hd[h].len
      BY <1>3, <2>1, SMTT(60)
    <3> QED BY <1>3, <2>1, <3>1, NarrowedIsPart
  <2>4. CASE at = hd[h].len \/ at = 0
    BY <1>6, <2>1, <2>4, NoCloneKeepsInv DEF bytes_split_off, bytes_split_to
  <2>5. CASE at # hd[h].len /\ at # 0
    BY <1>6, <2>1, <2>2, <2>3, <2>5, VCloneKeepsInv DEF bytes_split_off, bytes_split_to
  <2> QED BY <2>4, <2>5
<1> QED BY <1>1, <1>2, <1>4, <1>5, <1>6 DEF Share

\* The copying conversions: the result owns a fresh allocation.
LEMMA CopyThenReleaseKeepsInv ==
  ASSUME IInv, NEW h \in Handles, NEW b \in Bufs, NEW result \in HandleType,
         CopyThenRelease(h, b, result),
         result.ty # "none", result.data = NoShared, result.buf = b, result.off = 0,
         result.pos = 0, result.len = hd[h].len, result.cap = hd[h].len
  PROVE  IInv'
<1> DEFINE v == hd[h].buf
           c == CopyOf(heap[v].cells, hd[h].off, hd[h].len)
           h1 == [heap EXCEPT ![b] = Alloc(hd[h].len, c)]
<1>1. /\ h \in seen /\ IsFree(b) /\ seen' = seen \ {h} /\ sh' = ReleasedSh(hd[h].data)
      /\ hd' = [hd EXCEPT ![h] = result] /\ heap' = ReleasedHeap(h1, hd[h].data)
  BY DEF CopyThenRelease
<1>2. IsArc(h)
  BY <1>1 DEF IInv, HandleInv, HandleOK, IsArc
<1>3. /\ v # NoBuf /\ v \in Bufs /\ hd[h].off \in Nat /\ hd[h].len \in Nat
      /\ hd[h].off + hd[h].len <= MaxCap /\ heap[v].cells \in [Idx -> Cell] /\ heap[v].live
      /\ sh[hd[h].data].vec = v /\ hd[h].len \in Cap /\ heap \in [Bufs -> AllocType]
  BY <1>2, MutHasBuf, ViewFacts, ViewBound DEF IsArc, IInv, TypeOK, HandleType
<1>4. c \in [Idx -> Cell] /\ b # v
  BY <1>1, <1>3, MovesType DEF IsFree
<1> HIDE DEF c
<1>5. /\ Alloc(hd[h].len, c) \in AllocType /\ Alloc(hd[h].len, c).live
      /\ Alloc(hd[h].len, c).cap = hd[h].len
  BY <1>3, <1>4 DEF Alloc, AllocType
<1>6. h1 \in [Bufs -> AllocType] /\ h1[b].live /\ h1[b].cap = hd[h].len
      /\ \A a \in Bufs \ {b} : h1[a] = heap[a]
  BY <1>3, <1>5
<1> HIDE DEF h1
<1>7. /\ heap' \in [Bufs -> AllocType] /\ heap'[b].live /\ heap'[b].cap = hd[h].len
      /\ \A a \in Bufs \ {b} : heap'[a] = heap[a] \/ (a = v /\ sh[hd[h].data].ref_count = 1)
      /\ sh[hd[h].data].ref_count = 1 => ~heap'[sh[hd[h].data].vec].live
  BY <1>1, <1>3, <1>4, <1>6, Constants DEF ReleasedHeap, Freed
<1>8. hd'[h] = result /\ \A x \in Handles \ {h} : hd'[x] = hd[x]
  BY <1>1 DEF IInv, TypeOK
<1>9. TypeOK'
  <2>1. sh' \in [Shareds -> SharedType]
    BY <1>1, <1>2, ReleasedType
  <2> QED BY <1>1, <1>7, <2>1 DEF IInv, TypeOK
<1>10. \A x \in Handles \ {h} : Kept(x)
  BY <1>8 DEF Kept
<1>11. hd[h].len <= hd[h].len
  BY <1>3, SMTT(60)
<1>12. \A a \in Bufs :
         \/ heap'[a].live = heap[a].live /\ heap'[a].cap = heap[a].cap
         \/ a = hd'[h].buf
         \/ a = sh[hd[h].data].vec /\ sh[hd[h].data].ref_count = 1
  BY <1>3, <1>7, <1>8
<1>13. /\ hd'[h].buf \in Bufs /\ IsFree(hd'[h].buf)
       /\ hd'[h].ty # "none" /\ hd'[h].data = NoShared /\ heap'[hd'[h].buf].live
       /\ hd'[h].len <= hd'[h].cap
       /\ hd'[h].off = 0 /\ hd'[h].pos = 0 /\ hd'[h].cap = heap'[hd'[h].buf].cap
  <2>1. hd'[h] = result
    BY <1>8
  <2>2. hd'[h].buf = b /\ hd'[h].len = hd[h].len /\ hd'[h].cap = hd[h].len
    BY <2>1
  <2>3. hd'[h].buf \in Bufs /\ IsFree(hd'[h].buf)
    BY <1>1, <2>2
  <2>4. hd'[h].ty # "none" /\ hd'[h].data = NoShared /\ hd'[h].off = 0 /\ hd'[h].pos = 0
    BY <2>1
  <2>5. hd'[h].len <= hd'[h].cap
    BY <1>11, <2>2
  <2>6. heap'[hd'[h].buf].live /\ hd'[h].cap = heap'[hd'[h].buf].cap
    BY <1>7, <2>2
  <2> QED BY <2>3, <2>4, <2>5, <2>6
<1>14. Releases(h)
  BY <1>1, <1>2, <1>7, <1>10, <1>12, <1>13 DEF Releases
<1> QED BY <1>9, <1>14, ReleaseKeepsInv

\* The conversions into Vec and into BytesMut.
LEMMA ConvertKeepsInv ==
  ASSUME IInv, NEW h \in Handles, Convert(h)
  PROVE  IInv'
<1>1. ASSUME into_vec_owned(h) PROVE IInv'
  <2> DEFINE r == VecOf(hd[h].buf, hd[h].len, hd[h].cap + hd[h].pos)
             c == ShiftedDown(heap[hd[h].buf].cells, hd[h].off, hd[h].len)
  <2>1. hd[h].ty = "mut" /\ hd[h].buf # NoBuf /\ h \notin seen /\ hd[h].data = NoShared
    BY <1>1, MutHasBuf DEF into_vec_owned, Idle, IsArc
  <2>2. /\ hd' = [hd EXCEPT ![h] = r] /\ heap' = [heap EXCEPT ![hd[h].buf].cells = c]
        /\ sh' = sh /\ seen' = seen
    BY <1>1 DEF into_vec_owned
  <2>3. /\ hd[h].len \in Cap /\ hd[h].cap + hd[h].pos = heap[hd[h].buf].cap
        /\ heap[hd[h].buf].cap \in Cap /\ hd[h].buf \in Bufs
        /\ hd[h].len <= heap[hd[h].buf].cap /\ heap[hd[h].buf].cap \in Nat
    BY <2>1, ViewFacts, ConstantsAssumption, SMTT(60) DEF Cap
  <2>4. /\ r \in HandleType /\ r.ty = "vec" /\ r.data = NoShared /\ r.buf = hd[h].buf
        /\ r.off = 0 /\ r.len = hd[h].len /\ r.cap = heap[hd[h].buf].cap
    BY <2>3, Constants DEF HandleType, VecOf, NoHandle
  <2>5. c \in [Idx -> Cell]
    BY <2>1, ViewFacts, ViewBound, MovesType
  <2> HIDE DEF r, c
  <2>6. /\ heap' \in [Bufs -> AllocType]
        /\ \A a \in Bufs : heap'[a].live = heap[a].live /\ heap'[a].cap = heap[a].cap
    BY <2>2, <2>3, <2>5 DEF IInv, TypeOK, AllocType
  <2>7. r.len <= r.cap /\ r.off + r.cap <= heap[hd[h].buf].cap
    BY <2>3, <2>4, SMTT(60)
  <2>8. Alone(h)
    BY <2>1, OwnerIsAlone
  <2> QED BY <2>1, <2>2, <2>4, <2>6, <2>7, <2>8, ReviewKeepsInv
<1>2. ASSUME into_mut_unique(h) PROVE IInv'
  <2>1. /\ hd[h].ty = "bytes" /\ h \notin seen /\ hd[h].data # NoShared /\ Alone(h)
        /\ hd[h].buf # NoBuf
    BY <1>2, UniqueAlone, MutHasBuf DEF into_mut_unique, Unique, IsArc
  <2> DEFINE k == heap[hd[h].buf].cap - hd[h].off
             r == [hd[h] EXCEPT !.ty = "mut", !.cap = k]
  <2>2. /\ hd[h] \in HandleType /\ sh[hd[h].data].vec = hd[h].buf
        /\ hd[h].off \in Nat /\ hd[h].len \in Nat /\ hd[h].cap \in Nat
        /\ hd[h].len <= hd[h].cap /\ hd[h].off + hd[h].cap <= heap[hd[h].buf].cap
        /\ heap[hd[h].buf].cap \in Nat /\ heap[hd[h].buf].cap <= MaxCap /\ MaxCap \in Nat
        /\ hd \in [Handles -> HandleType] /\ heap \in [Bufs -> AllocType]
    BY <2>1, ViewFacts, ConstantsAssumption DEF IInv, TypeOK
  <2>3. hd' = [hd EXCEPT ![h] = r] /\ heap' = heap /\ sh' = sh /\ seen' = seen
    BY <1>2, <2>2 DEF into_mut_unique
  <2>4. k \in Cap /\ hd[h].len <= k /\ hd[h].off + k <= heap[hd[h].buf].cap
    BY <2>2, SMTT(60) DEF Cap
  <2> HIDE DEF k
  <2>5. /\ r \in HandleType /\ r.ty = "mut" /\ r.data = hd[h].data /\ r.buf = hd[h].buf
        /\ r.off = hd[h].off /\ r.len = hd[h].len /\ r.cap = k
    BY <2>2, <2>4 DEF HandleType
  <2> HIDE DEF r
  <2> QED BY <2>1, <2>2, <2>3, <2>4, <2>5, ReviewKeepsInv
<1>3. ASSUME NEW b \in Bufs PROVE hd[h].len \in Cap
  BY DEF IInv, TypeOK, HandleType
<1>4. ASSUME NEW b \in Bufs, into_vec_copied(h, b) PROVE IInv'
  <2> DEFINE r == VecOf(b, hd[h].len, hd[h].len)
  <2>1. /\ r \in HandleType /\ r.ty = "vec" /\ r.data = NoShared /\ r.buf = b
        /\ r.off = 0 /\ r.pos = 0 /\ r.len = hd[h].len /\ r.cap = hd[h].len
    BY <1>3, Constants DEF HandleType, VecOf, NoHandle
  <2>2. CopyThenRelease(h, b, r)
    BY <1>4 DEF into_vec_copied
  <2> HIDE DEF r
  <2> QED BY <2>1, <2>2, CopyThenReleaseKeepsInv
<1>5. ASSUME NEW b \in Bufs, into_mut_copied(h, b) PROVE IInv'
  <2> DEFINE r == FromVec(b, hd[h].len, hd[h].len)
  <2>1. /\ r \in HandleType /\ r.ty = "mut" /\ r.data = NoShared /\ r.buf = b
        /\ r.off = 0 /\ r.pos = 0 /\ r.len = hd[h].len /\ r.cap = hd[h].len
    BY <1>3, FromVecType DEF FromVec
  <2>2. CopyThenRelease(h, b, r)
    BY <1>5 DEF into_mut_copied
  <2> HIDE DEF r
  <2> QED BY <2>1, <2>2, CopyThenReleaseKeepsInv
<1> QED BY <1>1, <1>2, <1>4, <1>5, TakeVecKeepsInv DEF Convert

\* Drop.
LEMMA DropKeepsInv ==
  ASSUME IInv, NEW h \in Handles, drop(h)
  PROVE  IInv'
<1>1. CASE IsArc(h)
  <2>1. /\ h \notin seen /\ hd' = [hd EXCEPT ![h] = NoHandle] /\ seen' = seen
        /\ sh' = ReleasedSh(hd[h].data) /\ heap' = ReleasedHeap(heap, hd[h].data)
    BY <1>1 DEF drop
  <2>2. /\ hd[h].buf \in Bufs /\ sh[hd[h].data].vec = hd[h].buf
        /\ hd \in [Handles -> HandleType] /\ heap \in [Bufs -> AllocType]
    BY <1>1, MutHasBuf, ViewFacts DEF IsArc, IInv, TypeOK
  <2>3. hd'[h] = NoHandle /\ \A x \in Handles \ {h} : hd'[x] = hd[x]
    BY <2>1, <2>2
  <2>4. /\ heap' \in [Bufs -> AllocType]
        /\ \A a \in Bufs : heap'[a] = heap[a]
             \/ (a = sh[hd[h].data].vec /\ sh[hd[h].data].ref_count = 1)
        /\ sh[hd[h].data].ref_count = 1 => ~heap'[sh[hd[h].data].vec].live
    BY <2>1, <2>2, Constants DEF ReleasedHeap, Freed
  <2>5. TypeOK'
    <3>1. sh' \in [Shareds -> SharedType]
      BY <1>1, <2>1, ReleasedType
    <3>2. hd' \in [Handles -> HandleType]
      BY <2>1, <2>2, Constants
    <3> QED BY <2>1, <2>4, <3>1, <3>2 DEF IInv, TypeOK
  <2>6. (\A x \in Handles \ {h} : Kept(x)) /\ seen' = seen \ {h}
    BY <2>1, <2>3 DEF Kept
  <2> QED BY <1>1, <2>1, <2>3, <2>4, <2>5, <2>6, ReleaseKeepsInv DEF Releases
<1>2. CASE ~IsArc(h)
  BY <1>2, DropOwnerKeepsInv
<1> QED BY <1>1, <1>2

-----------------------------------------------------------------------------
(* Theorems.                                                               *)

\* The invariant holds before the first operation.
LEMMA InitInv == Init => IInv
<1> SUFFICES ASSUME Init PROVE IInv
  OBVIOUS
<1>1. TypeOK
  BY Constants DEF Init, TypeOK
<1>2. \A h \in Handles : hd[h] = NoHandle
  BY DEF Init
<1>3. \A s \in Shareds : sh[s].st = "none" /\ sh[s].ref_count = 0
  BY DEF Init, NoSharedBlock
<1>4. HandleInv
  BY <1>2, ConstantsAssumption, SMTT(60) DEF Init, HandleInv, HandleOK, NoHandle
<1>5. OwnerInv
  BY <1>2, <1>3, SMTT(60) DEF OwnerInv, OwnsVec, NoHandle
<1>6. RefCountExact
  <2>1. \A s \in Shareds : Holders(s) = {}
    BY <1>2, SMTT(60) DEF Holders, Exists, NoHandle
  <2> QED BY <1>3, <2>1, EmptyCount, SMTT(60) DEF RefCountExact
<1>7. RegionInv
  BY <1>2, SMTT(60) DEF RegionInv, NoHandle
<1>8. ReachInv
  BY DEF Init, ReachInv, Freed
<1> QED BY <1>1, <1>4, <1>5, <1>6, <1>7, <1>8 DEF IInv

\* Every step keeps the invariant.
LEMMA NextInv == IInv /\ [Next]_vars => IInv'
<1> SUFFICES ASSUME IInv, [Next]_vars PROVE IInv'
  OBVIOUS
<1>1. CASE UNCHANGED vars
  <2>1. hd' = hd /\ heap' = heap /\ sh' = sh /\ seen' = seen
    BY <1>1 DEF vars
  <2>2. TypeOK'
    BY <2>1 DEF IInv, TypeOK
  <2>3. HandleInv'
    BY <2>1 DEF IInv, HandleInv, HandleOK
  <2>4. OwnerInv'
    BY <2>1 DEF IInv, OwnerInv, OwnsVec
  <2>5. RefCountExact'
    BY <2>1 DEF IInv, RefCountExact, Holders, Exists
  <2>6. RegionInv'
    BY <2>1 DEF IInv, RegionInv, InUse
  <2>7. ReachInv'
    BY <2>1 DEF IInv, ReachInv
  <2> QED BY <2>2, <2>3, <2>4, <2>5, <2>6, <2>7 DEF IInv
<1>2. CASE Next
  BY <1>2, CreateKeepsInv, SplitKeepsInv, EditKeepsInv, GrowKeepsInv, UnsplitKeepsInv,
     ShareActionsKeepInv, ConvertKeepsInv, DropKeepsInv DEF Next
<1> QED BY <1>1, <1>2

\* The inductive invariant holds in every execution of bytes_mut.rs's operations.
THEOREM Invariance == Spec => []IInv
BY InitInv, NextInv, PTL DEF Spec

\* Every field stays in its type: no offset, length or capacity underflows
\* (advance_unchecked, split_off, reserve_inner) or passes the largest capacity.
THEOREM TypeCorrect == Spec => []TypeOK
<1>1. IInv => TypeOK
  BY DEF IInv
<1> QED BY <1>1, Invariance, PTL

\* ref_count is the number of handles on the block, for any number of threads and
\* any interleaving of promotion, clones, releases and stale is_unique() answers.
THEOREM CountsExact == Spec => []RefCountExact
<1>1. IInv => RefCountExact
  BY DEF IInv
<1> QED BY <1>1, Invariance, PTL

\* No handle points outside a live allocation: nothing is used after
\* release_shared freed it.
THEOREM NoDangling == Spec => []WithinLiveAllocation
<1>1. IInv => WithinLiveAllocation
  BY DEF IInv, HandleInv, HandleOK, WithinLiveAllocation
<1> QED BY <1>1, Invariance, PTL

\* rebuild_vec's arguments are those of the vector that was taken apart.
THEOREM VecRebuilt == Spec => []RebuildsVec
<1>1. IInv => RebuildsVec
  BY DEF IInv, HandleInv, HandleOK, RebuildsVec
<1> QED BY <1>1, Invariance, PTL

\* The memory a BytesMut may write is seen by no other handle.
THEOREM Exclusive == Spec => []ExclusiveRegions
<1>1. IInv => ExclusiveRegions
  <2> SUFFICES ASSUME IInv, NEW h \in Handles, NEW o \in Handles,
                      h # o, hd[h].ty = "mut", InUse(o), hd[h].buf = hd[o].buf
               PROVE  Region(hd[h]) \cap Region(hd[o]) = {}
    BY DEF ExclusiveRegions
  <2>1. Apart(hd[h], hd[o])
    BY DEF IInv, RegionInv
  <2>2. /\ hd[h].off \in Nat /\ hd[h].cap \in Nat
        /\ hd[o].off \in Nat /\ hd[o].cap \in Nat
    BY SMTT(60) DEF IInv, TypeOK, HandleType, Cap
  <2> QED BY <2>1, <2>2, SMTT(60) DEF Apart, Region
<1> QED BY <1>1, Invariance, PTL

\* Every allocation is freed by exactly one handle or block, and none is left
\* without: release_shared and Drop neither leak nor free twice.
THEOREM OwnedOnce == Spec => []OneOwner
<1>1. IInv => OneOwner
  <2> SUFFICES ASSUME IInv, NEW b \in Bufs
               PROVE  Cardinality(Owners(b)) = IF heap[b].live THEN 1 ELSE 0
    BY DEF OneOwner
  <2>1. \A h \in Handles : Exists(h) /\ hd[h].data = NoShared /\ hd[h].buf = b =>
          OwnsVec(h) /\ heap[b].live
    BY ConstantsAssumption, SMTT(60) DEF IInv, HandleInv, HandleOK, OwnsVec
  <2>2. \A s \in Shareds : sh[s].st # "none" => sh[s].st = "live"
    BY DEF IInv, TypeOK, SharedType
  <2>3. \A x, y \in Owners(b) : x = y
    BY <2>1, <2>2, SMTT(60) DEF Owners, IInv, OwnerInv
  <2>4. CASE heap[b].live
    <3>1. PICK h \in Handles : hd[h].buf = b
      BY <2>4 DEF IInv, ReachInv
    <3>2. /\ hd[h] \in HandleType /\ Exists(h)
          /\ hd[h].data # NoShared => sh[hd[h].data].st = "live" /\ sh[hd[h].data].vec = b
      BY <3>1, NoHandleFields, ConstantsAssumption
         DEF IInv, TypeOK, HandleInv, HandleOK, Exists
    <3>3. PICK x : x \in Owners(b)
      BY <3>1, <3>2 DEF Owners, HandleType
    <3>4. Owners(b) = {x}
      BY <2>3, <3>3
    <3>5. Cardinality({x}) = 1
      BY FS_Singleton
    <3> QED BY <2>4, <3>4, <3>5
  <2>5. CASE ~heap[b].live
    <3>1. Owners(b) = {}
      BY <2>1, <2>2, <2>5 DEF Owners, IInv, OwnerInv
    <3> QED BY <2>5, <3>1, FS_EmptySet
  <2> QED BY <2>4, <2>5
<1> QED BY <1>1, Invariance, PTL

-----------------------------------------------------------------------------
(* A handle as its user sees it.                                           *)

Val(t, w) == [ty |-> t, s |-> w]

\* What the abstraction is for one handle, before a step ...
LEMMA ObjAt ==
  ASSUME NEW h \in Handles
  PROVE  /\ InUse(h) => Obj[h] = Val(hd[h].ty, View(heap[hd[h].buf].cells, hd[h].off, hd[h].len))
         /\ ~InUse(h) => Obj[h] = Val("none", << >>)
BY DEF Obj, Val, InUse, Slice, View

\* ... and after it.
LEMMA ObjAfter ==
  ASSUME NEW h \in Handles
  PROVE  /\ hd'[h].ty \in {"mut", "bytes", "vec"} =>
              Obj'[h] = Val(hd'[h].ty, View(heap'[hd'[h].buf].cells, hd'[h].off, hd'[h].len))
         /\ hd'[h].ty \notin {"mut", "bytes", "vec"} => Obj'[h] = Val("none", << >>)
BY DEF Obj, Val, InUse, Slice, View

\* The abstraction is a function on the handles.
LEMMA ObjIsFun ==
  /\ Obj = [x \in Handles |-> Obj[x]]
  /\ Obj' = [x \in Handles |-> Obj'[x]]
BY DEF Obj, InUse, Slice

\* The parts of an abstract value.
LEMMA ValFields ==
  ASSUME NEW t, NEW w
  PROVE  Val(t, w).ty = t /\ Val(t, w).s = w
BY SMTT(60) DEF Val

\* The step changes what one handle shows.
Becomes(h, t, w) == Obj' = [Obj EXCEPT ![h] = Val(t, w)]

\* That is, this handle shows w and every other one what it did.
LEMMA BecomesFacts ==
  ASSUME NEW h \in Handles, NEW t, NEW w
  PROVE  Becomes(h, t, w) <=> Obj'[h] = Val(t, w) /\ \A x \in Handles : x # h => Obj'[x] = Obj[x]
<1> DEFINE v == Val(t, w)
<1> HIDE DEF v
<1>1. Obj' = [Obj EXCEPT ![h] = v] <=> Obj'[h] = v /\ \A x \in Handles : x # h => Obj'[x] = Obj[x]
  BY ObjIsFun
<1> QED BY <1>1 DEF Becomes, v

\* The parts of what the handle then shows.
LEMMA BecomesFields ==
  ASSUME NEW h \in Handles, NEW t, NEW w, Becomes(h, t, w)
  PROVE  Obj'[h].ty = t /\ Obj'[h].s = w
<1>1. Obj'[h] = Val(t, w)
  BY BecomesFacts
<1> QED BY <1>1, SMTT(60) DEF Val

\* The step changes what two handles show.
BothBecome(h, t, w, o, u, v) == Obj' = [Obj EXCEPT ![h] = Val(t, w), ![o] = Val(u, v)]

\* That is, these handles show w and v and every other one what it did.
LEMMA BothFacts ==
  ASSUME NEW h \in Handles, NEW o \in Handles, h # o, NEW t, NEW w, NEW u, NEW v,
         Obj'[h] = Val(t, w), Obj'[o] = Val(u, v),
         \A x \in Handles : x # h /\ x # o => Obj'[x] = Obj[x]
  PROVE  BothBecome(h, t, w, o, u, v)
BY ObjIsFun DEF BothBecome

-----------------------------------------------------------------------------
(* The steps of ByteStrings, by what the handles show before and after.    *)

\* What handle h shows.
Shows(h, t, w) == Obj[h] = Val(t, w)

\* The parts of what a handle shows.
LEMMA ShowsFields ==
  ASSUME NEW h \in Handles, NEW t, NEW w, Shows(h, t, w)
  PROVE  Obj[h].ty = t /\ Obj[h].s = w
BY SMTT(60) DEF Shows, Val

\* A new string.
LEMMA StepNew ==
  ASSUME NEW h \in Handles, NEW w \in Seq(Byte), Shows(h, "none", << >>), Becomes(h, "mut", w)
  PROVE  Abstract!Next
<1>1. Obj'[h].s = w
  BY BecomesFields
<1>2. Abstract!New(h)
  BY <1>1 DEF Abstract!New, Abstract!Absent, Abstract!Becomes, Becomes, Shows, Val
<1> QED BY <1>2 DEF Abstract!Next

\* A copy of a string.
LEMMA StepCopy ==
  ASSUME NEW h \in Handles, NEW o \in Handles, NEW w, Shows(h, "mut", w),
         Shows(o, "none", << >>), Becomes(o, "mut", w)
  PROVE  Abstract!Next
<1>1. Obj[h].ty = "mut" /\ Obj[h].s = w
  BY ShowsFields
<1>2. Abstract!Copy(h, o)
  BY <1>1 DEF Abstract!Copy, Abstract!Absent, Abstract!Becomes, Becomes, Shows, Val
<1> QED BY <1>2 DEF Abstract!Next

\* A string cut in two, of which either handle keeps the front.
LEMMA StepSplit ==
  ASSUME NEW h \in Handles, NEW o \in Handles, h # o, NEW t \in {"mut", "bytes"}, NEW w, NEW at \in 0 .. Len(w),
         Shows(h, t, w), Shows(o, "none", << >>),
         \/ BothBecome(h, t, SubSeq(w, 1, at), o, t, SubSeq(w, at + 1, Len(w)))
         \/ BothBecome(h, t, SubSeq(w, at + 1, Len(w)), o, t, SubSeq(w, 1, at))
  PROVE  Abstract!Next
<1> DEFINE a == SubSeq(w, 1, at)
           b == SubSeq(w, at + 1, Len(w))
<1>1. Obj[h].ty = t /\ Obj[h].s = w
  BY ShowsFields
<1>4. Obj[o] = Abstract!Absent
  BY DEF Shows, Abstract!Absent, Val
<1>2. \/ Obj' = [Obj EXCEPT ![h] = [ty |-> t, s |-> a], ![o] = [ty |-> t, s |-> b]]
      \/ Obj' = [Obj EXCEPT ![h] = [ty |-> t, s |-> b], ![o] = [ty |-> t, s |-> a]]
  <2>1. BothBecome(h, t, a, o, t, b) \/ BothBecome(h, t, b, o, t, a)
    OBVIOUS
  <2> HIDE DEF a, b
  <2> QED BY <2>1 DEF BothBecome, Val
<1>3. Abstract!SplitAt(h, o, at)
  BY <1>1, <1>2, <1>4 DEF Abstract!SplitAt
<1> QED BY <1>1, <1>3 DEF Abstract!Next

\* A part of a frozen string in a handle of its own.
LEMMA StepSliceOf ==
  ASSUME NEW h \in Handles, NEW o \in Handles, NEW w, NEW i \in 1 .. Len(w) + 1, NEW j \in 0 .. Len(w),
         Shows(h, "bytes", w), Shows(o, "none", << >>), Becomes(o, "bytes", SubSeq(w, i, j))
  PROVE  Abstract!Next
<1> DEFINE v == SubSeq(w, i, j)
<1>1. Obj[h].ty = "bytes" /\ Obj[h].s = w
  BY ShowsFields
<1>4. Obj[o] = Abstract!Absent
  BY DEF Shows, Abstract!Absent, Val
<1>2. Obj' = [Obj EXCEPT ![o] = [ty |-> "bytes", s |-> v]]
  BY DEF Becomes, Val
<1>3. Abstract!SliceOf(h, o, i, j)
  BY <1>1, <1>2, <1>4 DEF Abstract!SliceOf, Abstract!Becomes
<1> QED BY <1>1, <1>3 DEF Abstract!Next

\* A string narrowed to a part of it.
LEMMA StepNarrow ==
  ASSUME NEW h \in Handles, NEW t \in {"mut", "bytes"}, NEW w, NEW i \in 1 .. Len(w) + 1, NEW j \in 0 .. Len(w),
         Shows(h, t, w), Becomes(h, t, SubSeq(w, i, j))
  PROVE  Abstract!Next
<1> DEFINE v == SubSeq(w, i, j)
<1>1. Obj[h].ty = t /\ Obj[h].s = w
  BY ShowsFields
<1>2. Obj' = [Obj EXCEPT ![h] = [ty |-> t, s |-> v]]
  BY DEF Becomes, Val
<1>3. Abstract!Narrow(h, i, j)
  BY <1>1, <1>2 DEF Abstract!Narrow, Abstract!Becomes
<1> QED BY <1>1, <1>3 DEF Abstract!Next

\* A string with bytes added at its end.
LEMMA StepExtend ==
  ASSUME NEW h \in Handles, NEW w \in Seq(Byte), NEW v \in Seq(Byte),
         Shows(h, "mut", w), Becomes(h, "mut", w \o v)
  PROVE  Abstract!Next
<1> DEFINE z == w \o v
<1>1. z \in Seq(Byte) /\ Len(w) <= Len(z) /\ SubSeq(z, 1, Len(w)) = w
  BY SMTT(60)
<1> HIDE DEF z
<1>2. Obj[h].ty = "mut" /\ Obj[h].s = w
  BY ShowsFields
<1>3. Obj' = [Obj EXCEPT ![h] = [ty |-> "mut", s |-> z]]
  BY DEF Becomes, Val, z
<1>5. Obj'[h].s = z
  BY BecomesFields DEF z
<1>4. Abstract!Extend(h)
  BY <1>1, <1>2, <1>3, <1>5 DEF Abstract!Extend, Abstract!Becomes
<1> QED BY <1>4 DEF Abstract!Next

\* A byte of a string overwritten.
LEMMA StepStore ==
  ASSUME NEW h \in Handles, NEW w, NEW i \in DOMAIN w, NEW v \in Byte,
         Shows(h, "mut", w), Becomes(h, "mut", [w EXCEPT ![i] = v])
  PROVE  Abstract!Next
<1> DEFINE z == [w EXCEPT ![i] = v]
<1>1. Obj[h].ty = "mut" /\ Obj[h].s = w
  BY ShowsFields
<1>2. Obj' = [Obj EXCEPT ![h] = [ty |-> "mut", s |-> z]]
  BY DEF Becomes, Val
<1>3. Abstract!Store(h, i, v)
  BY <1>1, <1>2 DEF Abstract!Store, Abstract!Becomes
<1> QED BY <1>1, <1>3 DEF Abstract!Next

\* One string appended to another and consumed.
LEMMA StepJoin ==
  ASSUME NEW h \in Handles, NEW o \in Handles, h # o, NEW w, NEW v,
         Shows(h, "mut", w), Shows(o, "mut", v), BothBecome(h, "mut", w \o v, o, "none", << >>)
  PROVE  Abstract!Next
<1> DEFINE z == w \o v
<1>1. Obj[h].ty = "mut" /\ Obj[h].s = w
  BY ShowsFields
<1>2. Obj[o].ty = "mut" /\ Obj[o].s = v
  BY ShowsFields
<1>3. Obj' = [Obj EXCEPT ![h] = [ty |-> "mut", s |-> z], ![o] = [ty |-> "none", s |-> << >>]]
  BY DEF BothBecome, Val
<1>4. Abstract!Join(h, o)
  BY <1>1, <1>2, <1>3 DEF Abstract!Join, Abstract!Absent
<1> QED BY <1>4 DEF Abstract!Next

\* freeze, the conversion back, and the conversions to a vector.
Conversion(t, u) == \/ t = "mut" /\ u = "bytes"
                    \/ t = "bytes" /\ u = "mut"
                    \/ t \in {"mut", "bytes"} /\ u = "vec"

\* A string that changes its type.
LEMMA StepConvert ==
  ASSUME NEW h \in Handles, NEW t, NEW u, NEW w, Shows(h, t, w), Becomes(h, u, w),
         Conversion(t, u)
  PROVE  Abstract!Next
<1>1. Obj[h].ty = t /\ Obj[h].s = w
  BY ShowsFields
<1>2. Obj' = [Obj EXCEPT ![h] = [ty |-> u, s |-> w]]
  BY DEF Becomes, Val
<1>3. Abstract!Convert(h)
  BY <1>1, <1>2 DEF Conversion, Abstract!Convert, Abstract!Becomes
<1> QED BY <1>3 DEF Abstract!Next

\* A string that goes away.
LEMMA StepDrop ==
  ASSUME NEW h \in Handles, NEW t \in {"mut", "bytes", "vec"}, NEW w, Shows(h, t, w), Becomes(h, "none", << >>)
  PROVE  Abstract!Next
<1>1. Obj[h].ty # "none"
  BY ShowsFields
<1>2. Obj[h] # Abstract!Absent
  BY <1>1, SMTT(60) DEF Abstract!Absent
<1>3. Obj' = [Obj EXCEPT ![h] = [ty |-> "none", s |-> << >>]]
  BY DEF Becomes, Val
<1>4. Abstract!Drop(h)
  BY <1>2, <1>3 DEF Abstract!Drop, Abstract!Absent
<1> QED BY <1>4 DEF Abstract!Next

-----------------------------------------------------------------------------
(* Every step of ByteStrings leaves strings of bytes, so no handle of      *)
(* BytesMut ever shows a cell that was not written.                        *)

Initialized == \A h \in Handles : Obj[h].s \in Seq(Byte)

\* A part of a string of bytes is one.
LEMMA PartIsSeq ==
  ASSUME NEW S, NEW w \in Seq(S), NEW i \in 1 .. Len(w) + 1, NEW j \in 0 .. Len(w)
  PROVE  SubSeq(w, i, j) \in Seq(S)
BY LenNat, SMTT(60)

\* A slice that a caller passes in is a string of bytes.
LEMMA SlicesBytes ==
  ASSUME NEW w \in Slices
  PROVE  w \in Seq(Byte)
<1>1. PICK n \in Cap, v \in Byte : w = [i \in 1 .. n |-> v]
  BY SMTT(60) DEF Slices
<1>2. n \in Nat
  BY SMTT(60) DEF Cap
<1> QED BY <1>1, <1>2, SMTT(60)

\* A new string of bytes in one handle.
LEMMA OneInitialized ==
  ASSUME Initialized, NEW h \in Handles, NEW t, NEW w \in Seq(Byte), Obj' = [Obj EXCEPT ![h] = [ty |-> t, s |-> w]]
  PROVE  Initialized'
<1>1. Becomes(h, t, w)
  BY DEF Becomes, Val
<1>2. Obj'[h].s = w
  BY <1>1, BecomesFields
<1>3. \A x \in Handles : x # h => Obj'[x] = Obj[x]
  BY <1>1, BecomesFacts
<1>4. ASSUME NEW x \in Handles PROVE Obj'[x].s \in Seq(Byte)
  BY <1>2, <1>3 DEF Initialized
<1> QED BY <1>4 DEF Initialized

\* New strings of bytes in two handles.
LEMMA TwoInitialized ==
  ASSUME Initialized, NEW h \in Handles, NEW o \in Handles, h # o, NEW t, NEW w \in Seq(Byte), NEW u, NEW v \in Seq(Byte),
         Obj' = [Obj EXCEPT ![h] = [ty |-> t, s |-> w], ![o] = [ty |-> u, s |-> v]]
  PROVE  Initialized'
<1>1. ASSUME NEW x \in Handles
      PROVE  Obj'[x] = IF x = o THEN [ty |-> u, s |-> v] ELSE IF x = h THEN [ty |-> t, s |-> w] ELSE Obj[x]
  <2> DEFINE a == [ty |-> t, s |-> w]
             b == [ty |-> u, s |-> v]
  <2> HIDE DEF a, b
  <2>1. Obj' = [Obj EXCEPT ![h] = a, ![o] = b]
    BY DEF a, b
  <2>2. Obj'[x] = IF x = o THEN b ELSE IF x = h THEN a ELSE Obj[x]
    BY <2>1, ObjIsFun
  <2> QED BY <2>2 DEF a, b
<1>2. ASSUME NEW x \in Handles PROVE Obj'[x].s \in Seq(Byte)
  <2>1. CASE x = o
    <3>1. Obj'[x] = [ty |-> u, s |-> v]
      BY <1>1, <2>1
    <3> QED BY ONLY <3>1, v \in Seq(Byte), SMTT(60)
  <2>2. CASE x = h
    <3>1. Obj'[x] = [ty |-> t, s |-> w]
      BY <1>1, <2>2
    <3> QED BY ONLY <3>1, w \in Seq(Byte), SMTT(60)
  <2>3. CASE x # o /\ x # h
    BY <1>1, <2>3 DEF Initialized
  <2> QED BY <2>1, <2>2, <2>3
<1> QED BY <1>2 DEF Initialized

\* Every step of ByteStrings keeps the strings strings of bytes.
LEMMA StepInitialized ==
  ASSUME Initialized, Abstract!Next
  PROVE  Initialized'
<1>1. PICK h \in Handles :
        \/ Abstract!New(h) \/ Abstract!Extend(h) \/ Abstract!Convert(h) \/ Abstract!Drop(h)
        \/ \E o \in Handles : Abstract!Copy(h, o) \/ Abstract!Join(h, o)
        \/ \E i \in DOMAIN Obj[h].s, v \in Byte : Abstract!Store(h, i, v)
        \/ \E i \in 1 .. Len(Obj[h].s) + 1, j \in 0 .. Len(Obj[h].s) :
             Abstract!Narrow(h, i, j) \/ \E o \in Handles : Abstract!SliceOf(h, o, i, j)
        \/ \E o \in Handles, at \in 0 .. Len(Obj[h].s) : Abstract!SplitAt(h, o, at)
  BY DEF Abstract!Next
<1> DEFINE w == Obj[h].s
<1>2. w \in Seq(Byte) /\ << >> \in Seq(Byte) /\ Len(w) \in Nat
  BY LenNat, SMTT(60) DEF Initialized
<1>3. CASE Abstract!New(h)
  BY <1>3, OneInitialized DEF Abstract!New, Abstract!Becomes
<1>4. CASE Abstract!Extend(h)
  BY <1>4, OneInitialized DEF Abstract!Extend, Abstract!Becomes
<1>5. CASE Abstract!Convert(h)
  <2>1. PICK t : Obj' = [Obj EXCEPT ![h] = [ty |-> t, s |-> w]]
    BY <1>5 DEF Abstract!Convert, Abstract!Becomes
  <2> QED BY <1>2, <2>1, OneInitialized
<1>6. CASE Abstract!Drop(h)
  BY <1>2, <1>6, OneInitialized DEF Abstract!Drop, Abstract!Absent
<1>7. ASSUME NEW o \in Handles, Abstract!Copy(h, o) PROVE Initialized'
  BY <1>2, <1>7, OneInitialized DEF Abstract!Copy, Abstract!Becomes
<1>8. ASSUME NEW o \in Handles, Abstract!Join(h, o) PROVE Initialized'
  <2> DEFINE v == Obj[o].s
             z == w \o v
  <2>1. v \in Seq(Byte)
    BY DEF Initialized
  <2>2. z \in Seq(Byte)
    BY <1>2, <2>1, SMTT(60)
  <2>3. h # o /\ Obj' = [Obj EXCEPT ![h] = [ty |-> "mut", s |-> z], ![o] = [ty |-> "none", s |-> << >>]]
    BY <1>8 DEF Abstract!Join, Abstract!Absent
  <2> HIDE DEF z
  <2> QED BY <1>2, <2>2, <2>3, TwoInitialized
<1>9. ASSUME NEW i \in DOMAIN w, NEW v \in Byte, Abstract!Store(h, i, v) PROVE Initialized'
  <2> DEFINE z == [w EXCEPT ![i] = v]
  <2>1. z \in Seq(Byte)
    BY <1>2, SMTT(60)
  <2>2. Obj' = [Obj EXCEPT ![h] = [ty |-> "mut", s |-> z]]
    BY <1>9 DEF Abstract!Store, Abstract!Becomes
  <2> HIDE DEF z
  <2> QED BY <2>1, <2>2, OneInitialized
<1>10. ASSUME NEW i \in 1 .. Len(w) + 1, NEW j \in 0 .. Len(w), Abstract!Narrow(h, i, j) PROVE Initialized'
  <2> DEFINE z == SubSeq(w, i, j)
             t == Obj[h].ty
  <2>1. z \in Seq(Byte)
    BY <1>2, PartIsSeq
  <2>2. Obj' = [Obj EXCEPT ![h] = [ty |-> t, s |-> z]]
    BY <1>10 DEF Abstract!Narrow, Abstract!Becomes
  <2> HIDE DEF z, t
  <2> QED BY <2>1, <2>2, OneInitialized
<1>11. ASSUME NEW i \in 1 .. Len(w) + 1, NEW j \in 0 .. Len(w), NEW o \in Handles, Abstract!SliceOf(h, o, i, j)
       PROVE  Initialized'
  <2> DEFINE z == SubSeq(w, i, j)
  <2>1. z \in Seq(Byte)
    BY <1>2, PartIsSeq
  <2>2. Obj' = [Obj EXCEPT ![o] = [ty |-> "bytes", s |-> z]]
    BY <1>11 DEF Abstract!SliceOf, Abstract!Becomes
  <2> HIDE DEF z
  <2> QED BY <2>1, <2>2, OneInitialized
<1>12. ASSUME NEW o \in Handles, NEW at \in 0 .. Len(w), Abstract!SplitAt(h, o, at) PROVE Initialized'
  <2> DEFINE a == SubSeq(w, 1, at)
             b == SubSeq(w, at + 1, Len(w))
             t == Obj[h].ty
  <2>1. a \in Seq(Byte) /\ b \in Seq(Byte)
    <3>1. 1 \in 1 .. Len(w) + 1 /\ at + 1 \in 1 .. Len(w) + 1 /\ Len(w) \in 0 .. Len(w)
      BY <1>2, SMTT(60)
    <3> QED BY <1>2, <3>1, PartIsSeq
  <2>2. Obj[h].ty # "none" /\ Obj[o].ty = "none"
    BY <1>12, SMTT(60) DEF Abstract!SplitAt, Abstract!Absent
  <2>3. \/ Obj' = [Obj EXCEPT ![h] = [ty |-> t, s |-> a], ![o] = [ty |-> t, s |-> b]]
        \/ Obj' = [Obj EXCEPT ![h] = [ty |-> t, s |-> b], ![o] = [ty |-> t, s |-> a]]
    BY <1>12 DEF Abstract!SplitAt
  <2>4. h # o
    BY <2>2
  <2> HIDE DEF a, b, t
  <2>5. CASE Obj' = [Obj EXCEPT ![h] = [ty |-> t, s |-> a], ![o] = [ty |-> t, s |-> b]]
    BY <2>1, <2>4, <2>5, TwoInitialized
  <2>6. CASE Obj' = [Obj EXCEPT ![h] = [ty |-> t, s |-> b], ![o] = [ty |-> t, s |-> a]]
    BY <2>1, <2>4, <2>6, TwoInitialized
  <2> QED BY <2>3, <2>5, <2>6
<1> QED BY <1>1, <1>3, <1>4, <1>5, <1>6, <1>7, <1>8, <1>9, <1>10, <1>11, <1>12

-----------------------------------------------------------------------------
(* What the handles show before and after a step of BytesMut.              *)

Text(h) == View(heap[hd[h].buf].cells, hd[h].off, hd[h].len)

\* What a handle shows.
LEMMA ShowsText ==
  ASSUME NEW h \in Handles
  PROVE  /\ hd[h].ty \in {"mut", "bytes", "vec"} => Shows(h, hd[h].ty, Text(h))
         /\ hd[h].ty \in {"none", "moved"} => Shows(h, "none", << >>)
BY ObjAt DEF Shows, Text, InUse

\* An empty window, wherever it is.
LEMMA EmptyView ==
  ASSUME NEW f, NEW off
  PROVE  View(f, off, 0) = << >>
BY SMTT(60) DEF View

\* A handle that sees its bytes through a window of its allocation.
LEMMA TextFacts ==
  ASSUME IInv, NEW h \in Handles, hd[h].buf # NoBuf
  PROVE  /\ heap[hd[h].buf].cells \in [Idx -> Cell] /\ Fit(hd[h].off, hd[h].len)
         /\ Text(h) \in Seq(Cell) /\ Len(Text(h)) = hd[h].len
<1>1. heap[hd[h].buf].cells \in [Idx -> Cell] /\ Fit(hd[h].off, hd[h].len)
  BY ViewFacts, ViewBound DEF Fit
<1> DEFINE f == heap[hd[h].buf].cells
           off == hd[h].off
           len == hd[h].len
<1>2. View(f, off, len) \in Seq(Cell) /\ Len(View(f, off, len)) = len
  <2>1. f \in [Idx -> Cell] /\ Fit(off, len)
    BY <1>1
  <2> HIDE DEF f, off, len
  <2> QED BY ONLY <2>1, ViewIsSeq
<1> QED BY <1>1, <1>2 DEF Text

\* A handle the step leaves alone, and whose bytes it leaves alone.
LEMMA Untouched ==
  ASSUME IInv, NEW x \in Handles, hd'[x] = hd[x],
         InUse(x) /\ hd[x].buf # NoBuf =>
           SameCells(heap'[hd[x].buf].cells, hd[x].off, heap[hd[x].buf].cells, hd[x].off, hd[x].len)
  PROVE  Obj'[x] = Obj[x]
<1>1. CASE ~InUse(x)
  BY <1>1, ObjAt, ObjAfter DEF InUse
<1>2. CASE InUse(x)
  <2> DEFINE f == heap[hd[x].buf].cells
             g == heap'[hd[x].buf].cells
             off == hd[x].off
             len == hd[x].len
  <2>1. Obj[x] = Val(hd[x].ty, View(f, off, len)) /\ Obj'[x] = Val(hd[x].ty, View(g, off, len))
    BY <1>2, ObjAt, ObjAfter DEF InUse
  <2>2. View(g, off, len) = View(f, off, len)
    <3>1. CASE hd[x].buf = NoBuf
      <4>1. len = 0
        BY <3>1, SMTT(60) DEF IInv, TypeOK, HandleType, HandleInv, HandleOK, Cap
      <4> HIDE DEF f, g, off, len
      <4> QED BY <4>1, EmptyView
    <3>2. CASE hd[x].buf # NoBuf
      <4>1. SameCells(g, off, f, off, len)
        BY <1>2, <3>2
      <4> HIDE DEF f, g, off, len
      <4> QED BY ONLY <4>1, SameView, SMTT(60)
    <3> QED BY <3>1, <3>2
  <2> QED BY <2>1, <2>2
<1> QED BY <1>1, <1>2

\* A handle on an allocation the step does not write.
LEMMA Unwritten ==
  ASSUME IInv, NEW x \in Handles, hd'[x] = hd[x],
         InUse(x) /\ hd[x].buf # NoBuf => heap'[hd[x].buf].cells = heap[hd[x].buf].cells
  PROVE  Obj'[x] = Obj[x]
<1>1. InUse(x) /\ hd[x].buf # NoBuf =>
        SameCells(heap'[hd[x].buf].cells, hd[x].off, heap[hd[x].buf].cells, hd[x].off, hd[x].len)
  BY ViewFacts DEF SameCells
<1> QED BY <1>1, Untouched

\* A handle that gets a part of what h saw.
LEMMA PartText ==
  ASSUME IInv, NEW h \in Handles, hd[h].buf # NoBuf, NEW x \in Handles, NEW t \in {"mut", "bytes", "vec"},
         NEW i \in Nat, NEW k \in Nat, i + k <= hd[h].len, heap' = heap,
         hd'[x].ty = t, hd'[x].buf = hd[h].buf, hd'[x].off = hd[h].off + i, hd'[x].len = k
  PROVE  Obj'[x] = Val(t, SubSeq(Text(h), i + 1, i + k))
<1>1. Obj'[x] = Val(t, View(heap[hd[h].buf].cells, hd[h].off + i, k))
  BY ObjAfter
<1>2. SubSeq(Text(h), i + 1, i + k) = View(heap[hd[h].buf].cells, hd[h].off + i, k)
  <2> DEFINE f == heap[hd[h].buf].cells
             off == hd[h].off
             len == hd[h].len
  <2>1. f \in [Idx -> Cell] /\ Fit(off, len) /\ i + k <= len
    BY TextFacts
  <2>2. SubSeq(View(f, off, len), i + 1, i + k) = View(f, off + i, k)
    <3> HIDE DEF f, off, len
    <3> QED BY ONLY <2>1, i \in Nat, k \in Nat, SubView
  <2> QED BY <2>2 DEF Text
<1> QED BY <1>1, <1>2

\* A handle that gets all of what h saw.
LEMMA SameText ==
  ASSUME NEW h \in Handles, NEW x \in Handles, NEW t \in {"mut", "bytes", "vec"}, heap' = heap,
         hd'[x].ty = t, hd'[x].buf = hd[h].buf, hd'[x].off = hd[h].off, hd'[x].len = hd[h].len
  PROVE  Obj'[x] = Val(t, Text(h))
BY ObjAfter DEF Text

\* A handle that sees nothing.
LEMMA EmptyText ==
  ASSUME NEW x \in Handles, NEW t \in {"mut", "bytes", "vec"}, hd'[x].ty = t, hd'[x].len = 0
  PROVE  Obj'[x] = Val(t, << >>)
BY ObjAfter, EmptyView

\* The ends of a string.
LEMMA SubSeqEnds ==
  ASSUME NEW S, NEW w \in Seq(S)
  PROVE  /\ SubSeq(w, 1, Len(w)) = w /\ SubSeq(w, 1, 0) = << >> /\ SubSeq(w, Len(w) + 1, Len(w)) = << >>
         /\ w \o << >> = w /\ << >> \o w = w
BY LenNat, SMTT(60)

-----------------------------------------------------------------------------
(* Operations that move no byte.                                           *)

\* The other handles are as they were.
Others(h, o) == \A x \in Handles : x # h /\ x # o => hd'[x] = hd[x]

\* Handle x gets the k bytes of h from the i-th on.  An empty part may be anywhere.
Gets(x, h, i, k) ==
  /\ hd'[x].ty = hd[h].ty /\ hd'[x].len = k
  /\ k = 0 \/ (hd'[x].buf = hd[h].buf /\ hd'[x].off = hd[h].off + i)

\* What it then shows.
LEMMA GetsText ==
  ASSUME IInv, NEW h \in Handles, hd[h].buf # NoBuf, hd[h].ty \in {"mut", "bytes"}, NEW x \in Handles,
         NEW i \in Nat, NEW k \in Nat, i + k <= hd[h].len, heap' = heap, Gets(x, h, i, k)
  PROVE  Obj'[x] = Val(hd[h].ty, SubSeq(Text(h), i + 1, i + k))
<1>1. CASE k = 0
  <2>1. Obj'[x] = Val(hd[h].ty, << >>)
    BY <1>1, EmptyText DEF Gets
  <2> DEFINE w == Text(h)
  <2>2. w \in Seq(Cell)
    BY TextFacts
  <2> HIDE DEF w
  <2>3. SubSeq(w, i + 1, i + k) = << >>
    BY ONLY <1>1, <2>2, i \in Nat, SMTT(60)
  <2> QED BY <2>1, <2>3 DEF w
<1>2. CASE k # 0
  <2>1. /\ IInv /\ h \in Handles /\ x \in Handles /\ i \in Nat /\ k \in Nat
        /\ hd[h].buf # NoBuf /\ hd[h].ty \in {"mut", "bytes", "vec"} /\ i + k <= hd[h].len /\ heap' = heap
        /\ hd'[x].ty = hd[h].ty /\ hd'[x].buf = hd[h].buf /\ hd'[x].off = hd[h].off + i /\ hd'[x].len = k
    BY <1>2 DEF Gets
  <2> QED BY ONLY <2>1, PartText, SMTT(60)
<1> QED BY <1>1, <1>2

\* Handles other than h and o show what they did.
LEMMA OthersShow ==
  ASSUME IInv, NEW h \in Handles, NEW o \in Handles, Others(h, o), heap' = heap, NEW x \in Handles, x # h, x # o
  PROVE  Obj'[x] = Obj[x]
BY Unwritten DEF Others

\* advance, truncate and what else leaves a handle a part of its bytes.
LEMMA NarrowedStep ==
  ASSUME IInv, NEW h \in Handles, hd[h].buf # NoBuf, hd[h].ty \in {"mut", "bytes"},
         NEW i \in Nat, NEW k \in Nat, i + k <= hd[h].len, heap' = heap, Gets(h, h, i, k), Others(h, h)
  PROVE  Abstract!Next
<1> DEFINE w == Text(h)
           a == i + 1
           b == i + k
<1>1. Obj'[h] = Val(hd[h].ty, SubSeq(w, a, b))
  BY GetsText
<1>2. w \in Seq(Cell) /\ Len(w) = hd[h].len /\ hd[h].len \in Nat
  BY TextFacts, ViewFacts
<1>3. Shows(h, hd[h].ty, w)
  BY ShowsText
<1> HIDE DEF w
<1>4. a \in 1 .. Len(w) + 1 /\ b \in 0 .. Len(w)
  BY <1>2, SMTT(60)
<1> HIDE DEF a, b
<1>5. Becomes(h, hd[h].ty, SubSeq(w, a, b))
  <2> DEFINE v == SubSeq(w, a, b)
  <2>1. \A x \in Handles : x # h => Obj'[x] = Obj[x]
    BY OthersShow
  <2> HIDE DEF v
  <2> QED BY <1>1, <2>1, BecomesFacts DEF v
<1> QED BY <1>3, <1>4, <1>5, StepNarrow

\* split_off and split_to of either type.
LEMMA SplitStep ==
  ASSUME IInv, NEW h \in Handles, hd[h].buf # NoBuf, hd[h].ty \in {"mut", "bytes"},
         NEW o \in Handles, hd[o].ty = "none", NEW at \in Nat, at <= hd[h].len, heap' = heap, Others(h, o),
         \/ Gets(h, h, 0, at) /\ Gets(o, h, at, hd[h].len - at)
         \/ Gets(o, h, 0, at) /\ Gets(h, h, at, hd[h].len - at)
  PROVE  Abstract!Next
<1> DEFINE w == Text(h)
           t == hd[h].ty
           front == SubSeq(w, 1, at)
           back == SubSeq(w, at + 1, Len(w))
           k == hd[h].len - at
<1>1. w \in Seq(Cell) /\ Len(w) = hd[h].len /\ hd[h].len \in Nat
  BY TextFacts, ViewFacts
<1>2. Shows(h, t, w) /\ Shows(o, "none", << >>) /\ h # o
  BY ShowsText
<1>3. k \in Nat /\ at + k = hd[h].len /\ at + k <= hd[h].len /\ 0 + at <= hd[h].len /\ 0 \in Nat /\ 0 + 1 = 1 /\ 0 + at = at
  BY <1>1, SMTT(60)
<1>4. \A x \in Handles : /\ Gets(x, h, 0, at) => Obj'[x] = Val(t, front)
                         /\ Gets(x, h, at, k) => Obj'[x] = Val(t, back)
  <2> SUFFICES ASSUME NEW x \in Handles
               PROVE  /\ Gets(x, h, 0, at) => Obj'[x] = Val(t, front)
                      /\ Gets(x, h, at, k) => Obj'[x] = Val(t, back)
    OBVIOUS
  <2>1. Gets(x, h, 0, at) => Obj'[x] = Val(t, SubSeq(w, 0 + 1, 0 + at))
    <3> HIDE DEF w
    <3> QED BY <1>3, GetsText DEF w
  <2>2. Gets(x, h, at, k) => Obj'[x] = Val(t, SubSeq(w, at + 1, at + k))
    <3> HIDE DEF k
    <3> QED BY <1>3, GetsText
  <2> HIDE DEF w, k
  <2> QED BY <1>1, <1>3, <2>1, <2>2
<1>5. at \in 0 .. Len(w)
  BY <1>1, SMTT(60)
<1>6. \A x \in Handles : x # h /\ x # o => Obj'[x] = Obj[x]
  BY OthersShow
<1> HIDE DEF w
<1>7. BothBecome(h, t, front, o, t, back) \/ BothBecome(h, t, back, o, t, front)
  <2> HIDE DEF front, back
  <2>1. (Obj'[h] = Val(t, front) /\ Obj'[o] = Val(t, back)) \/ (Obj'[h] = Val(t, back) /\ Obj'[o] = Val(t, front))
    BY <1>4
  <2> HIDE DEF t
  <2> QED BY <1>2, <1>6, <2>1, BothFacts
<1> QED BY <1>2, <1>5, <1>7, StepSplit

\* Shared windows: split_off and split_to of a BytesMut.
LEMMA SplitRefines ==
  ASSUME IInv, NEW h \in Handles, Split(h)
  PROVE  Abstract!Next
<1>1. PICK o \in Handles, at \in Cap, s \in Shareds : split_off(h, o, at, s) \/ split_to(h, o, at, s)
  BY DEF Split
<1> DEFINE q == OnShared(hd[h], s)
           far == Advanced(q, at)
           n == Smaller(hd[h].len, at)
           near == [q EXCEPT !.cap = at, !.len = n]
<1>2. /\ hd[h].ty = "mut" /\ hd[o].ty = "none" /\ h # o /\ heap' = heap /\ at <= hd[h].cap /\ hd[h].buf # NoBuf
  <2>1. hd[h].ty = "mut" /\ hd[o].ty = "none" /\ heap' = heap
    BY <1>1 DEF split_off, split_to, Idle
  <2>2. hd[h].buf # NoBuf
    BY <2>1, MutHasBuf
  <2>3. at <= hd[h].cap
    BY <1>1, <2>2, ViewFacts, SMTT(60) DEF split_off, split_to, Cap
  <2> QED BY <2>1, <2>2, <2>3
<1>3. /\ hd \in [Handles -> HandleType] /\ hd[h] \in HandleType /\ hd[h].len \in Nat /\ hd[h].len <= hd[h].cap
      /\ hd[h].off + hd[h].cap <= MaxCap /\ hd[h].cap \in Nat /\ hd[h].off \in Nat
  BY <1>2, ViewFacts, ViewBound DEF IInv, TypeOK
<1>4. n \in Nat /\ n <= hd[h].len /\ n = (IF hd[h].len <= at THEN hd[h].len ELSE at) /\ at \in Nat
      /\ n \in Cap
  BY <1>3, ConstantsAssumption, SMTT(60) DEF Smaller, Cap
<1>5. /\ q \in HandleType /\ q.ty = "mut" /\ q.buf = hd[h].buf /\ q.off = hd[h].off /\ q.len = hd[h].len /\ q.cap = hd[h].cap
  BY <1>2, <1>3, OnSharedFields
<1>6. /\ far \in HandleType /\ far.ty = "mut" /\ far.buf = hd[h].buf /\ far.off = hd[h].off + at
      /\ far.len = IF hd[h].len >= at THEN hd[h].len - at ELSE 0
  <2> HIDE DEF q
  <2>1. at <= q.cap /\ q.off + q.cap <= MaxCap
    BY <1>2, <1>3, <1>5
  <2>2. /\ far \in HandleType /\ far.ty = q.ty /\ far.buf = q.buf /\ far.off = q.off + at
        /\ far.len = IF q.len >= at THEN q.len - at ELSE 0
    BY <1>5, <2>1, AdvancedFields
  <2> HIDE DEF far
  <2> QED BY <1>5, <2>2
<1>7. /\ near \in HandleType /\ near.ty = "mut" /\ near.buf = hd[h].buf /\ near.off = hd[h].off /\ near.len = n
  <2> HIDE DEF q, n
  <2> QED BY <1>4, <1>5 DEF HandleType
<1>8. hd' = [hd EXCEPT ![h] = near, ![o] = far] \/ hd' = [hd EXCEPT ![h] = far, ![o] = near]
  <2>1. CASE split_off(h, o, at, s)
    BY <2>1, <1>5 DEF split_off
  <2>2. CASE split_to(h, o, at, s)
    <3>1. n = at
      BY <2>2, <1>3, <1>4, SMTT(60) DEF split_to
    <3> HIDE DEF n
    <3> QED BY <2>2, <3>1 DEF split_to
  <2> QED BY <1>1, <2>1, <2>2
<1>9. /\ n + 0 = n /\ far.len = hd[h].len - n /\ hd[h].off = hd[h].off + 0
      /\ far.len = 0 \/ far.off = hd[h].off + n
  <2> HIDE DEF n, far
  <2> QED BY <1>3, <1>4, <1>6, SMTT(60)
<1> HIDE DEF near, far, n
<1>10. \/ hd'[h] = near /\ hd'[o] = far /\ Others(h, o)
       \/ hd'[h] = far /\ hd'[o] = near /\ Others(h, o)
  BY <1>2, <1>3, <1>6, <1>7, <1>8, TwoUpdates DEF Others
<1>11. \/ Gets(h, h, 0, n) /\ Gets(o, h, n, hd[h].len - n)
       \/ Gets(o, h, 0, n) /\ Gets(h, h, n, hd[h].len - n)
  BY <1>2, <1>6, <1>7, <1>9, <1>10 DEF Gets
<1> QED BY <1>2, <1>4, <1>10, <1>11, SplitStep

\* advance, advance_promoting and truncate.
LEMMA EditRefines ==
  ASSUME IInv, NEW h \in Handles, NEW n \in Cap,
         advance(h, n) \/ truncate(h, n) \/ \E s \in Shareds : advance_promoting(h, n, s)
  PROVE  Abstract!Next
<1>1. hd[h].ty = "mut" /\ heap' = heap /\ n <= hd[h].len /\ n \in Nat /\ hd[h].buf # NoBuf
  <2>1. hd[h].ty = "mut" /\ heap' = heap
    BY DEF advance, truncate, advance_promoting, Idle
  <2>2. hd[h].buf # NoBuf
    BY <2>1, MutHasBuf
  <2>3. n <= hd[h].len /\ n \in Nat
    BY <2>2, ViewFacts, SMTT(60) DEF advance, truncate, advance_promoting, Cap
  <2> QED BY <2>1, <2>2, <2>3
<1>2. /\ hd \in [Handles -> HandleType] /\ hd[h] \in HandleType /\ hd[h].len \in Nat /\ hd[h].len <= hd[h].cap
      /\ hd[h].off + hd[h].cap <= MaxCap /\ hd[h].cap \in Nat /\ hd[h].off \in Nat
  BY <1>1, ViewFacts, ViewBound DEF IInv, TypeOK
<1> DEFINE k == hd[h].len - n
<1>3. /\ k \in Nat /\ n + k <= hd[h].len /\ n <= hd[h].cap /\ 0 + n <= hd[h].len /\ hd[h].off + 0 = hd[h].off
      /\ hd[h].len >= n /\ 0 \in Nat
  BY <1>1, <1>2, SMTT(60)
<1>4. CASE truncate(h, n)
  <2> DEFINE r == [hd[h] EXCEPT !.len = n]
  <2>1. r.ty = hd[h].ty /\ r.buf = hd[h].buf /\ r.off = hd[h].off /\ r.len = n
    BY <1>2 DEF HandleType
  <2>2. hd' = [hd EXCEPT ![h] = r]
    BY <1>4 DEF truncate
  <2> HIDE DEF r
  <2>3. hd'[h] = r /\ Others(h, h)
    BY <1>2, <2>2 DEF Others
  <2>4. Gets(h, h, 0, n)
    BY <1>3, <2>1, <2>3 DEF Gets
  <2> QED BY <1>1, <1>3, <2>3, <2>4, NarrowedStep
<1>5. ASSUME NEW q \in HandleType, q.ty = hd[h].ty, q.buf = hd[h].buf, q.off = hd[h].off, q.len = hd[h].len,
             q.cap = hd[h].cap, NEW r, hd' = [hd EXCEPT ![h] = r],
             r = Advanced(q, n) \/ r = [Advanced(q, n) EXCEPT !.pos = hd[h].pos + n]
      PROVE  Abstract!Next
  <2> DEFINE a == Advanced(q, n)
  <2>1. a \in HandleType /\ a.ty = hd[h].ty /\ a.buf = hd[h].buf /\ a.off = hd[h].off + n /\ a.len = k
    <3>1. n <= q.cap /\ q.off + q.cap <= MaxCap
      BY <1>2, <1>3, <1>5
    <3>2. /\ a \in HandleType /\ a.ty = q.ty /\ a.buf = q.buf /\ a.off = q.off + n
          /\ a.len = IF q.len >= n THEN q.len - n ELSE 0
      BY <3>1, AdvancedFields
    <3> HIDE DEF a
    <3> QED BY <1>3, <1>5, <3>2
  <2>2. r = a \/ r = [a EXCEPT !.pos = hd[h].pos + n]
    BY <1>5
  <2> HIDE DEF a, k
  <2>3. r.ty = hd[h].ty /\ r.buf = hd[h].buf /\ r.off = hd[h].off + n /\ r.len = k
    BY <2>1, <2>2 DEF HandleType
  <2>4. hd'[h] = r /\ Others(h, h)
    BY <1>2, <1>5 DEF Others
  <2>5. Gets(h, h, n, k)
    BY <2>3, <2>4 DEF Gets
  <2> QED BY <1>1, <1>3, <2>4, <2>5, NarrowedStep
<1>6. CASE advance(h, n)
  <2> DEFINE a == Advanced(hd[h], n)
             r == [a EXCEPT !.pos = IF IsArc(h) THEN @ ELSE @ + n]
  <2>1. a \in HandleType /\ a.pos = hd[h].pos
    BY <1>1, <1>2, <1>3, AdvancedFields
  <2>2. hd' = [hd EXCEPT ![h] = r]
    BY <1>6 DEF advance
  <2>3. r = a \/ r = [a EXCEPT !.pos = hd[h].pos + n]
    <3> HIDE DEF a
    <3> QED BY <2>1 DEF HandleType
  <2> HIDE DEF r
  <2> QED BY <1>2, <1>5, <2>2, <2>3
<1>7. ASSUME NEW s \in Shareds, advance_promoting(h, n, s) PROVE Abstract!Next
  <2> DEFINE q == OnShared(hd[h], s)
  <2>1. /\ q \in HandleType /\ q.ty = hd[h].ty /\ q.buf = hd[h].buf /\ q.off = hd[h].off /\ q.len = hd[h].len
        /\ q.cap = hd[h].cap
    BY <1>2, OnSharedFields
  <2>2. hd' = [hd EXCEPT ![h] = Advanced(q, n)]
    BY <1>7 DEF advance_promoting
  <2> HIDE DEF q
  <2> QED BY <1>5, <2>1, <2>2
<1> QED BY <1>4, <1>6, <1>7
=============================================================================
