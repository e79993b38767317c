---------------------------- MODULE Bytes_proofs ----------------------------
(***************************************************************************)
(* The layouts, counts and values of Bytes, for any number of handles,     *)
(* allocations, blocks and threads: the remaining actions keep the         *)
(* invariant, and the theorems.                                            *)
(***************************************************************************)
EXTENDS Bytes_lemmas

\* The prover of a leaf that names none, and the seconds it may take.
USE ZenonT(30)

-----------------------------------------------------------------------------
(* Conversions that copy.                                                  *)

\* The copy into v of the handle b, which is gone from H.
LEMMA WithCopyKeepsInv ==
  ASSUME NEW lo, Inv(hd, heap, sh, cl, lo), Defined, NEW h \in Handles, NEW v \in ToVec(hd[h]), Unborrowed(cl, h),
         NEW M, NEW B, Inv([hd EXCEPT ![h] = None], M, B, cl, lo), \A x \in FreshBufs : ~M[x].live
  PROVE  Inv([hd EXCEPT ![h] = CopyOf(hd[h], v)], WithCopy(M, hd[h], v), B, cl, lo)
<1> DEFINE H == [hd EXCEPT ![h] = None]
           w == AsSlice(hd[h])
           b == hd[h]
<1>1. /\ b \in HandleType /\ Good(b, heap, sh, lo) /\ Len(b.val) = b.len
      /\ b.off \in Nat /\ b.len \in Nat /\ b.val \in Seq(Nat)
      /\ b.buf = NoBuf \/ (b.buf \in Bufs /\ heap[b.buf].live)
      /\ heap \in [Bufs -> AllocType] /\ hd \in [Handles -> HandleType]
  BY HandleFacts
<1>2. H[h] = None /\ \A x \in Handles : x # h => H[x] = hd[x]
  <2>1. None \in HandleType
    BY NoneIsGood
  <2> QED BY <1>1, <2>1, UpdateFacts
<1>3. (v = NoBuf /\ b.len = 0) \/ (v \in FreshBufs /\ v \in Bufs)
  BY DEF ToVec, FreshBufs
<1>4. v \in FreshBufs => \A x \in Handles : hd[x].buf # v
  BY FreshUnheld
<1>5. None.buf = NoBuf
  BY SMTT(60) DEF None
<1> HIDE DEF H
<1>6. (v = NoBuf /\ b.len = 0) \/ (v \in Bufs /\ ~M[v].live /\ \A x \in Handles : H[x].buf # v)
  <2>1. CASE v \in FreshBufs /\ v \in Bufs
    <3>1. \A x \in Handles : H[x].buf # v
      <4>1. v # NoBuf
        BY <2>1, BytesAssumption
      <4> QED BY <1>2, <1>4, <1>5, <2>1, <4>1
    <3> QED BY <2>1, <3>1
  <2> QED BY <1>3, <2>1
<1>7. w \in Seq(Nat) /\ Len(w) = b.len
  <2>1. CASE b.buf = NoBuf
    <3>1. w = Sub(StaticBytes, b.off, b.len)
      BY <2>1 DEF AsSlice
    <3>2. b.off + b.len <= Len(StaticBytes) /\ StaticBytes \in Seq(Nat)
      BY <1>1, <2>1, BytesAssumption DEF Good, Fits
    <3> HIDE DEF w, b
    <3> QED BY <1>1, <3>1, <3>2, SubFacts
  <2>2. CASE b.buf # NoBuf
    <3>1. w = Sub(heap[b.buf].bytes, b.off, b.len)
      BY <2>2 DEF AsSlice
    <3>2. b.off + b.len <= Len(heap[b.buf].bytes)
      BY <1>1, <2>2 DEF Good, Fits
    <3>3. heap[b.buf] \in AllocType
      BY <1>1, <2>2
    <3>4. heap[b.buf].bytes \in Seq(Nat)
      BY ONLY <3>3, SMTT(60) DEF AllocType
    <3>5. Sub(heap[b.buf].bytes, b.off, b.len) \in Seq(Nat) /\ Len(Sub(heap[b.buf].bytes, b.off, b.len)) = b.len
      <4> HIDE DEF b
      <4> QED BY <1>1, <3>2, <3>4, SubFacts, SMTT(60)
    <3> QED BY <3>1, <3>5
  <2> QED BY <2>1, <2>2
<1>8. ~lo => w = b.val
  BY <1>1 DEF Good, Shows, AsSlice
<1>9. Inv(H, M, B, cl, lo)
  BY DEF H
<1> HIDE DEF w, b
<1> DEFINE M2 == IF v = NoBuf THEN M ELSE [M EXCEPT ![v] = Allocated(w)]
<1>10. Inv([H EXCEPT ![h] = CopyOf(b, v)], M2, B, cl, lo)
  BY <1>1, <1>2, <1>6, <1>7, <1>8, <1>9, CopyKeepsInv
<1>11. [H EXCEPT ![h] = CopyOf(b, v)] = [hd EXCEPT ![h] = CopyOf(b, v)]
  BY <1>1, ExceptTwice DEF H
<1>12. M2 = WithCopy(M, b, v)
  BY DEF WithCopy, w, b
<1> HIDE DEF M2
<1> QED BY <1>10, <1>11, <1>12 DEF b

\* static_to_vec, static_to_mut copy the bytes.
LEMMA StaticToVecKeepsInv ==
  ASSUME NEW lo, Inv(hd, heap, sh, cl, lo), NEW h \in Handles, NEW v \in Bufs \cup {NoBuf}, static_to_vec(h, v)
  PROVE  Inv(hd', heap', sh', cl', lo)
<1>1. /\ Mine(h) /\ hd[h].vt = "static" /\ v \in ToVec(hd[h]) /\ sh' = sh /\ cl' = cl
      /\ hd' = [hd EXCEPT ![h] = CopyOf(hd[h], v)] /\ heap' = WithCopy(heap, hd[h], v)
  BY DEF static_to_vec
<1>2. Defined /\ Unborrowed(cl, h)
  BY <1>1, MineFacts
<1>3. hd[h].buf = NoBuf /\ hd[h].sh = NoShared
  BY <1>1, <1>2, HandleFacts DEF Good, Kind
<1>4. Inv([hd EXCEPT ![h] = None], heap, sh, cl, lo)
  <2>1. None.buf = NoBuf /\ None.sh = NoShared
    BY SMTT(60) DEF None
  <2>2. None.buf = hd[h].buf /\ None.sh = hd[h].sh /\ MayBe(cl, h, None)
    BY <1>2, <1>3, <2>1 DEF MayBe
  <2>3. None \in HandleType /\ Good(None, heap, sh, lo)
    BY NoneIsGood
  <2> QED BY <2>2, <2>3, ViewKeepsInv
<1>5. \A x \in FreshBufs : ~heap[x].live
  BY DEF FreshBufs
<1>6. Inv([hd EXCEPT ![h] = CopyOf(hd[h], v)], WithCopy(heap, hd[h], v), sh, cl, lo)
  BY <1>1, <1>2, <1>4, <1>5, WithCopyKeepsInv
<1> QED BY <1>1, <1>6

\* A handle that holds an allocation goes and its reference stays.
LEMMA ForgottenKeepsInv ==
  ASSUME NEW lo, Inv(hd, heap, sh, cl, lo), Defined, NEW h \in Handles, Unborrowed(cl, h), hd[h].buf # NoBuf
  PROVE  Inv([hd EXCEPT ![h] = None], Forgotten(hd[h]).heap, Forgotten(hd[h]).sh, cl, lo)
<1> DEFINE f == Forgotten(hd[h])
<1>1. CASE hd[h].sh # NoShared
  <2>1. f.sh = [sh EXCEPT ![hd[h].sh].kept = @ + 1] /\ f.heap = heap
    BY <1>1, SMTT(60) DEF Forgotten, Counted
  <2>2. hd[h].sh \in Shareds /\ sh[hd[h].sh].live
    BY <1>1, HandleFacts
  <2> HIDE DEF f
  <2>3. Inv([hd EXCEPT ![h] = None], heap, [sh EXCEPT ![hd[h].sh].kept = @ + 1], cl, lo)
    BY <2>2, ForgetKeepsInv
  <2> QED BY <2>1, <2>3 DEF f
<1>2. CASE hd[h].sh = NoShared
  <2>1. f.sh = sh /\ f.heap = [heap EXCEPT ![hd[h].buf].kept = TRUE]
    BY <1>2, SMTT(60) DEF Forgotten, Counted
  <2> HIDE DEF f
  <2>2. Inv([hd EXCEPT ![h] = None], [heap EXCEPT ![hd[h].buf].kept = TRUE], sh, cl, lo)
    BY <1>2, ForgetBoxKeepsInv
  <2> QED BY <2>1, <2>2 DEF f
<1> QED BY <1>1, <1>2

\* owned_to_vec copies the bytes and keeps its reference.
LEMMA OwnedToVecKeepsInv ==
  ASSUME NEW lo, Inv(hd, heap, sh, cl, lo), NEW h \in Handles, NEW v \in Bufs \cup {NoBuf}, owned_to_vec(h, v)
  PROVE  Inv(hd', heap', sh', cl', lo)
<1> DEFINE f == Forgotten(hd[h])
<1>1. /\ Mine(h) /\ hd[h].vt = "owned" /\ v \in ToVec(hd[h]) /\ cl' = cl
      /\ hd' = [hd EXCEPT ![h] = CopyOf(hd[h], v)] /\ heap' = WithCopy(f.heap, hd[h], v) /\ sh' = f.sh
  BY DEF owned_to_vec
<1>2. Defined /\ Unborrowed(cl, h)
  BY <1>1, MineFacts
<1>3. Good(hd[h], heap, sh, lo)
  BY <1>2, HandleFacts
<1>4. hd[h].sh # NoShared /\ hd[h].buf # NoBuf
  BY <1>1, <1>3, SMTT(60) DEF Good, Kind
<1>5. Inv([hd EXCEPT ![h] = None], f.heap, f.sh, cl, lo)
  BY <1>2, <1>4, ForgottenKeepsInv
<1>6. f.heap = heap
  BY <1>4, SMTT(60) DEF Forgotten, Counted
<1>7. \A x \in FreshBufs : ~f.heap[x].live
  BY <1>6 DEF FreshBufs
<1> HIDE DEF f
<1>8. Inv([hd EXCEPT ![h] = CopyOf(hd[h], v)], WithCopy(f.heap, hd[h], v), f.sh, cl, lo)
  BY <1>1, <1>2, <1>5, <1>7, WithCopyKeepsInv
<1> QED BY <1>1, <1>8

\* A failed debug assertion of promotable_to_vec, promotable_to_mut: the handle
\* is in a ManuallyDrop and nobody drops it.
LEMMA AssertsKeepsInv ==
  ASSUME NEW lo, Inv(hd, heap, sh, cl, lo), NEW h \in Handles, promotable_asserts(h)
  PROVE  Inv(hd', heap', sh', cl', lo)
<1>1. /\ Mine(h) /\ hd[h].vt = "promotable" /\ cl' = cl /\ hd' = [hd EXCEPT ![h] = None]
      /\ heap' = Forgotten(hd[h]).heap /\ sh' = Forgotten(hd[h]).sh
  BY DEF promotable_asserts
<1>2. Defined /\ Unborrowed(cl, h)
  BY <1>1, MineFacts
<1>3. hd[h].buf # NoBuf
  BY <1>1, <1>2, HandleFacts DEF Good, Kind
<1>4. Inv([hd EXCEPT ![h] = None], Forgotten(hd[h]).heap, Forgotten(hd[h]).sh, cl, lo)
  BY <1>2, <1>3, ForgottenKeepsInv
<1> QED BY <1>1, <1>4

\* The reference is released and the bytes are copied.
LEMMA ReleasedCopyKeepsInv ==
  ASSUME NEW lo, Inv(hd, heap, sh, cl, lo), Defined, NEW h \in Handles, Unborrowed(cl, h), Counted(hd[h]),
         NEW v \in ToVec(hd[h])
  PROVE  Inv([hd EXCEPT ![h] = CopyOf(hd[h], v)], WithCopy(Released(sh, hd[h].sh).heap, hd[h], v),
             Released(sh, hd[h].sh).sh, cl, lo)
<1> DEFINE r == Released(sh, hd[h].sh)
<1>1. Dropped(hd[h], sh) = r
  BY DEF Dropped
<1>2. Inv([hd EXCEPT ![h] = None], r.heap, r.sh, cl, lo)
  BY <1>1, DropKeepsInv
<1>3. \A x \in FreshBufs : ~r.heap[x].live
  <2>1. heap \in [Bufs -> AllocType]
    BY DEF Inv, Types
  <2>2. ASSUME NEW x \in FreshBufs
        PROVE  ~r.heap[x].live
    <3>1. x \in Bufs /\ ~heap[x].live
      BY DEF FreshBufs
    <3>2. CASE sh[hd[h].sh].ref = 1
      <4>1. r.heap = [heap EXCEPT ![sh[hd[h].sh].buf] = NoAlloc]
        BY <3>2, SMTT(60) DEF Released
      <4>2. ~NoAlloc.live
        BY DEF NoAlloc
      <4> HIDE DEF r
      <4> QED BY <2>1, <3>1, <4>1, <4>2
    <3>3. CASE sh[hd[h].sh].ref # 1
      <4>1. r.heap = heap
        BY <3>3, SMTT(60) DEF Released
      <4> QED BY <3>1, <4>1
    <3> QED BY <3>2, <3>3
  <2> QED BY <2>2
<1> QED BY <1>2, <1>3, WithCopyKeepsInv

\* owned_to_mut copies the bytes and gives its count back.
LEMMA OwnedToMutKeepsInv ==
  ASSUME NEW lo, Inv(hd, heap, sh, cl, lo), NEW h \in Handles, NEW v \in Bufs \cup {NoBuf}, owned_to_mut(h, v)
  PROVE  Inv(hd', heap', sh', cl', lo)
<1> DEFINE r == Released(sh, hd[h].sh)
<1>1. /\ Mine(h) /\ hd[h].vt = "owned" /\ v \in ToVec(hd[h]) /\ cl' = cl
      /\ hd' = [hd EXCEPT ![h] = CopyOf(hd[h], v)] /\ heap' = WithCopy(r.heap, hd[h], v) /\ sh' = r.sh
  BY DEF owned_to_mut
<1>2. Defined /\ Unborrowed(cl, h)
  BY <1>1, MineFacts
<1>3. Good(hd[h], heap, sh, lo)
  BY <1>2, HandleFacts
<1>4. Counted(hd[h])
  BY <1>1, <1>3, SMTT(60) DEF Good, Kind, Counted
<1>5. Inv([hd EXCEPT ![h] = CopyOf(hd[h], v)], WithCopy(r.heap, hd[h], v), r.sh, cl, lo)
  BY <1>1, <1>2, <1>4, ReleasedCopyKeepsInv
<1> QED BY <1>1, <1>5

\* The copy of shared_to_vec and shared_to_mut, and the release that ends it.
LEMMA SharedCopyKeepsInv ==
  ASSUME NEW lo, Inv(hd, heap, sh, cl, lo), NEW h \in Handles, NEW v \in Bufs \cup {NoBuf}, shared_copy(h, v)
  PROVE  Inv(hd', heap', sh', cl', lo)
<1> DEFINE r == Released(sh, hd[h].sh)
<1>1. /\ Defined /\ hd[h].vt = "copying" /\ v \in ToVec(hd[h]) /\ cl' = cl
      /\ hd' = [hd EXCEPT ![h] = CopyOf(hd[h], v)] /\ heap' = WithCopy(r.heap, hd[h], v) /\ sh' = r.sh
  BY DEF shared_copy
<1>2. hd[h].vt # "promotable"
  BY <1>1, SMTT(60)
<1>3. Unborrowed(cl, h) /\ Good(hd[h], heap, sh, lo)
  BY <1>1, <1>2, OnlyPromotableBorrowed, HandleFacts
<1>4. Counted(hd[h])
  BY <1>1, <1>3, SMTT(60) DEF Good, Kind, Counted
<1>5. Inv([hd EXCEPT ![h] = CopyOf(hd[h], v)], WithCopy(r.heap, hd[h], v), r.sh, cl, lo)
  BY <1>1, <1>3, <1>4, ReleasedCopyKeepsInv
<1> QED BY <1>1, <1>5

-----------------------------------------------------------------------------
(* Conversions in place.                                                   *)

\* ptr::copy moves the bytes of the handle to the front.
LEMMA MovedFacts ==
  ASSUME NEW s \in Seq(Nat), NEW off \in Nat, NEW len \in Nat, off + len <= Len(s),
         NEW w, w = [i \in DOMAIN s |-> IF i <= len THEN s[off + i] ELSE s[i]]
  PROVE  w \in Seq(Nat) /\ Len(w) = Len(s) /\ Sub(w, 0, len) = Sub(s, off, len)
<1>1. DOMAIN s = 1 .. Len(s) /\ Len(s) \in Nat
  BY SMTT(60)
<1>2. \A i \in 1 .. Len(s) : (IF i <= len THEN s[off + i] ELSE s[i]) \in Nat
  BY <1>1, SMTT(60)
<1>3. w \in [1 .. Len(s) -> Nat]
  BY <1>1, <1>2, SMTT(60)
<1>4. w \in Seq(Nat) /\ Len(w) = Len(s)
  BY <1>1, <1>3, SMTT(60)
<1>5. 0 \in Nat /\ 0 + len <= Len(w)
  BY <1>4, SMTT(60)
<1>6. /\ Sub(w, 0, len) \in Seq(Nat) /\ Len(Sub(w, 0, len)) = len
      /\ \A i \in 1 .. len : Sub(w, 0, len)[i] = w[0 + i]
  BY <1>4, <1>5, SubFacts
<1>7. /\ Sub(s, off, len) \in Seq(Nat) /\ Len(Sub(s, off, len)) = len
      /\ \A i \in 1 .. len : Sub(s, off, len)[i] = s[off + i]
  BY SubFacts
<1>8. \A i \in 1 .. len : w[0 + i] = s[off + i]
  BY <1>1, SMTT(60)
<1>9. \A i \in 1 .. len : Sub(w, 0, len)[i] = Sub(s, off, len)[i]
  BY <1>6, <1>7, <1>8
<1>10. Sub(w, 0, len) = Sub(s, off, len)
  BY <1>6, <1>7, <1>9, SameSeq
<1> QED BY <1>4, <1>10

\* ptr::copy to the start of the allocation brings the handle's bytes there and
\* keeps the allocation's size.
LEMMA CopiedBackFacts ==
  ASSUME NEW lo, Inv(hd, heap, sh, cl, lo), Defined, NEW h \in Handles, hd[h].buf # NoBuf
  PROVE  \E a \in AllocType :
           /\ CopiedBack(hd[h]) = [heap EXCEPT ![hd[h].buf] = a]
           /\ a.live /\ Len(a.bytes) = Len(heap[hd[h].buf].bytes)
           /\ Sub(a.bytes, 0, hd[h].len) = Sub(heap[hd[h].buf].bytes, hd[h].off, hd[h].len)
<1> DEFINE b == hd[h]
           s == heap[b.buf].bytes
           w == [i \in DOMAIN s |-> IF i <= b.len THEN s[b.off + i] ELSE s[i]]
           a == [heap[b.buf] EXCEPT !.bytes = w]
<1>1. /\ Good(b, heap, sh, lo) /\ b.off \in Nat /\ b.len \in Nat
      /\ b.buf \in Bufs /\ heap[b.buf].live /\ heap \in [Bufs -> AllocType]
  BY HandleFacts
<1>2. CopiedBack(b) = [heap EXCEPT ![b.buf] = a]
  BY DEF CopiedBack
<1>3. b.off + b.len <= Len(s)
  BY <1>1 DEF Good, Fits
<1>4. heap[b.buf] \in AllocType
  BY <1>1
<1>5. s \in Seq(Nat)
  BY <1>4, SMTT(60) DEF AllocType
<1> HIDE DEF b, s
<1>6. w \in Seq(Nat) /\ Len(w) = Len(s) /\ Sub(w, 0, b.len) = Sub(s, b.off, b.len)
  BY <1>1, <1>3, <1>5, MovedFacts
<1> HIDE DEF w
<1>7. a \in AllocType /\ a.live
  BY <1>1, <1>4, <1>6 DEF AllocType
<1>8. a.bytes = w
  BY <1>4, SMTT(60) DEF AllocType
<1> HIDE DEF a
<1>9. a.live /\ Len(a.bytes) = Len(s) /\ Sub(a.bytes, 0, b.len) = Sub(s, b.off, b.len)
  BY <1>6, <1>7, <1>8
<1> QED BY <1>2, <1>7, <1>9 DEF b, s

\* The vector's contents are moved to its front.
LEMMA MovedKeepsInv ==
  ASSUME NEW lo, Inv(hd, heap, sh, cl, lo), Defined, NEW h \in Handles, hd[h].buf # NoBuf, Unborrowed(cl, h),
         NEW B, NEW cap \in Nat, cap = Len(heap[hd[h].buf].bytes),
         Inv([hd EXCEPT ![h] = Vec(hd[h].buf, hd[h].off, hd[h].len, cap, hd[h].val)], heap, B, cl, lo)
  PROVE  Inv([hd EXCEPT ![h] = Vec(hd[h].buf, 0, hd[h].len, cap, hd[h].val)], CopiedBack(hd[h]), B, cl, lo)
<1> DEFINE b == hd[h]
           p == Vec(b.buf, b.off, b.len, cap, b.val)
           q == Vec(b.buf, 0, b.len, cap, b.val)
           H == [hd EXCEPT ![h] = p]
<1>1. /\ Good(b, heap, sh, lo) /\ b.off \in Nat /\ b.len \in Nat /\ b.val \in Seq(Nat) /\ Len(b.val) = b.len
      /\ b.buf \in Bufs /\ heap[b.buf].live /\ heap \in [Bufs -> AllocType] /\ hd \in [Handles -> HandleType]
  BY HandleFacts
<1>2. PICK a \in AllocType :
        /\ CopiedBack(b) = [heap EXCEPT ![b.buf] = a]
        /\ a.live /\ Len(a.bytes) = Len(heap[b.buf].bytes)
        /\ Sub(a.bytes, 0, b.len) = Sub(heap[b.buf].bytes, b.off, b.len)
  BY CopiedBackFacts
<1>3. b.off + b.len <= Len(heap[b.buf].bytes) /\ (~lo => Sub(heap[b.buf].bytes, b.off, b.len) = b.val)
  BY <1>1 DEF Good, Fits, Shows
<1>4. cap = Len(a.bytes)
  BY <1>2
<1>5. Inv(H, heap, B, cl, lo)
  OBVIOUS
<1> HIDE DEF b
<1>6. 0 \in Nat /\ 0 + b.len <= Len(a.bytes)
  BY <1>1, <1>2, <1>3, <1>4, SMTT(60)
<1>7. b.buf \in Bufs \cup {NoBuf}
  BY <1>1
<1>8. IsVec(p, b.buf, b.off, b.len, cap, b.val)
  BY <1>1, <1>7, VecFacts
<1>9. IsVec(q, b.buf, 0, b.len, cap, b.val)
  BY <1>1, <1>6, <1>7, VecFacts
<1> DEFINE M2 == [heap EXCEPT ![b.buf] = a]
<1>10. M2 \in [Bufs -> AllocType] /\ M2[b.buf] = a
  BY <1>1, UpdateFacts
<1> HIDE DEF M2, p, q
<1>11. VecFits(M2, lo, b.buf, 0, b.len, cap, b.val)
  BY <1>1, <1>2, <1>3, <1>4, <1>6, <1>10 DEF VecFits
<1>12. Good(q, M2, B, lo)
  BY <1>1, <1>6, <1>9, <1>10, <1>11, VecIsGood
<1>13. p \in HandleType /\ p.buf = b.buf /\ p.sh = NoShared /\ q \in HandleType /\ q.buf = b.buf /\ q.sh = NoShared
  BY <1>8, <1>9 DEF IsVec
<1>14. H[h] = p
  BY <1>1, <1>13, UpdateFacts
<1> HIDE DEF H
<1>15. H[h].buf = b.buf /\ H[h].buf # NoBuf /\ H[h].sh = NoShared
  BY <1>13, <1>14 DEF b
<1>16. Len(a.bytes) = Len(heap[H[h].buf].bytes) /\ q.buf = H[h].buf /\ Good(q, [heap EXCEPT ![H[h].buf] = a], B, lo)
  BY <1>2, <1>12, <1>13, <1>15 DEF M2
<1>17. Inv([H EXCEPT ![h] = q], [heap EXCEPT ![H[h].buf] = a], B, cl, lo)
  BY <1>2, <1>5, <1>13, <1>15, <1>16, RewriteKeepsInv
<1>18. [H EXCEPT ![h] = q] = [hd EXCEPT ![h] = q]
  BY <1>1, ExceptTwice DEF H
<1>19. Inv([hd EXCEPT ![h] = q], CopiedBack(b), B, cl, lo)
  BY <1>2, <1>15, <1>17, <1>18
<1> QED BY <1>19 DEF b, q

\* The vector takes the allocation of the handle.
LEMMA TakenIsGood ==
  ASSUME NEW lo, Inv(hd, heap, sh, cl, lo), Defined, NEW h \in Handles, hd[h].buf # NoBuf,
         NEW cap \in Nat, cap = Len(heap[hd[h].buf].bytes),
         NEW b, b = Vec(hd[h].buf, hd[h].off, hd[h].len, cap, hd[h].val)
  PROVE  b \in HandleType /\ b.buf = hd[h].buf /\ b.sh = NoShared /\ \A B : Good(b, heap, B, lo)
<1>1. /\ Good(hd[h], heap, sh, lo) /\ Len(hd[h].val) = hd[h].len
      /\ hd[h].off \in Nat /\ hd[h].len \in Nat /\ hd[h].val \in Seq(Nat)
      /\ hd[h].buf \in Bufs /\ heap[hd[h].buf].live /\ heap \in [Bufs -> AllocType]
  BY HandleFacts
<1>2. /\ hd[h].off + hd[h].len <= Len(heap[hd[h].buf].bytes)
      /\ ~lo => Sub(heap[hd[h].buf].bytes, hd[h].off, hd[h].len) = hd[h].val
  BY <1>1 DEF Good, Fits, Shows
<1>3. VecFits(heap, lo, hd[h].buf, hd[h].off, hd[h].len, cap, hd[h].val)
  BY <1>1, <1>2 DEF VecFits
<1>4. hd[h].buf \in Bufs \cup {NoBuf}
  BY <1>1
<1>5. IsVec(b, hd[h].buf, hd[h].off, hd[h].len, cap, hd[h].val)
  BY <1>1, <1>4, VecFacts
<1>6. \A B : Good(b, heap, B, lo)
  BY <1>1, <1>3, <1>5, VecIsGood
<1> QED BY <1>5, <1>6 DEF IsVec

\* promotable_to_vec and promotable_to_mut before a promotion take the
\* allocation over.
LEMMA BoxedInPlaceKeepsInv ==
  ASSUME NEW lo, Inv(hd, heap, sh, cl, lo), NEW h \in Handles, NEW mut \in BOOLEAN, promotable_in_place(h, mut)
  PROVE  Inv(hd', heap', sh', cl', lo)
<1> DEFINE b == hd[h]
           cap == b.off + b.len
           p == Vec(b.buf, b.off, b.len, cap, b.val)
<1>1. /\ Mine(h) /\ b.vt = "promotable" /\ b.sh = NoShared /\ sh' = sh /\ cl' = cl
      /\ hd' = [hd EXCEPT ![h] = Vec(b.buf, IF mut THEN b.off ELSE 0, b.len, cap, b.val)]
      /\ heap' = IF mut THEN heap ELSE CopiedBack(b)
  BY DEF promotable_in_place, Counted
<1>2. Defined /\ Unborrowed(cl, h)
  BY <1>1, MineFacts
<1>3. Good(b, heap, sh, lo) /\ b.off \in Nat /\ b.len \in Nat /\ (b.buf = NoBuf \/ heap[b.buf].live)
  BY <1>2, HandleFacts
<1>4. b.buf # NoBuf
  BY <1>1, <1>3 DEF Good, Kind
<1>5. cap = Len(heap[b.buf].bytes)
  BY <1>1, <1>3, <1>4 DEF Good, Fits
<1>6. cap \in Nat
  BY <1>3, SMTT(60)
<1> HIDE DEF cap
<1>7. p \in HandleType /\ p.buf = b.buf /\ p.sh = NoShared /\ Good(p, heap, sh, lo)
  BY <1>2, <1>4, <1>5, <1>6, TakenIsGood
<1> HIDE DEF p
<1>8. p.sh = b.sh /\ MayBe(cl, h, p)
  BY <1>1, <1>2, <1>7 DEF MayBe
<1>9. Inv([hd EXCEPT ![h] = p], heap, sh, cl, lo)
  BY <1>7, <1>8, ViewKeepsInv
<1>10. CASE mut
  <2>1. hd' = [hd EXCEPT ![h] = p] /\ heap' = heap
    BY <1>1, <1>10 DEF p
  <2> QED BY <1>1, <1>9, <2>1
<1>11. CASE ~mut
  <2>1. hd' = [hd EXCEPT ![h] = Vec(b.buf, 0, b.len, cap, b.val)] /\ heap' = CopiedBack(b)
    BY <1>1, <1>11
  <2>2. Inv([hd EXCEPT ![h] = Vec(b.buf, 0, b.len, cap, b.val)], CopiedBack(b), sh, cl, lo)
    BY <1>2, <1>4, <1>5, <1>6, <1>9, MovedKeepsInv DEF p
  <2> QED BY <1>1, <2>1, <2>2
<1> QED BY <1>10, <1>11

\* A freed block has the type of a block.
LEMMA NoBlockType == NoBlock \in BlockType
BY SMTT(60) DEF NoBlock, BlockType

\* shared_to_vec_impl when the count is one, and shared_to_mut_impl some time after
\* it was: the block is freed and the allocation taken over.
LEMMA SharedInPlaceKeepsInv ==
  ASSUME NEW lo, Inv(hd, heap, sh, cl, lo), NEW h \in Handles, NEW mut \in BOOLEAN, shared_in_place(h, mut)
  PROVE  Inv(hd', heap', sh', cl', lo)
<1> DEFINE b == hd[h]
           s == b.sh
           cap == sh[s].cap
           p == Vec(b.buf, b.off, b.len, cap, b.val)
           B == [sh EXCEPT ![s] = NoBlock]
<1>1. /\ cl' = cl
      /\ hd' = [hd EXCEPT ![h] = Vec(b.buf, IF mut THEN b.off ELSE 0, b.len, cap, b.val)]
      /\ heap' = (IF mut THEN heap ELSE CopiedBack(b)) /\ sh' = B
  BY DEF shared_in_place
<1>2. /\ Defined /\ Unborrowed(cl, h) /\ b.vt \in {"shared", "promotable", "taking"}
      /\ b.vt = "promotable" => s # NoShared
      /\ b.vt # "taking" => sh[s].ref = 1
  <2>1. CASE mut
    <3>1. Defined /\ b.vt = "taking"
      BY <2>1 DEF shared_in_place
    <3>2. b.vt # "promotable"
      BY <3>1, SMTT(60)
    <3> QED BY <3>1, <3>2, OnlyPromotableBorrowed
  <2>2. CASE ~mut
    <3>1. Mine(h) /\ b.vt \in {"shared", "promotable"} /\ s # NoShared /\ sh[s].ref = 1
      BY <2>2 DEF shared_in_place, Counted, Unique
    <3> QED BY <3>1, MineFacts
  <2> QED BY <2>1, <2>2
<1>3. Good(b, heap, sh, lo) /\ (s = NoShared \/ (s \in Shareds /\ sh[s].live)) /\ sh \in [Shareds -> BlockType]
  BY <1>2, HandleFacts
<1>4. s \in Shareds /\ sh[s].live /\ b.buf # NoBuf /\ b.sh # NoShared
  <2>1. Kind(b)
    BY <1>3 DEF Good
  <2>2. b.sh # NoShared
    BY <1>2, <2>1, SMTT(60) DEF Kind
  <2> QED BY <1>3, <2>1, <2>2 DEF Kind
<1>5. sh[s].buf = b.buf /\ (sh[s].owned <=> b.vt = "owned") /\ (b.vt = "taking" => sh[s].ref = 1)
  BY <1>3, <1>4 DEF Good, Linked
<1>6. b.vt # "owned"
  BY <1>2, SMTT(60)
<1>7. ~sh[s].owned /\ sh[s].ref = 1
  BY <1>2, <1>5, <1>6
<1>8. cap = Len(heap[b.buf].bytes)
  BY <1>4, <1>5 DEF Inv, BlockInv
<1>9. cap \in Nat
  <2>1. sh[s] \in BlockType
    BY <1>3, <1>4
  <2> QED BY <2>1, SMTT(60) DEF BlockType
<1> HIDE DEF cap
<1>10. p \in HandleType /\ p.buf = b.buf /\ p.sh = NoShared /\ Good(p, heap, B, lo)
  BY <1>2, <1>4, <1>8, <1>9, TakenIsGood
<1> HIDE DEF p
<1>11. Inv([hd EXCEPT ![h] = p], heap, B, cl, lo)
  BY <1>2, <1>4, <1>7, <1>10, NoBlockType, TakeApartKeepsInv
<1> HIDE DEF B
<1>12. CASE mut
  <2>1. hd' = [hd EXCEPT ![h] = p] /\ heap' = heap
    BY <1>1, <1>12 DEF p
  <2> QED BY <1>1, <1>11, <2>1
<1>13. CASE ~mut
  <2>1. hd' = [hd EXCEPT ![h] = Vec(b.buf, 0, b.len, cap, b.val)] /\ heap' = CopiedBack(b)
    BY <1>1, <1>13
  <2>2. Inv([hd EXCEPT ![h] = Vec(b.buf, 0, b.len, cap, b.val)], CopiedBack(b), B, cl, lo)
    BY <1>2, <1>4, <1>8, <1>9, <1>11, MovedKeepsInv DEF p
  <2> QED BY <1>1, <2>1, <2>2
<1> QED BY <1>12, <1>13

-----------------------------------------------------------------------------
(* Clones of a part.                                                       *)

\* The whole of a handle is a part of it.
LEMMA NarrowsSelf ==
  ASSUME NEW b \in HandleType, Len(b.val) = b.len
  PROVE  Narrows(b, b, 0, b.len)
<1>1. b.val \in Seq(Nat) /\ b.off + 0 = b.off
  BY SMTT(60) DEF HandleType
<1>2. Sub(b.val, 0, b.len) = b.val
  BY <1>1, SubAll
<1> QED BY <1>1, <1>2 DEF Narrows

\* A part of a part is a part: slice moves the start, then sets the length.
LEMMA NarrowsTwice ==
  ASSUME NEW b \in HandleType, NEW c, NEW d, NEW i \in Nat, NEW k \in Nat, NEW m \in Nat,
         Len(b.val) = b.len, i + k <= b.len, m <= k, Narrows(b, c, i, k), Narrows(c, d, 0, m)
  PROVE  Narrows(b, d, i, m)
<1>1. /\ d \in HandleType /\ d.vt = b.vt /\ d.buf = b.buf /\ d.sh = b.sh /\ d.cap = b.cap
      /\ d.off = c.off + 0 /\ c.off = b.off + i /\ d.len = m /\ d.val = Sub(Sub(b.val, i, k), 0, m)
  BY DEF Narrows
<1>2. b.val \in Seq(Nat) /\ b.off \in Nat
  BY SMTT(60) DEF HandleType
<1>3. d.off = b.off + i
  BY <1>1, <1>2, SMTT(60)
<1>4. i + k <= Len(b.val) /\ 0 + m <= k /\ 0 \in Nat /\ i + 0 = i
  BY SMTT(60)
<1>5. Sub(Sub(b.val, i, k), 0, m) = Sub(b.val, i + 0, m)
  BY <1>2, <1>4, SubOfSub, SMTT(60)
<1>6. d.val = Sub(b.val, i, m)
  BY <1>1, <1>4, <1>5
<1> QED BY <1>1, <1>3, <1>6 DEF Narrows

\* What slice, split_off and split_to make of the clone c of h: h shows p and n shows q.
LEMMA CutKeepsInv ==
  ASSUME NEW lo, Inv(hd, heap, sh, cl, lo), Defined, NEW h \in Handles, NEW n \in Handles, n # h, hd[n] = None,
         IsBytes(h), NEW s \in CloneBlocks(hd[h]), NEW c, c = Clone(hd[h], s), c.lost = TRUE => lo = TRUE,
         NEW p, NEW i \in Nat, NEW k \in Nat, i + k <= hd[h].len, Narrows(c.old, p, i, k),
         NEW q, NEW j \in Nat, NEW m \in Nat, j + m <= hd[h].len, Narrows(c.new, q, j, m)
  PROVE  Inv([hd EXCEPT ![h] = p, ![n] = q], heap, c.sh, cl, lo)
<1> DEFINE H1 == [hd EXCEPT ![h] = c.old, ![n] = c.new]
           H2 == [H1 EXCEPT ![h] = p]
<1>1. Inv(H1, heap, c.sh, cl, lo) /\ Cloned(hd[h], c)
  BY CloneKeepsInv
<1>2. hd \in [Handles -> HandleType] /\ (hd[h].buf = NoBuf \/ heap[hd[h].buf].live)
  BY HandleFacts
<1>3. /\ c.old \in HandleType /\ c.new \in HandleType /\ c.old.buf = hd[h].buf /\ c.new.buf = hd[h].buf
      /\ c.old.len = hd[h].len /\ c.new.len = hd[h].len /\ c.old.vt = hd[h].vt
      /\ c.new.vt \in {"static", "owned", "shared"} /\ ~(c.old.vt = "promotable" /\ c.old.sh = NoShared)
  BY <1>1 DEF Cloned
<1>4. hd[h].vt # "none" /\ c.new.vt # "none" /\ c.new.vt # "promotable"
  BY <1>3, SMTT(60) DEF IsBytes
<1>5. H1[h] = c.old /\ H1[n] = c.new
  BY <1>2
<1>6. H1 \in [Handles -> HandleType]
  BY <1>1 DEF Inv, Types
<1>7. p \in HandleType /\ q \in HandleType
  BY DEF Narrows
<1> HIDE DEF H1
<1>8. Inv(H2, heap, c.sh, cl, lo)
  <2>1. /\ H1[h].len = hd[h].len /\ Narrows(H1[h], p, i, k) /\ H1[h].vt # "none"
        /\ ~(H1[h].vt = "promotable" /\ H1[h].sh = NoShared)
        /\ H1[h].buf = NoBuf \/ heap[H1[h].buf].live
    BY <1>2, <1>3, <1>4, <1>5
  <2>2. i + k <= H1[h].len
    BY <2>1
  <2> QED BY <1>1, <2>1, <2>2, NarrowKeepsInv
<1>9. H2[n] = c.new
  BY <1>5, <1>6, <1>7, UpdateFacts
<1> HIDE DEF H2
<1>10. Inv([H2 EXCEPT ![n] = q], heap, c.sh, cl, lo)
  <2>1. /\ H2[n].len = hd[h].len /\ Narrows(H2[n], q, j, m) /\ H2[n].vt # "none"
        /\ ~(H2[n].vt = "promotable" /\ H2[n].sh = NoShared)
        /\ H2[n].buf = NoBuf \/ heap[H2[n].buf].live
    BY <1>2, <1>3, <1>4, <1>9
  <2>2. j + m <= H2[n].len
    BY <2>1
  <2> QED BY <1>8, <2>1, <2>2, NarrowKeepsInv
<1>11. [H2 EXCEPT ![n] = q] = [hd EXCEPT ![h] = p, ![n] = q]
  BY DEF H1, H2
<1> QED BY <1>10, <1>11

\* An empty handle without an allocation at n.
LEMMA EmptyKeepsInv ==
  ASSUME NEW H, NEW M, NEW B, NEW C, NEW lo, Inv(H, M, B, C, lo), NEW n \in Handles, H[n] = None, Unborrowed(C, n)
  PROVE  Inv([H EXCEPT ![n] = Empty], M, B, C, lo)
<1>1. Empty \in HandleType /\ Good(Empty, M, B, lo) /\ Empty.buf = NoBuf /\ Empty.sh = NoShared
  BY EmptyIsGood
<1>2. None.buf = NoBuf /\ None.sh = NoShared
  BY SMTT(60) DEF None
<1>3. Empty.buf = H[n].buf /\ Empty.sh = H[n].sh /\ MayBe(C, n, Empty)
  BY <1>1, <1>2 DEF MayBe
<1> QED BY <1>1, <1>3, ViewKeepsInv

\* Only the promotion changes the handle that is cloned.
LEMMA CloneKeepsOld ==
  ASSUME NEW h \in Handles, IsBytes(h), CloneBlocks(hd[h]) = {NoShared}, NoShared \notin FreshShareds,
         hd[h].vt = "shared" => Counted(hd[h])
  PROVE  Clone(hd[h], NoShared).old = hd[h]
<1> DEFINE b == hd[h]
<1>1. ~(b.vt = "promotable" /\ ~Counted(b))
  <2>1. SUFFICES ASSUME b.vt = "promotable" /\ ~Counted(b) PROVE FALSE
    OBVIOUS
  <2>2. CloneBlocks(b) = FreshShareds
    BY <2>1, SMTT(60) DEF CloneBlocks
  <2> QED BY <2>2
<1> HIDE DEF b
<1>2. b.vt \in {"static", "owned", "promotable", "shared"}
  BY DEF IsBytes, b
<1>3. CASE b.vt = "static"
  <2>1. Clone(b, NoShared) = [old |-> b, new |-> b, sh |-> sh, lost |-> lost]
    BY ONLY <1>3, SMTT(60) DEF Clone
  <2>2. Clone(b, NoShared).old = b
    BY <2>1, SMTT(60)
  <2> QED BY <2>2 DEF b
<1>4. CASE b.vt = "owned"
  <2>1. Clone(b, NoShared) = owned_clone(b)
    BY <1>4, SMTT(60) DEF Clone
  <2>2. Clone(b, NoShared).old = b
    BY <2>1, SMTT(60) DEF owned_clone
  <2> QED BY <2>2 DEF b
<1>5. CASE b.vt \in {"promotable", "shared"} /\ Counted(b)
  <2>1. Clone(b, NoShared) = shallow_clone_arc(b)
    BY <1>5, SMTT(60) DEF Clone
  <2>2. Clone(b, NoShared).old = b
    BY <2>1, SMTT(60) DEF shallow_clone_arc
  <2> QED BY <2>2 DEF b
<1>6. b.vt = "shared" => Counted(b)
  BY DEF b
<1> QED BY <1>1, <1>2, <1>3, <1>4, <1>5, <1>6

\* Writing what is there changes nothing.
LEMMA ExceptSame ==
  ASSUME NEW S, NEW T, NEW f \in [S -> T], NEW a \in S
  PROVE  [f EXCEPT ![a] = f[a]] = f
OBVIOUS

\* A clone that needs no compare-and-swap.
LEMMA CloneActionKeepsInv ==
  ASSUME NEW lo, Inv(hd, heap, sh, cl, lo), NEW h \in Handles, NEW n \in Handles, n # h, clone(h, n),
         lost' = TRUE => lo = TRUE
  PROVE  Inv(hd', heap', sh', cl', lo)
<1> DEFINE c == Clone(hd[h], NoShared)
<1>1. /\ Defined /\ IsBytes(h) /\ hd[n] = None /\ CloneBlocks(hd[h]) = {NoShared}
      /\ hd' = [hd EXCEPT ![n] = c.new] /\ sh' = c.sh /\ heap' = heap /\ cl' = cl /\ (c.lost = TRUE => lo = TRUE)
  BY DEF clone, Free
<1>2. hd \in [Handles -> HandleType] /\ Good(hd[h], heap, sh, lo)
  BY <1>1, HandleFacts
<1>3. NoShared \notin FreshShareds /\ NoShared \in CloneBlocks(hd[h])
  BY <1>1, BytesAssumption DEF FreshShareds
<1>4. hd[h].vt = "shared" => Counted(hd[h])
  BY <1>2, SMTT(60) DEF Good, Kind, Counted
<1>5. c.old = hd[h]
  BY <1>1, <1>3, <1>4, CloneKeepsOld
<1> HIDE DEF c
<1>6. Inv([hd EXCEPT ![h] = c.old, ![n] = c.new], heap, c.sh, cl, lo)
  BY <1>1, <1>3, CloneKeepsInv DEF c
<1>7. [hd EXCEPT ![h] = c.old] = hd
  BY <1>2, <1>5, ExceptSame
<1>8. [hd EXCEPT ![h] = c.old, ![n] = c.new] = [[hd EXCEPT ![h] = c.old] EXCEPT ![n] = c.new]
  OBVIOUS
<1> QED BY <1>1, <1>6, <1>7, <1>8

\* The two handles a clone leaves have the length of the cloned one.
LEMMA ClonedFacts ==
  ASSUME NEW lo, Inv(hd, heap, sh, cl, lo), Defined, NEW h \in Handles, NEW n \in Handles, n # h, hd[n] = None,
         IsBytes(h), NEW s \in CloneBlocks(hd[h]), NEW c, c = Clone(hd[h], s), c.lost = TRUE => lo = TRUE
  PROVE  /\ c.old \in HandleType /\ Len(c.old.val) = c.old.len /\ c.old.len = hd[h].len
         /\ c.new \in HandleType /\ Len(c.new.val) = c.new.len /\ c.new.len = hd[h].len
         /\ hd[h].len \in Nat
<1>1. Cloned(hd[h], c)
  BY CloneKeepsInv
<1>2. Len(hd[h].val) = hd[h].len /\ hd[h].len \in Nat
  BY HandleFacts
<1> QED BY <1>1, <1>2 DEF Cloned

\* slice: a clone narrowed to the range.
LEMMA SliceKeepsInv ==
  ASSUME NEW lo, Inv(hd, heap, sh, cl, lo), NEW h \in Handles, NEW n \in Handles, n # h, NEW s,
         NEW begin \in Lens, NEW end \in Lens, slice(h, n, begin, end, s), lost' = TRUE => lo = TRUE
  PROVE  Inv(hd', heap', sh', cl', lo)
<1>1. /\ Defined /\ IsBytes(h) /\ hd[n] = None /\ begin <= end /\ end <= hd[h].len /\ heap' = heap /\ cl' = cl
      /\ begin \in Nat /\ end \in Nat
  BY BytesAssumption, SMTT(60) DEF slice, Free, Lens
<1>2. CASE begin = end
  <2>1. hd' = [hd EXCEPT ![n] = Empty] /\ sh' = sh
    BY <1>2 DEF slice
  <2>2. Inv([hd EXCEPT ![n] = Empty], heap, sh, cl, lo)
    BY <1>1, FreeUnborrowed, EmptyKeepsInv
  <2> QED BY <1>1, <2>1, <2>2
<1>3. CASE begin # end
  <2> DEFINE c == Clone(hd[h], s)
             e == IncStart(c.new, begin)
             q == Shorten(e, end - begin)
             len == hd[h].len
  <2>1. s \in CloneBlocks(hd[h]) /\ hd' = [hd EXCEPT ![h] = c.old, ![n] = q] /\ sh' = c.sh /\ (c.lost = TRUE => lo = TRUE)
    BY <1>3 DEF slice
  <2>2. /\ c.old \in HandleType /\ Len(c.old.val) = c.old.len /\ c.old.len = len
        /\ c.new \in HandleType /\ Len(c.new.val) = c.new.len /\ c.new.len = len
        /\ len \in Nat
    BY <1>1, <2>1, ClonedFacts
  <2>3. c = Clone(hd[h], s)
    OBVIOUS
  <2> HIDE DEF c, len
  <2>4. /\ begin <= len /\ len - begin \in Nat /\ end - begin \in Nat /\ end - begin <= len - begin
        /\ begin + (len - begin) <= len /\ begin + (end - begin) <= len /\ 0 + len <= len /\ 0 \in Nat
    BY <1>1, <2>2, SMTT(60) DEF len
  <2>5. Narrows(c.new, e, begin, len - begin)
    BY <1>1, <2>2, <2>4, IncStartNarrows
  <2> HIDE DEF e
  <2>6. e \in HandleType /\ e.len = len - begin /\ e.val = Sub(c.new.val, begin, len - begin)
    BY <2>5 DEF Narrows
  <2>7. Len(e.val) = e.len
    <3>1. c.new.val \in Seq(Nat)
      BY ONLY <2>2, SMTT(60) DEF HandleType
    <3>2. begin + (len - begin) <= Len(c.new.val)
      BY <2>2, <2>4
    <3>3. Len(Sub(c.new.val, begin, len - begin)) = len - begin
      BY <1>1, <2>4, <3>1, <3>2, SubFacts
    <3> QED BY <2>6, <3>3
  <2>8. Narrows(e, q, 0, end - begin)
    BY <2>4, <2>6, <2>7, ShortenNarrows
  <2> HIDE DEF q
  <2>9. Narrows(c.new, q, begin, end - begin)
    BY <1>1, <2>2, <2>4, <2>5, <2>8, NarrowsTwice
  <2>10. Narrows(c.old, c.old, 0, len)
    BY <2>2, NarrowsSelf
  <2>11. 0 + len <= hd[h].len /\ begin + (end - begin) <= hd[h].len
    BY <2>4 DEF len
  <2>12. Inv([hd EXCEPT ![h] = c.old, ![n] = q], heap, c.sh, cl, lo)
    BY <1>1, <2>1, <2>2, <2>3, <2>4, <2>9, <2>10, <2>11, CutKeepsInv
  <2> QED BY <1>1, <2>1, <2>12
<1> QED BY <1>2, <1>3

\* slice_ref: the slice of a subset of the handle's own bytes.
LEMMA SliceRefKeepsInv ==
  ASSUME NEW lo, Inv(hd, heap, sh, cl, lo), NEW h \in Handles, NEW n \in Handles, n # h, NEW s,
         NEW begin \in Lens, NEW end \in Lens, slice_ref(h, n, begin, end, s), lost' = TRUE => lo = TRUE
  PROVE  Inv(hd', heap', sh', cl', lo)
<1>1. slice(h, n, begin, end, s)
  BY DEF slice_ref
<1> QED BY <1>1, SliceKeepsInv

\* The handle h moves to n and leaves an empty one.
LEMMA MoveAllKeepsInv ==
  ASSUME NEW lo, Inv(hd, heap, sh, cl, lo), NEW h \in Handles, NEW n \in Handles, n # h, hd[n] = None,
         Unborrowed(cl, h)
  PROVE  Inv([hd EXCEPT ![n] = hd[h], ![h] = Empty], heap, sh, cl, lo)
<1> DEFINE H == [hd EXCEPT ![n] = hd[h], ![h] = None]
<1>1. None \in HandleType /\ hd \in [Handles -> HandleType]
  BY NoneIsGood DEF Inv, Types
<1>2. Inv(H, heap, sh, cl, lo)
  BY <1>1, MoveKeepsInv
<1>3. H[h] = None
  BY <1>1
<1> HIDE DEF H
<1>4. Inv([H EXCEPT ![h] = Empty], heap, sh, cl, lo)
  BY <1>2, <1>3, EmptyKeepsInv
<1>5. [H EXCEPT ![h] = Empty] = [hd EXCEPT ![n] = hd[h], ![h] = Empty]
  BY DEF H
<1> QED BY <1>4, <1>5

\* split_off: the clone starts where the handle now ends.
LEMMA SplitOffKeepsInv ==
  ASSUME NEW lo, Inv(hd, heap, sh, cl, lo), NEW h \in Handles, NEW n \in Handles, n # h, NEW s,
         NEW at \in Lens, split_off(h, n, at, s), lost' = TRUE => lo = TRUE
  PROVE  Inv(hd', heap', sh', cl', lo)
<1>1. /\ Mine(h) /\ hd[n] = None /\ at <= hd[h].len /\ heap' = heap /\ cl' = cl
  BY DEF split_off, Free
<1>2. at \in Nat
  BY BytesAssumption, SMTT(60) DEF Lens
<1>3. Defined /\ Unborrowed(cl, h) /\ IsBytes(h)
  BY <1>1, MineFacts DEF Mine
<1>4. CASE at \in {0, hd[h].len}
  <2>1. sh' = sh
    BY <1>4 DEF split_off
  <2>2. CASE at = hd[h].len
    <3>1. hd' = [hd EXCEPT ![n] = Empty]
      BY <1>4, <2>2 DEF split_off
    <3>2. Inv([hd EXCEPT ![n] = Empty], heap, sh, cl, lo)
      BY <1>1, FreeUnborrowed, EmptyKeepsInv
    <3> QED BY <1>1, <2>1, <3>1, <3>2
  <2>3. CASE at # hd[h].len
    <3>1. hd' = [hd EXCEPT ![n] = hd[h], ![h] = Empty]
      BY <1>4, <2>3 DEF split_off
    <3>2. Inv([hd EXCEPT ![n] = hd[h], ![h] = Empty], heap, sh, cl, lo)
      BY <1>1, <1>3, MoveAllKeepsInv
    <3> QED BY <1>1, <2>1, <3>1, <3>2
  <2> QED BY <2>2, <2>3
<1>5. CASE at \notin {0, hd[h].len}
  <2> DEFINE c == Clone(hd[h], s)
             p == Shorten(c.old, at)
             q == IncStart(c.new, at)
             len == hd[h].len
  <2>1. s \in CloneBlocks(hd[h]) /\ hd' = [hd EXCEPT ![h] = p, ![n] = q] /\ sh' = c.sh /\ (c.lost = TRUE => lo = TRUE)
    BY <1>5 DEF split_off
  <2>2. /\ c.old \in HandleType /\ Len(c.old.val) = c.old.len /\ c.old.len = len
        /\ c.new \in HandleType /\ Len(c.new.val) = c.new.len /\ c.new.len = len
        /\ len \in Nat
    BY <1>1, <1>3, <2>1, ClonedFacts
  <2>3. c = Clone(hd[h], s)
    OBVIOUS
  <2> HIDE DEF c, len
  <2>4. at <= len /\ len - at \in Nat /\ at + (len - at) <= hd[h].len /\ 0 + at <= hd[h].len /\ 0 \in Nat
    BY <1>1, <1>2, <2>2, SMTT(60) DEF len
  <2>5. Narrows(c.old, p, 0, at)
    BY <1>2, <2>2, <2>4, ShortenNarrows
  <2>6. Narrows(c.new, q, at, len - at)
    BY <1>2, <2>2, <2>4, IncStartNarrows
  <2> HIDE DEF p, q
  <2>7. Inv([hd EXCEPT ![h] = p, ![n] = q], heap, c.sh, cl, lo)
    BY <1>1, <1>2, <1>3, <2>1, <2>3, <2>4, <2>5, <2>6, CutKeepsInv
  <2> QED BY <1>1, <2>1, <2>7
<1> QED BY <1>4, <1>5

\* split_to: the handle starts where the clone ends.
LEMMA SplitToKeepsInv ==
  ASSUME NEW lo, Inv(hd, heap, sh, cl, lo), NEW h \in Handles, NEW n \in Handles, n # h, NEW s,
         NEW at \in Lens, split_to(h, n, at, s), lost' = TRUE => lo = TRUE
  PROVE  Inv(hd', heap', sh', cl', lo)
<1>1. /\ Mine(h) /\ hd[n] = None /\ at <= hd[h].len /\ heap' = heap /\ cl' = cl
  BY DEF split_to, Free
<1>2. at \in Nat
  BY BytesAssumption, SMTT(60) DEF Lens
<1>3. Defined /\ Unborrowed(cl, h) /\ IsBytes(h)
  BY <1>1, MineFacts DEF Mine
<1>4. CASE at \in {0, hd[h].len}
  <2>1. sh' = sh
    BY <1>4 DEF split_to
  <2>2. CASE at # hd[h].len
    <3>1. hd' = [hd EXCEPT ![n] = Empty]
      BY <1>4, <2>2 DEF split_to
    <3>2. Inv([hd EXCEPT ![n] = Empty], heap, sh, cl, lo)
      BY <1>1, FreeUnborrowed, EmptyKeepsInv
    <3> QED BY <1>1, <2>1, <3>1, <3>2
  <2>3. CASE at = hd[h].len
    <3>1. hd' = [hd EXCEPT ![n] = hd[h], ![h] = Empty]
      BY <1>4, <2>3 DEF split_to
    <3>2. Inv([hd EXCEPT ![n] = hd[h], ![h] = Empty], heap, sh, cl, lo)
      BY <1>1, <1>3, MoveAllKeepsInv
    <3> QED BY <1>1, <2>1, <3>1, <3>2
  <2> QED BY <2>2, <2>3
<1>5. CASE at \notin {0, hd[h].len}
  <2> DEFINE c == Clone(hd[h], s)
             p == IncStart(c.old, at)
             q == Shorten(c.new, at)
             len == hd[h].len
  <2>1. s \in CloneBlocks(hd[h]) /\ hd' = [hd EXCEPT ![h] = p, ![n] = q] /\ sh' = c.sh /\ (c.lost = TRUE => lo = TRUE)
    BY <1>5 DEF split_to
  <2>2. /\ c.old \in HandleType /\ Len(c.old.val) = c.old.len /\ c.old.len = len
        /\ c.new \in HandleType /\ Len(c.new.val) = c.new.len /\ c.new.len = len
        /\ len \in Nat
    BY <1>1, <1>3, <2>1, ClonedFacts
  <2>3. c = Clone(hd[h], s)
    OBVIOUS
  <2> HIDE DEF c, len
  <2>4. at <= len /\ len - at \in Nat /\ at + (len - at) <= hd[h].len /\ 0 + at <= hd[h].len /\ 0 \in Nat
    BY <1>1, <1>2, <2>2, SMTT(60) DEF len
  <2>5. Narrows(c.old, p, at, len - at)
    BY <1>2, <2>2, <2>4, IncStartNarrows
  <2>6. Narrows(c.new, q, 0, at)
    BY <1>2, <2>2, <2>4, ShortenNarrows
  <2> HIDE DEF p, q
  <2>7. Inv([hd EXCEPT ![h] = p, ![n] = q], heap, c.sh, cl, lo)
    BY <1>1, <1>2, <1>3, <2>1, <2>3, <2>4, <2>5, <2>6, CutKeepsInv
  <2> QED BY <1>1, <2>1, <2>7
<1> QED BY <1>4, <1>5

\* A block of two references that loses one.
LEMMA CountDown ==
  ASSUME NEW buf \in Bufs, NEW cap \in Nat
  PROVE  [Block(buf, cap, 2) EXCEPT !.ref = 1] = Block(buf, cap, 1)
<1> DEFINE b == Block(buf, cap, 2)
           c == [b EXCEPT !.ref = 1]
           k == Block(buf, cap, 1)
<1>1. b \in BlockType /\ b.live /\ b.buf = buf /\ b.cap = cap /\ ~b.owned /\ b.kept = 0
  BY BlockFacts, SMTT(60)
<1>2. k \in BlockType /\ k.live /\ k.buf = buf /\ k.cap = cap /\ k.ref = 1 /\ ~k.owned /\ k.kept = 0
  BY BlockFacts, SMTT(60)
<1> HIDE DEF b, k
<1>3. c \in BlockType
  <2>1. 1 \in Nat
    BY SMTT(60)
  <2> QED BY <1>1, <2>1 DEF BlockType
<1>4. c.buf = b.buf /\ c.cap = b.cap /\ c.ref = 1 /\ c.kept = b.kept
  BY <1>1, SMTT(60) DEF BlockType
<1>5. c.live /\ ~c.owned
  BY <1>1 DEF BlockType
<1> HIDE DEF c
<1>6. (c.live <=> k.live) /\ (c.owned <=> k.owned) /\ c.buf = k.buf /\ c.cap = k.cap /\ c.ref = k.ref /\ c.kept = k.kept
  BY <1>1, <1>2, <1>4, <1>5
<1>7. c = k
  BY ONLY <1>2, <1>3, <1>6, SMTT(60) DEF BlockType
<1> QED BY <1>7 DEF b, c, k

\* truncate: in place, or, for a promotable handle, by dropping what split_off
\* returns.
LEMMA TruncateKeepsInv ==
  ASSUME NEW lo, Inv(hd, heap, sh, cl, lo), NEW h \in Handles, NEW s, NEW len \in Lens, truncate(h, len, s),
         lost' = TRUE => lo = TRUE
  PROVE  Inv(hd', heap', sh', cl', lo)
<1> DEFINE b == hd[h]
           c == Clone(b, s)
<1>1. Mine(h) /\ len < b.len /\ cl' = cl
  BY DEF truncate
<1>2. len \in Nat
  BY BytesAssumption, SMTT(60) DEF Lens
<1>3. Defined /\ Unborrowed(cl, h) /\ b.vt # "none"
  BY <1>1, MineFacts
<1>4. /\ b \in HandleType /\ Good(b, heap, sh, lo) /\ Len(b.val) = b.len /\ b.len \in Nat /\ b.off \in Nat
      /\ b.buf = NoBuf \/ (b.buf \in Bufs /\ heap[b.buf].live)
      /\ b.sh = NoShared \/ (b.sh \in Shareds /\ sh[b.sh].live)
      /\ heap \in [Bufs -> AllocType] /\ sh \in [Shareds -> BlockType] /\ hd \in [Handles -> HandleType]
  BY <1>3, HandleFacts
<1>5. 0 \in Nat /\ len <= b.len /\ 0 + len <= b.len
  BY <1>1, <1>2, <1>4, SMTT(60)
<1>6. CASE b.vt # "promotable"
  <2>1. hd' = [hd EXCEPT ![h] = Shorten(b, len)] /\ heap' = heap /\ sh' = sh
    BY <1>6 DEF truncate
  <2>2. Narrows(b, Shorten(b, len), 0, len)
    BY <1>2, <1>4, <1>5, ShortenNarrows
  <2> DEFINE p == Shorten(b, len)
  <2> HIDE DEF p
  <2>3. Narrows(hd[h], p, 0, len)
    BY <2>2 DEF p
  <2>4. Inv([hd EXCEPT ![h] = p], heap, sh, cl, lo)
    BY <1>2, <1>3, <1>4, <1>5, <1>6, <2>3, NarrowKeepsInv
  <2> QED BY <1>1, <2>1, <2>4 DEF p
<1>7. CASE b.vt = "promotable" /\ len = 0
  <2> DEFINE H == [hd EXCEPT ![h] = None]
             M == Dropped(b, sh).heap
             B == Dropped(b, sh).sh
  <2>1. hd' = [hd EXCEPT ![h] = Empty] /\ heap' = M /\ sh' = B
    BY <1>2, <1>7, SMTT(60) DEF truncate
  <2>2. Inv(H, M, B, cl, lo)
    BY <1>3, DropKeepsInv
  <2>3. H[h] = None
    BY <1>4
  <2> HIDE DEF H, M, B
  <2>4. Inv([H EXCEPT ![h] = Empty], M, B, cl, lo)
    BY <1>3, <2>2, <2>3, EmptyKeepsInv
  <2>5. [H EXCEPT ![h] = Empty] = [hd EXCEPT ![h] = Empty]
    BY <1>4, ExceptTwice DEF H
  <2> QED BY <1>1, <2>1, <2>4, <2>5
<1>8. CASE b.vt = "promotable" /\ len > 0
  <2>1. /\ s \in CloneBlocks(b) /\ hd' = [hd EXCEPT ![h] = Shorten(c.old, len)]
        /\ heap' = Dropped(c.new, c.sh).heap /\ sh' = Dropped(c.new, c.sh).sh /\ (c.lost = TRUE => lo = TRUE)
    BY <1>2, <1>8, SMTT(60) DEF truncate
  <2>2. CASE b.sh = NoShared
    <3> DEFINE p == [b EXCEPT !.sh = s]
               k == Block(b.buf, b.off + b.len, 1)
               H == [hd EXCEPT ![h] = p]
               B == [sh EXCEPT ![s] = k]
    <3>1. ~Counted(b)
      BY <2>2 DEF Counted
    <3>2. s \in FreshShareds
      BY <1>8, <2>1, <3>1, SMTT(60) DEF CloneBlocks
    <3>3. c = shallow_clone_vec(b, s)
      BY <1>8, <3>1, SMTT(60) DEF Clone
    <3>4. /\ Inv(H, heap, B, cl, lo)
          /\ p \in HandleType /\ p.vt = "promotable" /\ p.buf = b.buf /\ p.sh = s
          /\ p.len = b.len /\ p.val = b.val
      BY <1>3, <1>8, <2>2, <3>2, PromoteKeepsInv
    <3>5. s \in Shareds /\ s # NoShared
      BY <3>2, BytesAssumption DEF FreshShareds
    <3>6. c.old = p /\ c.new.sh = s /\ c.sh = [sh EXCEPT ![s] = Block(b.buf, b.off + b.len, 2)]
      <4>1. c = [old |-> p, new |-> [p EXCEPT !.vt = "shared"],
                 sh |-> [sh EXCEPT ![s] = Block(b.buf, b.off + b.len, 2)], lost |-> lost]
        BY <3>3 DEF shallow_clone_vec
      <4> DEFINE B2 == [sh EXCEPT ![s] = Block(b.buf, b.off + b.len, 2)]
                 q == [p EXCEPT !.vt = "shared"]
      <4>2. q.sh = p.sh
        <5> HIDE DEF p
        <5> QED BY <3>4, SMTT(60) DEF HandleType
      <4>3. c = [old |-> p, new |-> q, sh |-> B2, lost |-> lost]
        BY <4>1
      <4> HIDE DEF c, p, q, B2
      <4>4. c.old = p /\ c.new = q /\ c.sh = B2
        BY ONLY <4>3, SMTT(60)
      <4> QED BY <3>4, <4>2, <4>4 DEF B2
    <3>7. Dropped(c.new, c.sh).heap = heap /\ Dropped(c.new, c.sh).sh = B
      <4> DEFINE B2 == [sh EXCEPT ![s] = Block(b.buf, b.off + b.len, 2)]
                 r == [B2 EXCEPT ![s].ref = @ - 1]
      <4>1. Dropped(c.new, c.sh) = Released(B2, s)
        BY <3>5, <3>6 DEF Dropped, Counted
      <4>2. B2[s] = Block(b.buf, b.off + b.len, 2)
        BY <1>4, <3>5
      <4>3. B2[s].ref = 2
        BY <4>2, SMTT(60) DEF Block
      <4> HIDE DEF B2
      <4>4. Released(B2, s) = [sh |-> r, heap |-> heap]
        BY <4>3, SMTT(60) DEF Released
      <4>5. r = [B2 EXCEPT ![s] = [B2[s] EXCEPT !.ref = B2[s].ref - 1]]
        OBVIOUS
      <4>6. [B2[s] EXCEPT !.ref = B2[s].ref - 1] = k
        <5>1. B2[s].ref - 1 = 1
          BY <4>3, SMTT(60)
        <5>2. [Block(b.buf, b.off + b.len, 2) EXCEPT !.ref = 1] = k
          <6>1. b.buf # NoBuf
            BY <1>4, <1>8 DEF Good, Kind
          <6>2. b.buf \in Bufs /\ b.off + b.len \in Nat
            BY <1>4, <6>1, SMTT(60)
          <6> QED BY <6>2, CountDown
        <5> QED BY <4>2, <5>1, <5>2
      <4>7. r = [B2 EXCEPT ![s] = k]
        BY <4>5, <4>6
      <4>8. r = B
        BY <1>4, <4>7, ExceptTwice DEF B2
      <4> HIDE DEF r, B
      <4> QED BY <4>1, <4>4, <4>8, SMTT(60)
    <3>8. H[h] = p
      <4> HIDE DEF p
      <4>1. hd \in [Handles -> HandleType]
        BY <1>4
      <4> QED BY ONLY <4>1, h \in Handles DEF H
    <3> HIDE DEF c, b, p, H, B
    <3> DEFINE q == Shorten(p, len)
    <3>9. Narrows(p, q, 0, len)
      BY <1>2, <1>4, <1>5, <3>4, ShortenNarrows
    <3> HIDE DEF q
    <3>10. /\ Narrows(H[h], q, 0, len) /\ 0 + len <= H[h].len /\ H[h].vt # "none"
           /\ H[h].buf = NoBuf \/ heap[H[h].buf].live
      BY <1>3, <1>4, <1>5, <1>8, <3>4, <3>8, <3>9
    <3>11. ~(H[h].vt = "promotable" /\ H[h].sh = NoShared)
      BY <3>4, <3>5, <3>8
    <3>12. Inv([H EXCEPT ![h] = q], heap, B, cl, lo)
      BY <1>2, <1>5, <3>4, <3>10, <3>11, NarrowKeepsInv
    <3>13. [H EXCEPT ![h] = q] = [hd EXCEPT ![h] = q]
      BY <1>4, ExceptTwice DEF H
    <3>14. hd' = [hd EXCEPT ![h] = q] /\ heap' = heap /\ sh' = B
      BY <2>1, <3>6, <3>7 DEF q
    <3> QED BY <1>1, <3>12, <3>13, <3>14
  <2>3. CASE b.sh # NoShared
    <3> DEFINE r == Released(sh, b.sh)
               q == Shorten(b, len)
    <3>1. Counted(b)
      BY <2>3 DEF Counted
    <3>2. c = shallow_clone_arc(b)
      BY <1>8, <3>1, SMTT(60) DEF Clone
    <3>3. c.lost = TRUE
      BY <3>2, SMTT(60) DEF shallow_clone_arc
    <3>4. lo
      BY <2>1, <3>3
    <3>6. c.old = b /\ c.sh = sh /\ c.new.sh = b.sh
      <4> DEFINE p == [b EXCEPT !.vt = "shared"]
      <4>1. c = [old |-> b, new |-> p, sh |-> sh, lost |-> TRUE]
        BY <3>2 DEF shallow_clone_arc
      <4> HIDE DEF c, b
      <4>2. p.sh = b.sh
        BY <1>4, SMTT(60) DEF HandleType
      <4> HIDE DEF p
      <4>3. c.old = b /\ c.new = p /\ c.sh = sh
        BY <4>1, SMTT(60)
      <4> QED BY <4>2, <4>3
    <3>7. Dropped(c.new, c.sh) = r
      BY <2>3, <3>6 DEF Dropped, Counted
    <3> HIDE DEF c
    <3>8. Narrows(b, q, 0, len)
      BY <1>2, <1>4, <1>5, ShortenNarrows
    <3> HIDE DEF q
    <3>9. Leaves(hd, hd, cl, h, lo)
      BY <3>4 DEF Leaves
    <3>10. b.sh \in Shareds /\ sh[b.sh].live
      BY <1>4, <2>3
    <3>11. Inv(hd, r.heap, r.sh, cl, lo)
      <4>1. CASE sh[b.sh].ref = 1
        <5>1. r.sh = [sh EXCEPT ![b.sh] = NoBlock] /\ r.heap = [heap EXCEPT ![sh[b.sh].buf] = NoAlloc]
          BY <4>1, SMTT(60) DEF Released
        <5> HIDE DEF r
        <5>2. Inv(hd, [heap EXCEPT ![sh[b.sh].buf] = NoAlloc], [sh EXCEPT ![b.sh] = NoBlock], cl, lo)
          BY <3>9, <3>10, <4>1, LastReleaseKeepsInv
        <5> QED BY <5>1, <5>2
      <4>2. CASE sh[b.sh].ref # 1
        <5>1. r.sh = [sh EXCEPT ![b.sh].ref = @ - 1] /\ r.heap = heap
          BY <4>2, SMTT(60) DEF Released
        <5> HIDE DEF r
        <5>2. Inv(hd, heap, [sh EXCEPT ![b.sh].ref = @ - 1], cl, lo)
          BY <3>9, <3>10, <4>2, ReleaseKeepsInv
        <5> QED BY <5>1, <5>2
      <4> QED BY <4>1, <4>2
    <3> HIDE DEF r
    <3>12. Narrows(hd[h], q, 0, len) /\ 0 + len <= hd[h].len /\ hd[h].vt # "none" /\ hd[h].sh # NoShared
      BY <1>3, <1>5, <2>3, <3>8
    <3>13. Inv([hd EXCEPT ![h] = q], r.heap, r.sh, cl, lo)
      BY <1>2, <1>5, <3>4, <3>11, <3>12, NarrowKeepsInv
    <3>14. hd' = [hd EXCEPT ![h] = q] /\ heap' = r.heap /\ sh' = r.sh
      BY <2>1, <3>6, <3>7 DEF q
    <3> QED BY <1>1, <3>13, <3>14
  <2> QED BY <2>2, <2>3
<1> QED BY <1>2, <1>6, <1>7, <1>8, SMTT(60)

-----------------------------------------------------------------------------
(* Concurrent clones of a promotable handle.                               *)

\* The clones in progress: C2 differs from C at t, which clones a promotable handle or none.
LEMMA ClonesKeepInv ==
  ASSUME NEW H, NEW M, NEW B, NEW C, NEW lo, Inv(H, M, B, C, lo), NEW t \in Threads,
         NEW d \in {Idle} \cup [h : Handles], d # Idle => H[d.h].vt = "promotable"
  PROVE  Inv(H, M, B, [C EXCEPT ![t] = d], lo)
<1> DEFINE D == [C EXCEPT ![t] = d]
<1>1. Types(H, M, B, C) /\ CloneInv(H, C)
  BY DEF Inv
<1>2. /\ D \in [Threads -> {Idle} \cup [h : Handles]] /\ D[t] = d
      /\ \A u \in Threads : u # t => D[u] = C[u]
  <2>1. C \in [Threads -> {Idle} \cup [h : Handles]]
    BY <1>1 DEF Types
  <2> QED BY <2>1, UpdateFacts
<1> HIDE DEF D
<1>3. CloneInv(H, D)
  BY <1>1, <1>2 DEF CloneInv
<1>4. Types(H, M, B, D)
  BY <1>1, <1>2 DEF Types
<1> QED BY <1>3, <1>4 DEF Inv, D

\* A thread has read the pointer of a promotable handle and goes on to clone.
LEMMA CloneBeginKeepsInv ==
  ASSUME NEW lo, Inv(hd, heap, sh, cl, lo), NEW t \in Threads, NEW h \in Handles, clone_begin(t, h)
  PROVE  Inv(hd', heap', sh', cl', lo)
<1> DEFINE d == [h |-> h]
<1>1. /\ hd[h].vt = "promotable" /\ cl' = [cl EXCEPT ![t] = d] /\ hd' = hd /\ heap' = heap /\ sh' = sh
  BY DEF clone_begin
<1>2. d \in [h : Handles] /\ d.h = h
  BY SMTT(60)
<1> HIDE DEF d
<1>3. d \in {Idle} \cup [h : Handles] /\ hd[d.h].vt = "promotable"
  BY <1>1, <1>2
<1>4. Inv(hd, heap, sh, [cl EXCEPT ![t] = d], lo)
  BY <1>3, ClonesKeepInv
<1> QED BY <1>1, <1>4

\* The compare-and-swap of shallow_clone_vec: it promotes the handle, or finds
\* it promoted and discards the block it made.
LEMMA CloneFinishKeepsInv ==
  ASSUME NEW lo, Inv(hd, heap, sh, cl, lo), NEW t \in Threads, NEW n \in Handles, NEW s \in Shareds,
         clone_finish(t, n, s), lost' = TRUE => lo = TRUE
  PROVE  Inv(hd', heap', sh', cl', lo)
<1> DEFINE h == cl[t].h
           c == IF Counted(hd[h]) THEN shallow_clone_arc(hd[h]) ELSE shallow_clone_vec(hd[h], s)
           H == [hd EXCEPT ![h] = c.old, ![n] = c.new]
<1>1. /\ Defined /\ cl[t] # Idle /\ hd[n] = None /\ s \in FreshShareds /\ hd' = H /\ sh' = c.sh /\ lost' = c.lost
      /\ cl' = [cl EXCEPT ![t] = Idle] /\ heap' = heap
  BY DEF clone_finish, Free
<1>2. hd[h].vt = "promotable" /\ cl[t] \in [h : Handles]
  BY <1>1 DEF Inv, Types, CloneInv
<1>3. h \in Handles
  BY <1>2, SMTT(60)
<1>4. None.vt = "none"
  BY SMTT(60) DEF None
<1>5. n # h
  <2>1. None.vt # "promotable"
    BY <1>4, SMTT(60)
  <2> QED BY <1>1, <1>2, <2>1
<1>6. hd \in [Handles -> HandleType]
  BY DEF Inv, Types
<1> HIDE DEF h
<1>7. Inv(H, heap, c.sh, cl, lo)
  <2>1. CASE Counted(hd[h])
    <3>1. hd[h].vt \in {"promotable", "shared"} /\ hd[h].sh # NoShared
      BY <1>2, <2>1 DEF Counted
    <3>2. lo = TRUE
      <4>1. c = shallow_clone_arc(hd[h])
        BY <2>1
      <4>2. c.lost = TRUE
        BY <4>1, SMTT(60) DEF shallow_clone_arc
      <4> QED BY <1>1, <4>2
    <3>3. Inv([hd EXCEPT ![n] = [hd[h] EXCEPT !.vt = "shared"]], heap, sh, cl, lo)
      <4>1. Inv(hd, heap, sh, cl, TRUE)
        BY <3>2
      <4>2. Inv([hd EXCEPT ![n] = [hd[h] EXCEPT !.vt = "shared"]], heap, sh, cl, TRUE)
        BY <1>1, <1>3, <1>5, <3>1, <4>1, CloneCounted
      <4> QED BY <3>2, <4>2
    <3> DEFINE q == [hd[h] EXCEPT !.vt = "shared"]
    <3>4. c = [old |-> hd[h], new |-> q, sh |-> sh, lost |-> TRUE]
      BY <2>1 DEF shallow_clone_arc
    <3> HIDE DEF c, q
    <3>5. c.old = hd[h] /\ c.new = q /\ c.sh = sh
      BY <3>4, SMTT(60)
    <3>6. [hd EXCEPT ![h] = hd[h]] = hd
      BY <1>3, <1>6, ExceptSame
    <3>7. H = [[hd EXCEPT ![h] = hd[h]] EXCEPT ![n] = q]
      BY <3>5
    <3> HIDE DEF H
    <3> QED BY <3>3, <3>5, <3>6, <3>7 DEF q
  <2>2. CASE ~Counted(hd[h])
    <3>1. c = shallow_clone_vec(hd[h], s) /\ hd[h].sh = NoShared
      BY <2>2 DEF Counted
    <3> HIDE DEF c
    <3> QED BY <1>1, <1>2, <1>3, <1>5, <3>1, ClonePromoted
  <2> QED BY <2>1, <2>2
<1> HIDE DEF H, c
<1>8. Idle \in {Idle} \cup [h : Handles] /\ ~(Idle # Idle)
  OBVIOUS
<1>9. Inv(H, heap, c.sh, [cl EXCEPT ![t] = Idle], lo)
  BY <1>7, <1>8, ClonesKeepInv
<1> QED BY <1>1, <1>9

-----------------------------------------------------------------------------
(* The theorems.                                                           *)

\* The invariant holds before the first handle is made.
LEMMA InitInv == Init => IInv
<1>1. SUFFICES ASSUME Init PROVE IInv
  OBVIOUS
<1>2. /\ \A h \in Handles : hd[h] = None
      /\ \A b \in Bufs : heap[b] = NoAlloc
      /\ \A s \in Shareds : sh[s] = NoBlock
      /\ \A t \in Threads : cl[t] = Idle
  BY <1>1 DEF Init
<1>3. NoAlloc \in AllocType /\ NoBlock \in BlockType /\ None \in HandleType
  <2>1. NoAlloc \in AllocType
    BY SMTT(60) DEF NoAlloc, AllocType
  <2> QED BY <2>1, NoBlockType, NoneIsGood
<1>4. ~NoAlloc.live /\ ~NoBlock.live
  BY DEF NoAlloc, NoBlock
<1>5. None.buf = NoBuf /\ None.sh = NoShared
  BY SMTT(60) DEF None
<1>6. Types(hd, heap, sh, cl)
  BY <1>1, <1>3 DEF Init, Types
<1>7. HandleInv(hd, heap, sh, lost)
  BY <1>2, NoneIsGood DEF HandleInv
<1>8. BlockInv(heap, sh)
  BY <1>2, <1>4 DEF BlockInv
<1>9. OwnerInv(hd, sh)
  BY <1>2, <1>4, <1>5 DEF OwnerInv
<1>10. CountInv(hd, sh, lost)
  <2>1. \A s \in Shareds : HoldersIn(hd, s) = {}
    BY <1>2, <1>5, BytesAssumption DEF HoldersIn
  <2> QED BY <1>2, <1>4, <2>1 DEF CountInv
<1>11. LeakInv(hd, heap, sh, lost)
  BY <1>2, <1>4 DEF LeakInv
<1>12. CloneInv(hd, cl)
  BY <1>2 DEF CloneInv
<1>13. lost \in BOOLEAN
  BY <1>1 DEF Init
<1> QED BY <1>6, <1>7, <1>8, <1>9, <1>10, <1>11, <1>12, <1>13 DEF IInv, Inv

\* What a clone may do to lost.
LosesBy(c) == c.lost = lost \/ c.lost = TRUE

\* Clone (bytes.rs:331) loses a count for good, or nothing.
LEMMA CloneLoses ==
  ASSUME NEW h, NEW s, IsBytes(h), Kind(hd[h])
  PROVE  LosesBy(Clone(hd[h], s))
<1> DEFINE b == hd[h]
<1> SUFFICES Clone(b, s).lost = lost \/ Clone(b, s).lost = TRUE
  BY DEF LosesBy
<1>0. b.vt \in {"static", "owned", "promotable", "shared"} /\ (b.vt = "shared" => Counted(b))
  BY SMTT(60) DEF IsBytes, Kind, Counted
<1>1. CASE b.vt = "static"
  BY <1>1, SMTT(60) DEF Clone
<1>2. CASE b.vt = "owned"
  <2>1. Clone(b, s) = owned_clone(b)
    BY <1>2, SMTT(60) DEF Clone
  <2> QED BY <2>1, SMTT(60) DEF owned_clone
<1>3. CASE b.vt = "promotable" /\ ~Counted(b)
  <2>1. Clone(b, s) = shallow_clone_vec(b, s)
    BY <1>3, SMTT(60) DEF Clone
  <2> QED BY <2>1, SMTT(60) DEF shallow_clone_vec
<1>4. CASE b.vt \in {"promotable", "shared"} /\ Counted(b)
  <2>1. Clone(b, s) = shallow_clone_arc(b)
    BY <1>4, SMTT(60) DEF Clone
  <2> QED BY <2>1, SMTT(60) DEF shallow_clone_arc
<1> QED BY <1>0, <1>1, <1>2, <1>3, <1>4

\* What a step may do to lost.
Loses == lost' = lost \/ lost' = TRUE

\* The calls that need no other handle keep the invariant.
LEMMA AloneKeepsInv ==
  ASSUME NEW lo, Inv(hd, heap, sh, cl, lo), NEW h \in Handles, Alone(h), lost' = TRUE => lo = TRUE
  PROVE  Inv(hd', heap', sh', cl', lo)
<1>1. CASE drop(h)
  BY <1>1, DropActionKeepsInv
<1>2. CASE shared_unique(h)
  BY <1>2, UniqueKeepsInv
<1>3. CASE shared_not_unique(h)
  BY <1>3, NotUniqueKeepsInv
<1>4. CASE promotable_asserts(h)
  BY <1>4, AssertsKeepsInv
<1>5. CASE promoted_to_mut(h)
  BY <1>5 DEF promoted_to_mut
<1>6. ASSUME NEW cnt \in Lens, advance(h, cnt)
      PROVE  Inv(hd', heap', sh', cl', lo)
  BY <1>6, AdvanceKeepsInv
<1>7. ASSUME NEW s \in Blocks, NEW len \in Lens, truncate(h, len, s)
      PROVE  Inv(hd', heap', sh', cl', lo)
  BY <1>7, TruncateKeepsInv
<1>8. ASSUME NEW v \in Bufs \cup {NoBuf}, static_to_vec(h, v)
      PROVE  Inv(hd', heap', sh', cl', lo)
  BY <1>8, StaticToVecKeepsInv
<1>9. ASSUME NEW v \in Bufs \cup {NoBuf}, owned_to_vec(h, v)
      PROVE  Inv(hd', heap', sh', cl', lo)
  BY <1>9, OwnedToVecKeepsInv
<1>10. ASSUME NEW v \in Bufs \cup {NoBuf}, owned_to_mut(h, v)
       PROVE  Inv(hd', heap', sh', cl', lo)
  BY <1>10, OwnedToMutKeepsInv
<1>11. ASSUME NEW v \in Bufs \cup {NoBuf}, shared_copy(h, v)
       PROVE  Inv(hd', heap', sh', cl', lo)
  BY <1>11, SharedCopyKeepsInv
<1>12. ASSUME NEW mut \in BOOLEAN, promotable_in_place(h, mut)
       PROVE  Inv(hd', heap', sh', cl', lo)
  BY <1>12, BoxedInPlaceKeepsInv
<1>13. ASSUME NEW mut \in BOOLEAN, shared_in_place(h, mut)
       PROVE  Inv(hd', heap', sh', cl', lo)
  BY <1>13, SharedInPlaceKeepsInv
<1> QED BY <1>1, <1>2, <1>3, <1>4, <1>5, <1>6, <1>7, <1>8, <1>9, <1>10, <1>11, <1>12, <1>13 DEF Alone

\* Of them only truncate of a promoted handle, which clones it, loses a count.
LEMMA AloneLoses ==
  ASSUME NEW lo, Inv(hd, heap, sh, cl, lo), NEW h \in Handles, Alone(h)
  PROVE  Loses
<1>1. ASSUME NEW s \in Blocks, NEW len \in Lens, truncate(h, len, s)
      PROVE  Loses
  <2>1. CASE hd[h].vt = "promotable"
    <3>1. IsBytes(h) /\ Kind(hd[h])
      BY <2>1 DEF IsBytes, Inv, HandleInv, Good
    <3>2. Clone(hd[h], s).lost = lost \/ Clone(hd[h], s).lost = TRUE
      <4>1. LosesBy(Clone(hd[h], s))
        BY <3>1, CloneLoses
      <4> QED BY <4>1 DEF LosesBy
    <3>3. len = 0 \/ len > 0
      BY BytesAssumption, SMTT(60) DEF Lens
    <3>4. lost' = lost \/ lost' = Clone(hd[h], s).lost
      <4>1. CASE len = 0
        <5>1. ~(len > 0)
          BY <4>1, SMTT(60)
        <5> QED BY <1>1, <2>1, <4>1, <5>1 DEF truncate
      <4>2. CASE len > 0
        <5>1. ~(len = 0)
          BY <4>2, SMTT(60)
        <5> QED BY <1>1, <2>1, <4>2, <5>1 DEF truncate
      <4> QED BY <3>3, <4>1, <4>2
    <3> QED BY <3>2, <3>4 DEF Loses
  <2>2. CASE hd[h].vt # "promotable"
    BY <1>1, <2>2 DEF truncate, Loses
  <2> QED BY <2>1, <2>2
<1>2. CASE drop(h) \/ shared_unique(h) \/ shared_not_unique(h)
  BY <1>2 DEF drop, shared_unique, shared_not_unique, Loses
<1>3. CASE promotable_asserts(h) \/ promoted_to_mut(h)
  BY <1>3 DEF promotable_asserts, promoted_to_mut, Loses
<1>4. ASSUME NEW cnt \in Lens, advance(h, cnt) PROVE Loses
  BY <1>4 DEF advance, Loses
<1>5. ASSUME NEW v \in Bufs \cup {NoBuf},
             static_to_vec(h, v) \/ owned_to_vec(h, v) \/ owned_to_mut(h, v) \/ shared_copy(h, v)
      PROVE  Loses
  BY <1>5 DEF static_to_vec, owned_to_vec, owned_to_mut, shared_copy, Loses
<1>6. ASSUME NEW mut \in BOOLEAN, promotable_in_place(h, mut) \/ shared_in_place(h, mut) PROVE Loses
  BY <1>6 DEF promotable_in_place, shared_in_place, Loses
<1> QED BY <1>1, <1>2, <1>3, <1>4, <1>5, <1>6 DEF Alone

\* The calls that make a second handle keep the invariant...
LEMMA DoublingKeepsInv ==
  ASSUME NEW lo, Inv(hd, heap, sh, cl, lo), NEW h \in Handles, NEW n \in Handles, n # h, Doubling(h, n),
         lost' = TRUE => lo = TRUE
  PROVE  Inv(hd', heap', sh', cl', lo)
<1>1. CASE clone(h, n)
  BY <1>1, CloneActionKeepsInv
<1>2. ASSUME NEW s \in Blocks, NEW i \in Lens, NEW j \in Lens, slice(h, n, i, j, s)
      PROVE  Inv(hd', heap', sh', cl', lo)
  BY <1>2, SliceKeepsInv
<1>3. ASSUME NEW s \in Blocks, NEW i \in Lens, NEW j \in Lens, slice_ref(h, n, i, j, s)
      PROVE  Inv(hd', heap', sh', cl', lo)
  BY <1>3, SliceRefKeepsInv
<1>4. ASSUME NEW s \in Blocks, NEW at \in Lens, split_off(h, n, at, s)
      PROVE  Inv(hd', heap', sh', cl', lo)
  BY <1>4, SplitOffKeepsInv
<1>5. ASSUME NEW s \in Blocks, NEW at \in Lens, split_to(h, n, at, s)
      PROVE  Inv(hd', heap', sh', cl', lo)
  BY <1>5, SplitToKeepsInv
<1> QED BY <1>1, <1>2, <1>3, <1>4, <1>5 DEF Doubling

\* ...and lose what Clone loses.
LEMMA DoublingLoses ==
  ASSUME NEW lo, Inv(hd, heap, sh, cl, lo), NEW h \in Handles, IsBytes(h), NEW n, Doubling(h, n)
  PROVE  Loses
<1>1. Kind(hd[h])
  BY DEF Inv, HandleInv, Good
<1>2. \A s : Clone(hd[h], s).lost = lost \/ Clone(hd[h], s).lost = TRUE
  <2>1. \A s : LosesBy(Clone(hd[h], s))
    BY <1>1, CloneLoses
  <2> QED BY <2>1 DEF LosesBy
<1>3. CASE clone(h, n)
  BY <1>2, <1>3 DEF clone, Loses
<1>4. ASSUME NEW s \in Blocks, NEW i \in Lens, NEW j \in Lens, slice(h, n, i, j, s) \/ slice_ref(h, n, i, j, s)
      PROVE  Loses
  <2>1. slice(h, n, i, j, s)
    BY <1>4 DEF slice_ref
  <2> QED BY <1>2, <2>1 DEF slice, Loses
<1>5. ASSUME NEW s \in Blocks, NEW at \in Lens, split_off(h, n, at, s)
      PROVE  Loses
  BY <1>2, <1>5 DEF split_off, Loses
<1>6. ASSUME NEW s \in Blocks, NEW at \in Lens, split_to(h, n, at, s)
      PROVE  Loses
  BY <1>2, <1>6 DEF split_to, Loses
<1> QED BY <1>3, <1>4, <1>5, <1>6 DEF Doubling

\* The constructors keep the invariant.
LEMMA MakingKeepsInv ==
  ASSUME NEW lo, Inv(hd, heap, sh, cl, lo), NEW h \in Handles, Making(h)
  PROVE  Inv(hd', heap', sh', cl', lo) /\ lost' = lost
<1>1. ASSUME NEW v \in Bufs, NEW s \in Blocks, NEW len \in Lens, NEW cap \in Lens, from_vec(h, v, s, len, cap)
      PROVE  Inv(hd', heap', sh', cl', lo) /\ lost' = lost
  BY <1>1, FromVecKeepsInv DEF from_vec
<1>2. ASSUME NEW v \in Bufs, NEW s \in Shareds, NEW len \in Lens, from_owner(h, v, s, len)
      PROVE  Inv(hd', heap', sh', cl', lo) /\ lost' = lost
  BY <1>2, FromOwnerKeepsInv DEF from_owner
<1>3. CASE from_static(h)
  BY <1>3, FromStaticKeepsInv DEF from_static
<1> QED BY <1>1, <1>2, <1>3 DEF Making

\* Who finishes a clone that another thread overtook loses a count.
LEMMA CloneFinishLoses ==
  ASSUME NEW t \in Threads, NEW n \in Handles, NEW s \in Shareds, clone_finish(t, n, s)
  PROVE  Loses
<1> DEFINE b == hd[cl[t].h]
<1>1. shallow_clone_arc(b).lost = TRUE /\ shallow_clone_vec(b, s).lost = lost
  BY SMTT(60) DEF shallow_clone_arc, shallow_clone_vec
<1>2. lost' = (IF Counted(b) THEN shallow_clone_arc(b) ELSE shallow_clone_vec(b, s)).lost
  BY DEF clone_finish
<1> QED BY <1>1, <1>2 DEF Loses

\* Every step of every thread keeps the invariant.
LEMMA NextInv == IInv /\ [Next]_vars => IInv'
<1>1. SUFFICES ASSUME IInv, [Next]_vars PROVE IInv'
  OBVIOUS
<1>2. lost \in BOOLEAN /\ Inv(hd, heap, sh, cl, lost)
  BY <1>1 DEF IInv
<1>3. ASSUME Loses PROVE lost' \in BOOLEAN /\ Inv(hd, heap, sh, cl, lost')
  <2>1. CASE lost' = lost
    BY <1>2, <2>1
  <2>2. CASE lost' = TRUE
    BY <1>2, <2>2, LossKeepsInv
  <2> QED BY <1>3, <2>1, <2>2 DEF Loses
<1>4. ASSUME NEW h \in Handles, Making(h) PROVE IInv'
  <2>1. Inv(hd', heap', sh', cl', lost) /\ lost' = lost
    BY <1>2, <1>4, MakingKeepsInv
  <2> QED BY <1>2, <2>1 DEF IInv
<1>5. ASSUME NEW h \in Handles, Alone(h) PROVE IInv'
  <2>1. lost' \in BOOLEAN /\ Inv(hd, heap, sh, cl, lost')
    BY <1>2, <1>3, <1>5, AloneLoses
  <2>2. Inv(hd', heap', sh', cl', lost')
    BY <1>5, <2>1, AloneKeepsInv
  <2> QED BY <2>1, <2>2 DEF IInv
<1>6. ASSUME NEW h \in Handles, NEW n \in Handles, IsBytes(h), Free(n), Doubling(h, n) PROVE IInv'
  <2>1. lost' \in BOOLEAN /\ Inv(hd, heap, sh, cl, lost')
    BY <1>2, <1>3, <1>6, DoublingLoses
  <2>2. n # h
    <3>1. None.vt \notin {"static", "owned", "promotable", "shared"}
      BY SMTT(60) DEF None
    <3> QED BY <1>6, <3>1 DEF IsBytes, Free
  <2>3. Inv(hd', heap', sh', cl', lost')
    BY <1>6, <2>1, <2>2, DoublingKeepsInv
  <2> QED BY <2>1, <2>3 DEF IInv
<1>7. ASSUME NEW t \in Threads, NEW h \in Handles, clone_begin(t, h) PROVE IInv'
  <2>1. Inv(hd', heap', sh', cl', lost)
    BY <1>2, <1>7, CloneBeginKeepsInv
  <2>2. lost' = lost
    BY <1>7 DEF clone_begin
  <2> QED BY <1>2, <2>1, <2>2 DEF IInv
<1>8. ASSUME NEW t \in Threads, NEW n \in Handles, NEW s \in Shareds, clone_finish(t, n, s) PROVE IInv'
  <2>1. lost' \in BOOLEAN /\ Inv(hd, heap, sh, cl, lost')
    BY <1>3, <1>8, CloneFinishLoses
  <2>2. Inv(hd', heap', sh', cl', lost')
    BY <1>8, <2>1, CloneFinishKeepsInv
  <2> QED BY <2>1, <2>2 DEF IInv
<1>9. CASE UNCHANGED vars
  BY <1>2, <1>9 DEF vars, IInv
<1> QED BY <1>1, <1>4, <1>5, <1>6, <1>7, <1>8, <1>9 DEF Next

\* IInv holds in every reachable state.
THEOREM Invariance == Spec => []IInv
BY InitInv, NextInv, PTL DEF Spec

\* free_boxed_slice, Shared's Drop and the rebuilt vectors give the allocator
\* the capacity that was allocated, also after counts were lost.
THEOREM LayoutsExact == Spec => []LayoutExact
<1>1. IInv => LayoutExact
  <2>1. SUFFICES ASSUME IInv PROVE LayoutExact
    OBVIOUS
  <2>2. HandleInv(hd, heap, sh, lost) /\ BlockInv(heap, sh)
    BY <2>1 DEF IInv, Inv
  <2>3. \A h \in Handles : Fits(hd[h], heap)
    BY <2>2 DEF HandleInv, Good
  <2>4. \A s \in Shareds : sh[s].live => sh[s].cap = Len(heap[sh[s].buf].bytes)
    BY <2>2 DEF BlockInv
  <2> QED BY <2>3, <2>4 DEF LayoutExact, Fits, Counted
<1> QED BY <1>1, Invariance, PTL

\* Concurrent clones of one promotable handle install one block: two live
\* blocks never stand for the same buffer (shallow_clone_vec).
THEOREM PromotedOnce == Spec => []OnePromotion
<1>1. IInv => OnePromotion
  BY DEF IInv, Inv, OwnerInv, OnePromotion
<1> QED BY <1>1, Invariance, PTL

\* The count of a block never exceeds its handles and the references that are
\* never given back, and is their number as long as shallow_clone_arc, which does
\* not count, was not used.
THEOREM Counting == Spec => []CountsExact
<1>1. IInv => CountsExact
  <2>1. \A s : Holders(s) = HoldersIn(hd, s)
    BY DEF Holders, HoldersIn
  <2> QED BY <2>1 DEF IInv, Inv, CountInv, CountsExact
<1> QED BY <1>1, Invariance, PTL

\* As long as no clone went uncounted, no handle points to freed memory:
\* release_shared, owned_drop_impl and shared_to_vec_impl free for the last.
THEOREM Undangled == Spec => []NoDangling
<1>1. IInv => NoDangling
  <2>1. SUFFICES ASSUME IInv, ~lost, NEW h \in Handles PROVE Alive(hd[h])
    BY DEF NoDangling
  <2>2. /\ Types(hd, heap, sh, cl) /\ HandleInv(hd, heap, sh, lost) /\ BlockInv(heap, sh)
        /\ CountInv(hd, sh, lost)
    BY <2>1 DEF IInv, Inv
  <2>3. Kind(hd[h]) /\ Linked(hd[h], heap, sh)
    BY <2>2 DEF HandleInv, Good
  <2>4. hd[h].sh \in Shareds \cup {NoShared}
    BY <2>2, PointerTypes
  <2>5. hd[h].sh # NoShared => sh[hd[h].sh].live
    <3>1. h \in HoldersIn(hd, hd[h].sh)
      BY DEF HoldersIn
    <3> QED BY <2>1, <2>2, <2>4, <3>1 DEF CountInv
  <2>6. hd[h].buf # NoBuf => heap[hd[h].buf].live
    <3>1. CASE hd[h].sh = NoShared
      BY <2>3, <3>1 DEF Linked
    <3>2. CASE hd[h].sh # NoShared
      <4>1. sh[hd[h].sh].buf = hd[h].buf
        BY <2>3, <2>5, <3>2 DEF Linked
      <4>2. heap[sh[hd[h].sh].buf].live
        BY <2>2, <2>4, <2>5, <3>2 DEF BlockInv
      <4> QED BY <4>1, <4>2
    <3> QED BY <3>1, <3>2
  <2> QED BY <2>5, <2>6 DEF Alive, Counted
<1> QED BY <1>1, Invariance, PTL

\* As long as no clone went uncounted, a handle shows the bytes it was made
\* with: the ptr::copy of promotable_to_vec and shared_to_vec_impl moves bytes
\* no other handle shows.
THEOREM Immutable == Spec => []ValuesKept
<1>1. IInv => ValuesKept
  <2>1. SUFFICES ASSUME IInv, ~lost, NEW h \in Handles PROVE AsSlice(hd[h]) = hd[h].val
    BY DEF ValuesKept
  <2>2. Shows(hd[h], heap)
    BY <2>1 DEF IInv, Inv, HandleInv, Good
  <2> QED BY <2>2 DEF Shows, AsSlice
<1> QED BY <1>1, Invariance, PTL

\* As long as no clone went uncounted, an allocation no handle points to is
\* freed, but for those with a reference that owned_to_vec, or a panic in
\* promotable_to_vec or promotable_to_mut, did not give back.
THEOREM Unleaked == Spec => []NoLeak
<1>1. IInv => NoLeak
  BY DEF IInv, Inv, LeakInv, Kept, NoLeak
<1> QED BY <1>1, Invariance, PTL
=============================================================================
