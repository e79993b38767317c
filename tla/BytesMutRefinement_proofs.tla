---------------------- MODULE BytesMutRefinement_proofs ----------------------
(***************************************************************************)
(* BytesMut implements ByteStrings, for any handles, allocations, blocks   *)
(* and bytes: what a handle dereferences to changes only by operations on  *)
(* that handle, and as ByteStrings says.                                   *)
(***************************************************************************)
EXTENDS BytesMut_proofs

\* The prover of a leaf that names none, and the seconds it may take.
USE ZenonT(30)

-----------------------------------------------------------------------------
(* Sharing, conversions and joins that move no byte.                       *)

\* Two handles assigned.
LEMMA PairFacts ==
  ASSUME IInv, NEW h \in Handles, NEW o \in Handles, h # o, NEW a, NEW b,
         hd' = [hd EXCEPT ![h] = a, ![o] = b]
  PROVE  hd'[h] = a /\ hd'[o] = b /\ Others(h, o)
BY DEF IInv, TypeOK, Others

\* One handle assigned.
LEMMA SingleFacts ==
  ASSUME IInv, NEW h \in Handles, NEW a, hd' = [hd EXCEPT ![h] = a]
  PROVE  hd'[h] = a /\ Others(h, h)
BY DEF IInv, TypeOK, Others

\* freeze and the conversion back: another type, the same window.
LEMMA RetypedStep ==
  ASSUME IInv, NEW h \in Handles, NEW u \in {"mut", "bytes", "vec"},
         Conversion(hd[h].ty, u),
         heap' = heap, Others(h, h), hd'[h].ty = u,
         hd'[h].buf = hd[h].buf, hd'[h].off = hd[h].off, hd'[h].len = hd[h].len
  PROVE  Abstract!Next
<1> DEFINE w == Text(h)
           t == hd[h].ty
<1>1. t \in {"mut", "bytes"} /\ Conversion(t, u)
  BY DEF Conversion
<1>2. Shows(h, t, w)
  BY <1>1, ShowsText
<1>3. Obj'[h] = Val(u, w)
  BY SameText
<1>4. \A x \in Handles : x # h => Obj'[x] = Obj[x]
  BY OthersShow
<1> HIDE DEF w, t
<1>5. Becomes(h, u, w)
  BY <1>3, <1>4, BecomesFacts
<1> QED BY <1>1, <1>2, <1>5, StepConvert

\* clone and slice of a Bytes.
LEMMA SlicedStep ==
  ASSUME IInv, NEW h \in Handles, hd[h].buf # NoBuf, hd[h].ty = "bytes", NEW o \in Handles, hd[o].ty = "none",
         NEW i \in Nat, NEW k \in Nat, i + k <= hd[h].len, heap' = heap, Gets(o, h, i, k), Others(o, o)
  PROVE  Abstract!Next
<1> DEFINE w == Text(h)
           a == i + 1
           b == i + k
<1>1. Obj'[o] = Val("bytes", SubSeq(w, a, b))
  <2>1. Obj'[o] = Val(hd[h].ty, SubSeq(w, a, b))
    BY GetsText
  <2> QED BY <2>1
<1>2. w \in Seq(Cell) /\ Len(w) = hd[h].len /\ hd[h].len \in Nat
  BY TextFacts, ViewFacts
<1>3. Shows(h, "bytes", w) /\ Shows(o, "none", << >>)
  BY ShowsText
<1> HIDE DEF w
<1>4. a \in 1 .. Len(w) + 1 /\ b \in 0 .. Len(w)
  BY <1>2, SMTT(60)
<1>5. \A x \in Handles : x # o => Obj'[x] = Obj[x]
  BY OthersShow
<1> HIDE DEF a, b
<1> DEFINE v == SubSeq(w, a, b)
<1>6. Becomes(o, "bytes", v)
  <2> HIDE DEF v
  <2> QED BY <1>1, <1>5, BecomesFacts DEF v
<1> QED BY <1>3, <1>4, <1>6, StepSliceOf

\* The narrowed views of a Bytes.
LEMMA NarrowedFields ==
  ASSUME NEW r \in HandleType, NEW i, NEW n
  PROVE  /\ Narrowed(r, i, n).ty = r.ty /\ Narrowed(r, i, n).buf = r.buf
         /\ Narrowed(r, i, n).off = r.off + i /\ Narrowed(r, i, n).len = n
BY DEF Narrowed, HandleType

\* The frozen handles: clone, slice, split_off, split_to, advance and truncate of a
\* Bytes, and freeze itself.
LEMMA ShareRefines ==
  ASSUME IInv, NEW h \in Handles, Share(h)
  PROVE  Abstract!Next
<1> DEFINE r == hd[h]
<1>1. hd \in [Handles -> HandleType] /\ r \in HandleType
  BY DEF IInv, TypeOK
<1>2. CASE freeze(h)
  <2> DEFINE q == [r EXCEPT !.ty = "bytes", !.pos = 0, !.repr = 0, !.cap = r.len]
  <2>1. hd[h].ty = "mut" /\ heap' = heap /\ hd' = [hd EXCEPT ![h] = q]
    BY <1>2 DEF freeze, Idle
  <2>2. q.ty = "bytes" /\ q.buf = r.buf /\ q.off = r.off /\ q.len = r.len
    BY <1>1 DEF HandleType
  <2> HIDE DEF q
  <2>3. hd'[h] = q /\ Others(h, h)
    BY <2>1, SingleFacts
  <2> QED BY <2>1, <2>2, <2>3, RetypedStep DEF Conversion
<1>3. ASSUME Frozen(h)
      PROVE  /\ r.ty = "bytes" /\ r.buf # NoBuf /\ r.len \in Nat /\ r.off \in Nat /\ r.off + 0 = r.off
             /\ 0 + r.len = r.len /\ r.len <= r.len /\ r.len - 0 = r.len /\ r.len - r.len = 0 /\ 0 <= r.len
  <2>1. r.ty = "bytes" /\ r.buf # NoBuf
    BY <1>3, MutHasBuf DEF Frozen, Idle
  <2>2. r.len \in Nat /\ r.off \in Nat
    BY <2>1, ViewFacts
  <2> QED BY <2>1, <2>2, SMTT(60)
<1>4. ASSUME NEW o \in Handles, hd[o].ty = "none", heap' = heap, Frozen(h), NEW i \in Nat, NEW k \in Nat, i + k <= r.len,
             NEW other, hd' = [hd EXCEPT ![h] = r, ![o] = other], other.ty = "bytes", other.len = k,
             k = 0 \/ (other.buf = r.buf /\ other.off = r.off + i)
      PROVE  Abstract!Next
  <2>1. r.ty = "bytes" /\ r.buf # NoBuf /\ h # o
    BY <1>3, <1>4
  <2>2. hd'[h] = r /\ hd'[o] = other /\ Others(h, o)
    BY <1>4, <2>1, PairFacts
  <2>3. Gets(o, h, i, k) /\ Others(o, o)
    BY <1>4, <2>1, <2>2 DEF Gets, Others
  <2> QED BY <1>4, <2>1, <2>3, SlicedStep
<1>5. ASSUME NEW o \in Handles, bytes_clone(h, o) PROVE Abstract!Next
  <2>1. /\ Frozen(h) /\ hd[o].ty = "none" /\ heap' = heap /\ hd' = [hd EXCEPT ![h] = r, ![o] = r]
    BY <1>5 DEF bytes_clone, shared_v_clone
  <2>2. /\ r.ty = "bytes" /\ r.len \in Nat /\ 0 \in Nat /\ 0 + r.len <= r.len /\ r.off = r.off + 0
    BY <1>3, <2>1
  <2> QED BY <1>4, <2>1, <2>2
<1>6. StaticEmpty.ty = "bytes" /\ StaticEmpty.len = 0
  BY DEF StaticEmpty, NoHandle
<1>7. ASSUME NEW o \in Handles, NEW i \in Cap, NEW j \in Cap, slice(h, o, i, j) PROVE Abstract!Next
  <2> DEFINE k == j - i
             q == Narrowed(r, i, k)
  <2>1. Frozen(h) /\ i <= j /\ j <= r.len /\ hd[o].ty = "none" /\ heap' = heap
    BY <1>7 DEF slice, shared_v_clone, NoClone
  <2>2. k \in Nat /\ i \in Nat /\ i + k <= r.len /\ i + 0 <= r.len /\ 0 \in Nat
    BY <1>3, <2>1, SMTT(60) DEF Cap
  <2>3. hd' = [hd EXCEPT ![h] = r, ![o] = StaticEmpty] \/ hd' = [hd EXCEPT ![h] = r, ![o] = q]
    BY <1>7 DEF slice, shared_v_clone, NoClone
  <2>4. q.ty = "bytes" /\ q.buf = r.buf /\ q.off = r.off + i /\ q.len = k
    <3> HIDE DEF k
    <3> QED BY ONLY <1>1, <1>3, <2>1, NarrowedFields, SMTT(60)
  <2> HIDE DEF k, q
  <2>5. CASE hd' = [hd EXCEPT ![h] = r, ![o] = StaticEmpty]
    BY <1>4, <1>6, <2>1, <2>2, <2>5
  <2>6. CASE hd' = [hd EXCEPT ![h] = r, ![o] = q]
    BY <1>4, <2>1, <2>2, <2>4, <2>6
  <2> QED BY <2>3, <2>5, <2>6
<1>8. ASSUME NEW o \in Handles, NEW at \in Cap, bytes_split_off(h, o, at) \/ bytes_split_to(h, o, at)
      PROVE  Abstract!Next
  <2> DEFINE k == r.len - at
             front == Narrowed(r, 0, at)
             back == Narrowed(r, at, k)
  <2>1. Frozen(h) /\ at <= r.len /\ hd[o].ty = "none" /\ heap' = heap
    BY <1>8 DEF bytes_split_off, bytes_split_to, shared_v_clone, NoClone
  <2>2. at \in Nat /\ k \in Nat
    BY <1>3, <2>1, SMTT(60) DEF Cap
  <2>3. r.ty = "bytes" /\ r.buf # NoBuf /\ h # o
    BY <1>3, <2>1
  <2>4. front.ty = "bytes" /\ front.buf = r.buf /\ front.off = r.off + 0 /\ front.len = at
    BY ONLY <1>1, <2>3, NarrowedFields, SMTT(60)
  <2>5. back.ty = "bytes" /\ back.buf = r.buf /\ back.off = r.off + at /\ back.len = k
    <3> HIDE DEF k
    <3> QED BY ONLY <1>1, <2>3, NarrowedFields, SMTT(60)
  <2>6. /\ at = r.len => k = 0
        /\ at = 0 => k = r.len
    BY <1>3, <2>1, <2>2, SMTT(60)
  <2>7. ASSUME NEW a, NEW b, hd' = [hd EXCEPT ![h] = a, ![o] = b] \/ hd' = [hd EXCEPT ![h] = b, ![o] = a],
               a.ty = "bytes", a.len = at, at = 0 \/ (a.buf = r.buf /\ a.off = r.off + 0),
               b.ty = "bytes", b.len = k, k = 0 \/ (b.buf = r.buf /\ b.off = r.off + at)
        PROVE  Abstract!Next
    <3> HIDE DEF k
    <3>1. \/ hd'[h] = a /\ hd'[o] = b /\ Others(h, o)
          \/ hd'[h] = b /\ hd'[o] = a /\ Others(h, o)
      <4>1. CASE hd' = [hd EXCEPT ![h] = a, ![o] = b]
        BY <2>3, <4>1, PairFacts
      <4>2. CASE hd' = [hd EXCEPT ![h] = b, ![o] = a]
        BY <2>3, <4>2, PairFacts
      <4> QED BY <2>7, <4>1, <4>2
    <3>2. Others(h, o)
      BY <3>1
    <3>3. \/ Gets(h, h, 0, at) /\ Gets(o, h, at, k)
          \/ Gets(o, h, 0, at) /\ Gets(h, h, at, k)
      BY <2>3, <2>7, <3>1 DEF Gets
    <3> QED BY <2>1, <2>2, <2>3, <3>2, <3>3, SplitStep DEF k
  <2>8. \/ at = r.len /\ (hd' = [hd EXCEPT ![h] = r, ![o] = StaticEmpty] \/ hd' = [hd EXCEPT ![h] = StaticEmpty, ![o] = r])
        \/ at = 0 /\ (hd' = [hd EXCEPT ![h] = r, ![o] = StaticEmpty] \/ hd' = [hd EXCEPT ![h] = StaticEmpty, ![o] = r])
        \/ hd' = [hd EXCEPT ![h] = front, ![o] = back] \/ hd' = [hd EXCEPT ![h] = back, ![o] = front]
    BY <1>8 DEF bytes_split_off, bytes_split_to, shared_v_clone, NoClone
  <2> HIDE DEF k, front, back
  <2>9. CASE at = r.len /\ (hd' = [hd EXCEPT ![h] = r, ![o] = StaticEmpty] \/ hd' = [hd EXCEPT ![h] = StaticEmpty, ![o] = r])
    BY <1>3, <1>6, <2>1, <2>3, <2>6, <2>7, <2>9
  <2>10. CASE at = 0 /\ (hd' = [hd EXCEPT ![h] = r, ![o] = StaticEmpty] \/ hd' = [hd EXCEPT ![h] = StaticEmpty, ![o] = r])
    BY <1>3, <1>6, <2>1, <2>3, <2>6, <2>7, <2>10
  <2>11. CASE hd' = [hd EXCEPT ![h] = front, ![o] = back] \/ hd' = [hd EXCEPT ![h] = back, ![o] = front]
    BY <2>4, <2>5, <2>7, <2>11
  <2> QED BY <2>8, <2>9, <2>10, <2>11
<1>9. ASSUME NEW i \in Cap, NEW n \in Cap, bytes_narrow(h, i, n) PROVE Abstract!Next
  <2> DEFINE q == Narrowed(r, i, n)
  <2>1. Frozen(h) /\ i + n <= r.len /\ heap' = heap /\ hd' = [hd EXCEPT ![h] = q]
    BY <1>9 DEF bytes_narrow
  <2>2. i \in Nat /\ n \in Nat
    BY SMTT(60) DEF Cap
  <2>3. q.ty = r.ty /\ q.buf = r.buf /\ q.off = r.off + i /\ q.len = n
    BY ONLY <1>1, NarrowedFields, SMTT(60)
  <2> HIDE DEF q
  <2>4. hd'[h] = q /\ Others(h, h)
    BY <2>1, SingleFacts
  <2>5. Gets(h, h, i, n)
    BY <2>3, <2>4 DEF Gets
  <2> QED BY <1>3, <2>1, <2>2, <2>4, <2>5, NarrowedStep
<1> QED BY <1>2, <1>5, <1>7, <1>8, <1>9 DEF Share

\* unsplit: one handle shows both strings, the other is about to be dropped.
LEMMA JoinedStep ==
  ASSUME NEW h \in Handles, NEW o \in Handles, h # o, hd[h].ty = "mut", hd[o].ty = "mut",
         Obj'[h] = Val("mut", Text(h) \o Text(o)), hd'[o].ty = "moved",
         \A x \in Handles : x # h /\ x # o => Obj'[x] = Obj[x]
  PROVE  Abstract!Next
<1> DEFINE w == Text(h)
           v == Text(o)
           z == w \o v
<1>1. Shows(h, "mut", w) /\ Shows(o, "mut", v)
  BY ShowsText
<1>2. Obj'[o] = Val("none", << >>)
  BY ObjAfter
<1> HIDE DEF w, v
<1>3. BothBecome(h, "mut", z, o, "none", << >>)
  <2> HIDE DEF z
  <2> QED BY <1>2, BothFacts DEF z, w, v
<1> QED BY <1>1, <1>3, StepJoin

\* unsplit when self is empty, and when the two views are adjacent.
LEMMA UnsplitRefines ==
  ASSUME IInv, NEW h \in Handles, NEW o \in Handles, unsplit_empty(h, o) \/ unsplit_joined(h, o)
  PROVE  Abstract!Next
<1>1. hd[h].ty = "mut" /\ hd[o].ty = "mut" /\ h # o /\ heap' = heap
  BY DEF unsplit_empty, unsplit_joined, Idle
<1>2. hd[h].buf # NoBuf /\ hd[o].buf # NoBuf
  BY <1>1, MutHasBuf
<1>3. /\ hd[h] \in HandleType /\ hd[o] \in HandleType /\ hd[h].len \in Nat /\ hd[o].len \in Nat
      /\ hd[h].off \in Nat /\ hd[o].off \in Nat /\ hd[o].off + hd[o].len <= MaxCap
      /\ hd[o].len <= hd[o].cap /\ heap[hd[h].buf].cells \in [Idx -> Cell]
  BY <1>2, ViewFacts, ViewBound
<1> DEFINE w == Text(h)
           v == Text(o)
<1>4. w \in Seq(Cell) /\ v \in Seq(Cell)
  BY <1>2, TextFacts
<1>5. /\ hd[h].len = 0 => w = << >>
      /\ hd[o].len = 0 => v = << >>
  BY EmptyView DEF Text
<1>6. << >> \o v = v /\ w \o << >> = w
  <2> HIDE DEF w, v
  <2> QED BY <1>4, SubSeqEnds
<1>7. CASE unsplit_empty(h, o)
  <2> DEFINE q == [hd[h] EXCEPT !.ty = "moved"]
  <2>1. hd' = [hd EXCEPT ![h] = hd[o], ![o] = q] /\ hd[h].len = 0
    BY <1>7 DEF unsplit_empty
  <2>2. q.ty = "moved"
    BY <1>3 DEF HandleType
  <2> HIDE DEF q
  <2>3. hd'[h] = hd[o] /\ hd'[o] = q /\ Others(h, o)
    BY <1>1, <2>1, PairFacts
  <2>4. Obj'[h] = Val("mut", v)
    BY <1>1, <2>3, SameText
  <2>5. Obj'[h] = Val("mut", w \o v)
    <3> HIDE DEF w, v
    <3> QED BY <1>5, <1>6, <2>1, <2>4
  <2>6. \A x \in Handles : x # h /\ x # o => Obj'[x] = Obj[x]
    BY <1>1, <2>3, OthersShow
  <2> QED BY <1>1, <2>2, <2>3, <2>5, <2>6, JoinedStep
<1>8. CASE unsplit_joined(h, o)
  <2> DEFINE r == [hd[h] EXCEPT !.len = @ + hd[o].len, !.cap = @ + hd[o].cap]
             p == IF hd[o].cap = 0 THEN hd[h] ELSE r
             q == [hd[o] EXCEPT !.ty = "moved"]
  <2>1. hd'[h] = p /\ hd'[o] = q /\ \A x \in Handles : x # h /\ x # o => hd'[x] = hd[x]
    BY <1>1, <1>8 DEF unsplit_joined, IInv, TypeOK
  <2>2. q.ty = "moved" /\ r.ty = "mut" /\ r.buf = hd[h].buf /\ r.off = hd[h].off /\ r.len = hd[h].len + hd[o].len
    BY <1>1, <1>3 DEF HandleType
  <2> HIDE DEF q, r
  <2>3. hd'[h] = p /\ hd'[o] = q /\ Others(h, o)
    BY <2>1 DEF Others
  <2>4. \A x \in Handles : x # h /\ x # o => Obj'[x] = Obj[x]
    BY <1>1, <2>3, OthersShow
  <2>5. Obj'[h] = Val("mut", w \o v)
    <3>1. CASE hd[o].cap = 0
      <4>1. hd[o].len = 0
        BY <1>3, <3>1, SMTT(60)
      <4>2. Obj'[h] = Val("mut", w)
        BY <1>1, <2>3, <3>1, SameText
      <4> HIDE DEF w, v
      <4> QED BY <1>5, <1>6, <4>1, <4>2
    <3>2. CASE hd[o].cap # 0
      <4> DEFINE f == heap[hd[h].buf].cells
                 off == hd[h].off
                 m == hd[h].len
                 n == hd[o].len
                 at == off + m
      <4>1. hd[h].buf = hd[o].buf /\ hd[o].off = at
        BY <1>8, <3>2 DEF unsplit_joined, Contiguous
      <4>2. f \in [Idx -> Cell] /\ m \in Nat /\ n \in Nat /\ Fit(off, m + n)
        BY <1>3, <4>1, SMTT(60) DEF Fit
      <4>3. w = View(f, off, m) /\ v = View(f, at, n)
        BY <4>1 DEF Text
      <4>4. View(f, off, m) \o View(f, at, n) = View(f, off, m + n)
        <5> HIDE DEF f, off, m, n
        <5> QED BY ONLY <4>2, JoinView
      <4>5. Obj'[h] = Val("mut", View(f, off, m + n))
        BY <1>1, <2>2, <2>3, <3>2, ObjAfter
      <4> HIDE DEF w, v, f, off, m, n, at
      <4> QED BY <4>3, <4>4, <4>5
    <3> QED BY <3>1, <3>2
  <2> QED BY <1>1, <2>2, <2>3, <2>4, <2>5, JoinedStep
<1> QED BY <1>7, <1>8

\* is_unique() answers true and the Bytes becomes a BytesMut where it is.
LEMMA IntoMutRefines ==
  ASSUME IInv, NEW h \in Handles, into_mut_unique(h)
  PROVE  Abstract!Next
<1> DEFINE c == heap[sh[hd[h].data].vec].cap - hd[h].off
           q == [hd[h] EXCEPT !.ty = "mut", !.cap = c]
<1>1. hd[h].ty = "bytes" /\ heap' = heap /\ hd[h] \in HandleType
  BY DEF into_mut_unique, IInv, TypeOK
<1> HIDE DEF c
<1>2. hd' = [hd EXCEPT ![h] = q]
  BY DEF into_mut_unique, IInv, TypeOK, HandleType, c
<1>3. q.ty = "mut" /\ q.buf = hd[h].buf /\ q.off = hd[h].off /\ q.len = hd[h].len
  BY <1>1 DEF HandleType
<1> HIDE DEF q
<1>4. hd'[h] = q /\ Others(h, h)
  BY <1>2, SingleFacts
<1> QED BY <1>1, <1>3, <1>4, RetypedStep DEF Conversion

-----------------------------------------------------------------------------
(* Operations that write or free.                                          *)

\* The step writes a fresh allocation b, or none, and that of h only if h is the
\* only handle on it.
Spares(h, b) ==
  /\ b = hd[h].buf \/ IsFree(b)
  /\ Alone(h) \/ heap'[hd[h].buf].cells = heap[hd[h].buf].cells
  /\ \A a \in Bufs : a # b /\ a # hd[h].buf => heap'[a].cells = heap[a].cells

\* Then the other handles show what they did.
LEMMA SparesOthers ==
  ASSUME IInv, NEW h \in Handles, NEW b, Spares(h, b), NEW x \in Handles, x # h, hd'[x] = hd[x]
  PROVE  Obj'[x] = Obj[x]
<1>1. ASSUME InUse(x), hd[x].buf # NoBuf PROVE heap'[hd[x].buf].cells = heap[hd[x].buf].cells
  <2>1. hd[x].buf \in Bufs /\ heap[hd[x].buf].live /\ hd[x].ty # "none"
    BY <1>1, ViewFacts
  <2>2. CASE hd[x].buf = hd[h].buf
    BY <2>1, <2>2 DEF Spares, Alone
  <2>3. CASE hd[x].buf # hd[h].buf
    BY <2>1, <2>3 DEF Spares, IsFree
  <2> QED BY <2>2, <2>3
<1> QED BY <1>1, Unwritten

\* What a BytesMut may write no other handle sees: a store changes the string of
\* its own handle only.
LEMMA RegionOthers ==
  ASSUME IInv, NEW h \in Handles, hd[h].ty = "mut", NEW x \in Handles, x # h, hd'[x] = hd[x],
         \A a \in Bufs : a # hd[h].buf => heap'[a].cells = heap[a].cells,
         \A j \in Idx : j \notin Region(hd[h]) => heap'[hd[h].buf].cells[j] = heap[hd[h].buf].cells[j]
  PROVE  Obj'[x] = Obj[x]
<1> DEFINE f == heap[hd[x].buf].cells
           g == heap'[hd[x].buf].cells
           off == hd[x].off
           len == hd[x].len
<1>1. ASSUME InUse(x), hd[x].buf # NoBuf PROVE SameCells(g, off, f, off, len)
  <2>1. /\ hd[x].buf \in Bufs /\ off \in Nat /\ len \in Nat /\ hd[x].cap \in Nat /\ len <= hd[x].cap
        /\ off + len <= MaxCap
    BY <1>1, ViewFacts, ViewBound
  <2>2. CASE hd[x].buf # hd[h].buf
    BY <2>1, <2>2 DEF SameCells
  <2>3. CASE hd[x].buf = hd[h].buf
    <3>1. hd[h].buf # NoBuf
      BY MutHasBuf
    <3>2. hd[h].off \in Nat /\ hd[h].cap \in Nat
      BY <3>1, ViewFacts
    <3>3. Apart(hd[h], hd[x])
      BY <1>1, <2>3 DEF IInv, RegionInv
    <3>4. ASSUME NEW i \in 0 .. len - 1 PROVE off + i \in Idx /\ off + i \notin Region(hd[h])
      BY ONLY <2>1, <3>2, <3>3, i \in 0 .. len - 1, ConstantsAssumption, SMTT(60) DEF Apart, Region, Idx
    <3>5. ASSUME NEW i \in 0 .. len - 1 PROVE g[off + i] = f[off + i]
      BY <2>3, <3>4
    <3> QED BY <2>1, <3>5 DEF SameCells
  <2> QED BY <2>2, <2>3
<1> HIDE DEF f, g, off, len
<1> QED BY <1>1, Untouched DEF f, g, off, len

\* A store through DerefMut.
LEMMA StoreRefines ==
  ASSUME IInv, NEW h \in Handles, NEW i \in Idx, NEW v \in Byte, store(h, i, v)
  PROVE  Abstract!Next
<1> DEFINE f == heap[hd[h].buf].cells
           off == hd[h].off
           len == hd[h].len
           at == off + i
           g == [f EXCEPT ![at] = v]
           w == Text(h)
           k == i + 1
<1>1. hd[h].ty = "mut" /\ i < len /\ hd' = hd /\ heap' = [heap EXCEPT ![hd[h].buf].cells[at] = v]
  BY DEF store, Idle
<1>2. hd[h].buf # NoBuf
  BY <1>1, MutHasBuf
<1>3. /\ hd[h].buf \in Bufs /\ off \in Nat /\ len \in Nat /\ hd[h].cap \in Nat /\ len <= hd[h].cap
      /\ f \in [Idx -> Cell] /\ Fit(off, len) /\ heap \in [Bufs -> AllocType] /\ i \in Nat
  <2>1. i \in Nat
    BY SMTT(60) DEF Idx
  <2> QED BY <1>2, <2>1, ViewFacts, TextFacts DEF IInv, TypeOK
<1>4. heap'[hd[h].buf].cells = g /\ \A a \in Bufs : a # hd[h].buf => heap'[a].cells = heap[a].cells
  <2> HIDE DEF at
  <2> QED BY <1>1, <1>3 DEF AllocType
<1>5. View(g, off, len) = [w EXCEPT ![k] = v]
  <2>1. f \in [Idx -> Cell] /\ Fit(off, len) /\ i \in Nat /\ i < len /\ Stored(g, f, off + i, v)
    BY <1>1, <1>3 DEF Stored
  <2>2. Stored(View(g, off, len), View(f, off, len), i + 1, v)
    <3> HIDE DEF f, off, len, g
    <3> QED BY ONLY <2>1, StoreView, ZenonT(30)
  <2> QED BY <2>2 DEF Stored, Text
<1>6. Obj'[h] = Val("mut", [w EXCEPT ![k] = v])
  <2>1. Obj'[h] = Val("mut", View(g, off, len))
    <3> HIDE DEF g
    <3> QED BY <1>1, <1>4, ObjAfter
  <2> HIDE DEF g, w, k
  <2> QED BY <1>5, <2>1
<1>7. at \in Region(hd[h])
  BY ONLY <1>1, <1>3, SMTT(60) DEF Region
<1>8. \A j \in Idx : j \notin Region(hd[h]) => g[j] = f[j]
  <2> HIDE DEF f, at
  <2> QED BY <1>3, <1>7
<1>9. \A x \in Handles : x # h => Obj'[x] = Obj[x]
  <2>1. \A j \in Idx : j \notin Region(hd[h]) => heap'[hd[h].buf].cells[j] = heap[hd[h].buf].cells[j]
    <3> HIDE DEF g
    <3> QED BY <1>4, <1>8
  <2> QED BY <1>1, <1>4, <2>1, RegionOthers
<1>10. Shows(h, "mut", w)
  BY <1>1, ShowsText
<1>11. k \in DOMAIN w
  <2>1. w \in Seq(Cell) /\ Len(w) = len
    BY <1>2, TextFacts
  <2> HIDE DEF w, len
  <2> QED BY ONLY <1>1, <1>3, <2>1, SMTT(60)
<1> DEFINE z == [w EXCEPT ![k] = v]
<1>12. Becomes(h, "mut", z)
  <2> HIDE DEF z
  <2> QED BY <1>6, <1>9, BecomesFacts DEF z
<1> HIDE DEF w, k
<1> QED BY <1>10, <1>11, <1>12, StepStore

\* A sequence written to the front of an allocation.
LEMMA WrittenFront ==
  ASSUME NEW f \in [Idx -> Cell], NEW w \in Seq(Cell), Len(w) \in Cap
  PROVE  View(Written(f, 0, w), 0, Len(w)) = w
<1> DEFINE n == Len(w)
<1>1. n \in Nat /\ n <= MaxCap /\ MaxCap \in Nat
  BY ConstantsAssumption, SMTT(60) DEF Cap
<1>2. 0 + 0 = 0 /\ 0 + n = n /\ 0 \in Nat /\ Fit(0, 0 + n)
  BY <1>1, SMTT(60) DEF Fit
<1>3. View(Written(f, 0 + 0, w), 0, 0 + n) = View(f, 0, 0) \o w
  BY <1>2, WrittenView
<1>4. << >> \o w = w
  BY SubSeqEnds
<1>5. View(f, 0, 0) = << >>
  BY EmptyView
<1> HIDE DEF n
<1>6. View(Written(f, 0, w), 0, n) = w
  BY <1>2, <1>3, <1>4, <1>5
<1> QED BY <1>6 DEF n

\* with_capacity, From<&[u8]> and Clone.
LEMMA CreateRefines ==
  ASSUME IInv, NEW h \in Handles, Create(h)
  PROVE  Abstract!Next
<1> DEFINE blank == [i \in Idx |-> Uninit]
<1>1. blank \in [Idx -> Cell]
  BY DEF Cell
<1>2. ASSUME NEW b \in Bufs, NEW len, NEW cap, NEW cells, hd[h].ty = "none", IsFree(b),
             hd' = [hd EXCEPT ![h] = FromVec(b, len, cap)], heap' = [heap EXCEPT ![b] = Alloc(cap, cells)]
      PROVE  /\ Obj'[h] = Val("mut", View(cells, 0, len)) /\ Shows(h, "none", << >>)
             /\ \A x \in Handles : x # h => Obj'[x] = Obj[x]
  <2> DEFINE r == FromVec(b, len, cap)
  <2>1. r.ty = "mut" /\ r.buf = b /\ r.off = 0 /\ r.len = len
    BY DEF FromVec
  <2>2. hd'[h] = r /\ Others(h, h)
    <3> HIDE DEF r
    <3> QED BY <1>2, SingleFacts DEF r
  <2>3. /\ heap'[b].cells = cells
        /\ \A a \in Bufs : a # b => heap'[a].cells = heap[a].cells
    BY <1>2 DEF IInv, TypeOK, Alloc
  <2> HIDE DEF r
  <2>4. Obj'[h] = Val("mut", View(cells, 0, len))
    BY <2>1, <2>2, <2>3, ObjAfter
  <2>5. hd[h].buf = NoBuf /\ NoBuf \notin Bufs
    <3>1. hd[h] = NoHandle
      BY <1>2 DEF IInv, HandleInv, HandleOK
    <3> QED BY <3>1, NoHandleFields, ConstantsAssumption
  <2>6. \A x \in Handles : x # h => Obj'[x] = Obj[x]
    <3> SUFFICES ASSUME NEW x \in Handles, x # h PROVE Obj'[x] = Obj[x]
      OBVIOUS
    <3>1. hd'[x] = hd[x]
      BY <2>2 DEF Others
    <3>2. hd[x].buf # NoBuf => hd[x].buf \in Bufs /\ heap[hd[x].buf].live
      BY ViewFacts
    <3>3. hd[x].buf # NoBuf => heap'[hd[x].buf].cells = heap[hd[x].buf].cells
      BY <1>2, <2>3, <3>2 DEF IsFree
    <3> QED BY <3>1, <3>3, Unwritten
  <2>7. Shows(h, "none", << >>)
    BY <1>2, ShowsText
  <2> QED BY <2>4, <2>6, <2>7
<1>3. ASSUME NEW b \in Bufs, NEW cap \in Cap, with_capacity(h, b, cap) PROVE Abstract!Next
  <2>1. /\ Obj'[h] = Val("mut", View(blank, 0, 0)) /\ Shows(h, "none", << >>)
        /\ \A x \in Handles : x # h => Obj'[x] = Obj[x]
    <3> HIDE DEF blank
    <3>1. /\ hd[h].ty = "none" /\ IsFree(b) /\ hd' = [hd EXCEPT ![h] = FromVec(b, 0, cap)]
          /\ heap' = [heap EXCEPT ![b] = Alloc(cap, blank)]
      BY <1>3 DEF with_capacity, blank
    <3> QED BY <1>2, <3>1
  <2>2. View(blank, 0, 0) = << >>
    BY EmptyView
  <2>3. << >> \in Seq(Byte)
    BY SMTT(60)
  <2> HIDE DEF blank
  <2>4. Becomes(h, "mut", << >>)
    BY <2>1, <2>2, BecomesFacts
  <2> QED BY <2>1, <2>3, <2>4, StepNew
<1>4. ASSUME NEW b \in Bufs, NEW w \in Seq(Cell), Len(w) \in Cap, from_slice(h, b, w)
      PROVE  Becomes(h, "mut", w) /\ Shows(h, "none", << >>)
  <2> DEFINE cells == Written(blank, 0, w)
  <2>1. /\ hd[h].ty = "none" /\ IsFree(b) /\ hd' = [hd EXCEPT ![h] = FromVec(b, Len(w), Len(w))]
        /\ heap' = [heap EXCEPT ![b] = Alloc(Len(w), cells)]
    BY <1>4 DEF from_slice
  <2>2. View(cells, 0, Len(w)) = w
    <3> HIDE DEF blank
    <3> QED BY <1>1, <1>4, WrittenFront
  <2> HIDE DEF cells
  <2>3. /\ Obj'[h] = Val("mut", View(cells, 0, Len(w))) /\ Shows(h, "none", << >>)
        /\ \A x \in Handles : x # h => Obj'[x] = Obj[x]
    BY <1>2, <2>1
  <2> QED BY <2>2, <2>3, BecomesFacts
<1>5. ASSUME NEW b \in Bufs, NEW w \in Slices, from_slice(h, b, w) PROVE Abstract!Next
  <2>1. w \in Seq(Byte) /\ w \in Seq(Cell) /\ Len(w) \in Cap
    BY SlicesType, SlicesBytes
  <2> QED BY <1>4, <1>5, <2>1, StepNew
<1>6. ASSUME NEW b \in Bufs, NEW o \in Handles, clone(o, h, b) PROVE Abstract!Next
  <2> DEFINE w == Text(o)
  <2>1. hd[o].ty = "mut" /\ from_slice(h, b, w)
    BY <1>6 DEF clone, Idle, Slice, Text, View
  <2>2. hd[o].buf # NoBuf
    BY <2>1, MutHasBuf
  <2>3. w \in Seq(Cell) /\ Len(w) = hd[o].len /\ hd[o].len \in Cap
    BY <2>2, TextFacts, ViewFacts DEF HandleType
  <2>4. Shows(o, "mut", w)
    BY <2>1, ShowsText
  <2> HIDE DEF w
  <2>5. Becomes(h, "mut", w) /\ Shows(h, "none", << >>)
    BY <1>4, <2>1, <2>3
  <2> QED BY <2>4, <2>5, StepCopy
<1> QED BY <1>3, <1>5, <1>6 DEF Create

\* The bytes of a window moved or copied to the front.
LEMMA FrontView ==
  ASSUME NEW f \in [Idx -> Cell], NEW off, NEW len, Fit(off, len)
  PROVE  /\ View(ShiftedDown(f, off, len), 0, len) = View(f, off, len)
         /\ View(CopyOf(f, off, len), 0, len) = View(f, off, len)
         /\ len <= off => View(ShiftedApart(f, off, len), 0, len) = View(f, off, len)
<1>1. /\ f \in [Idx -> Cell] /\ off \in Nat /\ len \in Nat /\ len <= MaxCap
      /\ 0 \in Nat /\ 0 + len <= len /\ off + 0 = off
  BY ConstantsAssumption, SMTT(60) DEF Fit
<1>2. /\ View(ShiftedDown(f, off, len), 0, len) = View(f, off + 0, len)
      /\ View(CopyOf(f, off, len), 0, len) = View(f, off + 0, len)
  BY ONLY <1>1, CopyView, SMTT(60)
<1>3. ASSUME len <= off PROVE View(ShiftedApart(f, off, len), 0, len) = View(f, off + 0, len)
  BY ONLY <1>1, <1>3, CopyView, SMTT(60)
<1> QED BY <1>1, <1>2, <1>3

\* A conversion that writes no bytes another handle sees.
LEMMA ConvertedStep ==
  ASSUME IInv, NEW h \in Handles, NEW u, NEW b,
         Conversion(hd[h].ty, u),
         Spares(h, b), Others(h, h), Obj'[h] = Val(u, Text(h))
  PROVE  Abstract!Next
<1> DEFINE w == Text(h)
           t == hd[h].ty
<1>1. t \in {"mut", "bytes"} /\ Conversion(t, u)
  BY DEF Conversion
<1>2. Shows(h, t, w)
  BY <1>1, ShowsText
<1>3. \A x \in Handles : x # h => Obj'[x] = Obj[x]
  BY SparesOthers DEF Others
<1> HIDE DEF w, t
<1>4. Becomes(h, u, w)
  BY <1>3, BecomesFacts DEF w
<1> QED BY <1>1, <1>2, <1>4, StepConvert

\* Conversion to a vector where the bytes are, of a handle that is alone there.
LEMMA IntoVecRefines ==
  ASSUME IInv, NEW h \in Handles, into_vec_owned(h) \/ into_vec_unique(h)
  PROVE  Abstract!Next
<1> DEFINE v == hd[h].buf
           f == heap[v].cells
           off == hd[h].off
           len == hd[h].len
           g == ShiftedDown(f, off, len)
<1>1. hd[h].ty \in {"mut", "bytes"} /\ v # NoBuf /\ Alone(h) /\ (into_vec_unique(h) => sh[hd[h].data].vec = v)
  <2>1. CASE into_vec_owned(h)
    <3>1. hd[h].ty = "mut" /\ hd[h].data = NoShared
      BY <2>1 DEF into_vec_owned, Idle, IsArc
    <3>2. v # NoBuf
      BY <3>1, MutHasBuf
    <3>3. ~into_vec_unique(h)
      BY <3>1 DEF into_vec_unique, Unique, IsArc
    <3> QED BY <3>1, <3>2, <3>3, OwnerIsAlone
  <2>2. CASE into_vec_unique(h)
    <3>1. hd[h].ty \in {"mut", "bytes"} /\ Unique(h) /\ hd[h].data # NoShared /\ IsArc(h)
      BY <2>2 DEF into_vec_unique, Unique, IsArc
    <3>2. v # NoBuf
      BY <3>1, MutHasBuf
    <3> QED BY <3>1, <3>2, UniqueAlone, ViewFacts
  <2> QED BY <2>1, <2>2
<1>2. v \in Bufs /\ heap \in [Bufs -> AllocType] /\ f \in [Idx -> Cell] /\ Fit(off, len)
  BY <1>1, TextFacts, ViewFacts DEF IInv, TypeOK
<1>3. heap' = [heap EXCEPT ![v].cells = g]
  BY <1>1 DEF into_vec_owned, into_vec_unique
<1>4. PICK c : hd' = [hd EXCEPT ![h] = VecOf(v, len, c)]
  BY <1>1 DEF into_vec_owned, into_vec_unique
<1> DEFINE r == VecOf(v, len, c)
<1>5. r.ty = "vec" /\ r.buf = v /\ r.off = 0 /\ r.len = len
  BY DEF VecOf, NoHandle
<1>6. hd'[h] = r /\ Others(h, h)
  <2> HIDE DEF r
  <2> QED BY <1>4, SingleFacts DEF r
<1> HIDE DEF r
<1>7. View(g, 0, len) = Text(h)
  <2>1. View(g, 0, len) = View(f, off, len)
    <3> HIDE DEF f, off, len
    <3> QED BY ONLY <1>2, FrontView
  <2> QED BY <2>1 DEF Text
<1> HIDE DEF g
<1>8. heap'[v].cells = g /\ \A a \in Bufs : a # v => heap'[a].cells = heap[a].cells
  BY <1>2, <1>3 DEF AllocType
<1>9. Obj'[h] = Val("vec", Text(h))
  <2>1. Obj'[h] = Val("vec", View(g, 0, len))
    BY <1>5, <1>6, <1>8, ObjAfter
  <2> QED BY <1>7, <2>1
<1>10. Spares(h, v)
  BY <1>1, <1>8 DEF Spares
<1>11. Conversion(hd[h].ty, "vec")
  BY <1>1 DEF Conversion
<1> QED BY <1>6, <1>9, <1>10, <1>11, ConvertedStep

\* What release_shared leaves of the allocations.
LEMMA ReleasedSpares ==
  ASSUME IInv, NEW h \in Handles, IsArc(h), NEW hp \in [Bufs -> AllocType]
  PROVE  /\ \A a \in Bufs : a # hd[h].buf => ReleasedHeap(hp, hd[h].data)[a] = hp[a]
         /\ Alone(h) \/ ReleasedHeap(hp, hd[h].data)[hd[h].buf] = hp[hd[h].buf]
<1>1. hd[h].buf # NoBuf
  BY MutHasBuf
<1>2. sh[hd[h].data].vec = hd[h].buf
  BY <1>1, ViewFacts DEF IsArc
<1>3. CASE sh[hd[h].data].ref_count = 1
  <2>1. Alone(h)
    BY <1>3, UniqueIsAlone DEF Alone
  <2> QED BY <1>2, <1>3, <2>1 DEF ReleasedHeap
<1>4. CASE sh[hd[h].data].ref_count # 1
  BY <1>4 DEF ReleasedHeap
<1> QED BY <1>3, <1>4

\* The conversions that copy and release.
LEMMA CopiedRefines ==
  ASSUME IInv, NEW h \in Handles, NEW b \in Bufs, into_vec_copied(h, b) \/ into_mut_copied(h, b)
  PROVE  Abstract!Next
<1> DEFINE v == hd[h].buf
           f == heap[v].cells
           off == hd[h].off
           len == hd[h].len
           g == CopyOf(f, off, len)
           hp == [heap EXCEPT ![b] = Alloc(len, g)]
<1>1. PICK r, u : /\ CopyThenRelease(h, b, r) /\ r.ty = u /\ r.buf = b /\ r.off = 0 /\ r.len = len
                  /\ u \in {"mut", "vec"}
                  /\ Conversion(hd[h].ty, u)
  <2>1. CASE into_vec_copied(h, b)
    <3> DEFINE r == VecOf(b, len, len)
    <3>1. CopyThenRelease(h, b, r) /\ hd[h].ty \in {"mut", "bytes"}
      BY <2>1 DEF into_vec_copied
    <3>2. r.ty = "vec" /\ r.buf = b /\ r.off = 0 /\ r.len = len
      BY DEF VecOf, NoHandle
    <3> HIDE DEF r
    <3>3. Conversion(hd[h].ty, "vec")
      BY <3>1 DEF Conversion
    <3> QED BY <3>1, <3>2, <3>3
  <2>2. CASE into_mut_copied(h, b)
    <3> DEFINE r == FromVec(b, len, len)
    <3>1. CopyThenRelease(h, b, r) /\ hd[h].ty = "bytes"
      BY <2>2 DEF into_mut_copied
    <3>2. r.ty = "mut" /\ r.buf = b /\ r.off = 0 /\ r.len = len
      BY DEF FromVec
    <3> HIDE DEF r
    <3>3. Conversion(hd[h].ty, "mut")
      BY <3>1 DEF Conversion
    <3> QED BY <3>1, <3>2, <3>3
  <2> QED BY <2>1, <2>2
<1>2. h \in seen /\ IsFree(b) /\ hd' = [hd EXCEPT ![h] = r] /\ heap' = ReleasedHeap(hp, hd[h].data)
  BY <1>1 DEF CopyThenRelease
<1>3. IsArc(h)
  BY <1>2 DEF IInv, HandleInv, HandleOK, IsArc
<1>4. v # NoBuf
  BY <1>3, MutHasBuf
<1>5. /\ v \in Bufs /\ heap \in [Bufs -> AllocType] /\ f \in [Idx -> Cell] /\ Fit(off, len) /\ heap[v].live
      /\ off \in Nat /\ len \in Cap /\ off + len <= MaxCap
  BY <1>4, TextFacts, ViewFacts, ViewBound DEF IInv, TypeOK, HandleType
<1>6. b # v
  BY <1>2, <1>5 DEF IsFree
<1>7. View(g, 0, len) = Text(h)
  <2>1. View(g, 0, len) = View(f, off, len)
    <3> HIDE DEF f, off, len
    <3> QED BY ONLY <1>2, <1>5, FrontView
  <2> QED BY <2>1 DEF Text
<1>8. g \in [Idx -> Cell]
  <2>1. len \in Nat
    BY <1>5 DEF Fit
  <2> HIDE DEF f, off, len
  <2> QED BY <1>5, <2>1, MovesType
<1> HIDE DEF g
<1>9. hp \in [Bufs -> AllocType] /\ hp[b].cells = g /\ \A a \in Bufs : a # b => hp[a] = heap[a]
  <2>1. Alloc(len, g) \in AllocType /\ Alloc(len, g).cells = g
    BY <1>5, <1>8 DEF Alloc, AllocType
  <2> HIDE DEF len
  <2> QED BY <1>5, <2>1
<1> HIDE DEF hp
<1>10. /\ \A a \in Bufs : a # v => heap'[a] = hp[a]
       /\ Alone(h) \/ heap'[v] = hp[v]
  BY <1>2, <1>3, <1>9, ReleasedSpares
<1>11. Spares(h, b)
  BY <1>2, <1>5, <1>6, <1>9, <1>10 DEF Spares
<1>12. hd'[h] = r /\ Others(h, h)
  BY <1>2, SingleFacts
<1>13. Obj'[h] = Val(u, Text(h))
  <2>1. heap'[b].cells = g
    BY <1>6, <1>9, <1>10
  <2>2. Obj'[h] = Val(u, View(g, 0, len))
    BY <1>1, <1>12, <2>1, ObjAfter
  <2> QED BY <1>7, <2>2
<1> QED BY <1>1, <1>11, <1>12, <1>13, ConvertedStep

\* Drop: the string goes away, unless it already had (an argument of unsplit).
LEMMA DropRefines ==
  ASSUME IInv, NEW h \in Handles, drop(h)
  PROVE  Abstract!Next \/ Obj' = Obj
<1> DEFINE v == hd[h].buf
<1>1. hd[h].ty # "none" /\ hd' = [hd EXCEPT ![h] = NoHandle] /\ heap \in [Bufs -> AllocType] /\ hd[h] \in HandleType
  BY DEF drop, IInv, TypeOK
<1>2. hd'[h] = NoHandle /\ Others(h, h)
  BY <1>1, SingleFacts
<1>3. Obj'[h] = Val("none", << >>)
  BY <1>2, NoHandleFields, ObjAfter
<1>4. Spares(h, v)
  <2>1. CASE IsArc(h)
    <3>1. heap' = ReleasedHeap(heap, hd[h].data)
      BY <2>1 DEF drop
    <3>2. /\ \A a \in Bufs : a # v => heap'[a] = heap[a]
          /\ Alone(h) \/ heap'[v] = heap[v]
      BY <1>1, <2>1, <3>1, ReleasedSpares
    <3> QED BY <3>2 DEF Spares
  <2>2. CASE ~IsArc(h) /\ v = NoBuf
    <3>1. heap' = heap
      BY <2>2 DEF drop
    <3> QED BY <3>1 DEF Spares
  <2>3. CASE ~IsArc(h) /\ v # NoBuf
    <3>1. heap' = [heap EXCEPT ![v] = Freed]
      BY <2>3 DEF drop
    <3>2. Alone(h)
      BY <2>3, OwnerIsAlone DEF IsArc
    <3> QED BY <1>1, <3>1, <3>2 DEF Spares
  <2> QED BY <2>1, <2>2, <2>3
<1>5. \A x \in Handles : x # h => Obj'[x] = Obj[x]
  BY <1>2, <1>4, SparesOthers DEF Others
<1>6. CASE hd[h].ty = "moved"
  <2>1. Obj[h] = Val("none", << >>)
    BY <1>6, ShowsText DEF Shows
  <2>2. \A x \in Handles : Obj'[x] = Obj[x]
    BY <1>3, <1>5, <2>1
  <2> QED BY <2>2, ObjIsFun
<1>7. CASE hd[h].ty \in {"mut", "bytes", "vec"}
  <2> DEFINE w == Text(h)
             t == hd[h].ty
  <2>1. Shows(h, t, w)
    BY <1>7, ShowsText
  <2>2. t \in {"mut", "bytes", "vec"}
    BY <1>7
  <2> HIDE DEF w, t
  <2>3. Becomes(h, "none", << >>)
    BY <1>3, <1>5, BecomesFacts
  <2> QED BY <2>1, <2>2, <2>3, StepDrop
<1> QED BY <1>1, <1>6, <1>7 DEF HandleType

-----------------------------------------------------------------------------
(* reserve and what appends after it.                                      *)

\* The handle that Finish leaves in h: on allocation b, at off, and longer by w.
Fields(r, w, b, off, len) ==
  /\ r.buf = b /\ r.off = off /\ r.len = len
  /\ [r EXCEPT !.len = @ + Len(w)].ty = "mut" /\ [r EXCEPT !.len = @ + Len(w)].buf = b
  /\ [r EXCEPT !.len = @ + Len(w)].off = off /\ [r EXCEPT !.len = @ + Len(w)].len = len + Len(w)

\* A branch of reserve_inner that ends with the len bytes of h at off in b, and
\* with room for w behind them.
Keeps(h, r, hp, w, gone, b, off, len) ==
  /\ hp \in [Bufs -> AllocType] /\ w \in Seq(Cell) /\ off \in Nat /\ len \in Nat
  /\ Fit(off, len + Len(w)) /\ Fields(r, w, b, off, len) /\ Finish(h, r, hp, w, gone)
  /\ View(hp[b].cells, off, len) = Text(h)

\* h shows w behind what it showed; the others what they did, or they are consumed.
Appends(h, w, gone) ==
  /\ Obj'[h] = Val("mut", Text(h) \o w)
  /\ \A x \in Handles : x # h => IF x \in gone THEN hd'[x].ty = "moved" ELSE Obj'[x] = Obj[x]

\* What such a branch, and the write that follows it, leave behind.
Grown(h, hp, w, gone, b, off, len) ==
  /\ Obj'[h] = Val("mut", Text(h) \o w)
  /\ \A x \in Handles : x # h => IF x \in gone THEN hd'[x].ty = "moved" ELSE hd'[x] = hd[x]
  /\ heap'[b].cells = Written(hp[b].cells, off + len, w)
  /\ \A a \in Bufs : a # b => heap'[a] = hp[a]

\* The end of every branch of reserve_inner, and the write that follows: if the
\* branch kept the bytes of h, in whatever allocation, then w comes behind them.
LEMMA FinishAppends ==
  ASSUME IInv, NEW h \in Handles, NEW b \in Bufs, NEW r, NEW hp, NEW w, NEW gone, NEW off, NEW len,
         Keeps(h, r, hp, w, gone, b, off, len)
  PROVE  Grown(h, hp, w, gone, b, off, len)
<1> DEFINE q == [r EXCEPT !.len = @ + Len(w)]
           f == hp[b].cells
           g == Written(f, off + len, w)
           n == len + Len(w)
<1>0. /\ hp \in [Bufs -> AllocType] /\ w \in Seq(Cell) /\ off \in Nat /\ len \in Nat
      /\ Fit(off, n) /\ Fields(r, w, b, off, len) /\ Finish(h, r, hp, w, gone) /\ View(f, off, len) = Text(h)
  BY DEF Keeps
<1>1. q.ty = "mut" /\ q.buf = b /\ q.off = off /\ q.len = n /\ r.buf = b /\ r.off = off /\ r.len = len
  BY <1>0 DEF Fields
<1>2. f \in [Idx -> Cell]
  BY <1>0 DEF AllocType
<1>3. heap' = [hp EXCEPT ![b].cells = g]
  BY <1>0, <1>1 DEF Finish
<1> HIDE DEF g
<1>4. heap'[b].cells = g /\ \A a \in Bufs : a # b => heap'[a] = hp[a]
  BY <1>0, <1>3 DEF AllocType
<1>5. /\ hd'[h] = q
      /\ \A x \in Handles : x # h => hd'[x] = IF x \in gone THEN [hd[x] EXCEPT !.ty = "moved"] ELSE hd[x]
  BY <1>0 DEF Finish
<1> HIDE DEF q
<1>6. \A x \in Handles : x # h => IF x \in gone THEN hd'[x].ty = "moved" ELSE hd'[x] = hd[x]
  BY <1>5 DEF IInv, TypeOK, HandleType
<1>7. Obj'[h] = Val("mut", View(g, off, n))
  <2> HIDE DEF n
  <2> QED BY <1>1, <1>4, <1>5, ObjAfter
<1>8. View(g, off, n) = View(f, off, len) \o w
  <2> HIDE DEF f
  <2> QED BY <1>0, <1>2, WrittenView DEF g, n
<1>9. Obj'[h] = Val("mut", Text(h) \o w)
  <2> HIDE DEF n, f
  <2>1. View(f, off, len) = Text(h)
    BY <1>0
  <2> QED BY <1>7, <1>8, <2>1
<1> QED BY <1>4, <1>6, <1>9 DEF g, Grown

\* The branches that leave the handle alone on its allocation, or on a fresh one.
LEMMA FinishSpares ==
  ASSUME IInv, NEW h \in Handles, NEW b \in Bufs, NEW r, NEW hp, NEW w, NEW gone, NEW off, NEW len,
         Keeps(h, r, hp, w, gone, b, off, len), hd[h].buf \in Bufs,
         (b = hd[h].buf /\ Alone(h)) \/ IsFree(b),
         hd[h].buf # b => Alone(h) \/ hp[hd[h].buf] = heap[hd[h].buf],
         \A a \in Bufs : a # b /\ a # hd[h].buf => hp[a] = heap[a]
  PROVE  Appends(h, w, gone)
<1>0. Grown(h, hp, w, gone, b, off, len)
  BY FinishAppends
<1>1. /\ Obj'[h] = Val("mut", Text(h) \o w)
      /\ \A x \in Handles : x # h => IF x \in gone THEN hd'[x].ty = "moved" ELSE hd'[x] = hd[x]
      /\ \A a \in Bufs : a # b => heap'[a] = hp[a]
  BY <1>0 DEF Grown
<1>2. Spares(h, b)
  <2>1. b = hd[h].buf \/ IsFree(b)
    OBVIOUS
  <2>2. Alone(h) \/ heap'[hd[h].buf].cells = heap[hd[h].buf].cells
    <3>1. CASE b = hd[h].buf
      <4>1. Alone(h) \/ IsFree(hd[h].buf)
        BY <3>1
      <4>2. IsFree(hd[h].buf) => hd[h].buf = NoBuf
        BY ViewFacts DEF IsFree
      <4> QED BY <4>1, <4>2, ConstantsAssumption
    <3>2. CASE b # hd[h].buf
      BY <1>1, <3>2
    <3> QED BY <3>1, <3>2
  <2>3. \A a \in Bufs : a # b /\ a # hd[h].buf => heap'[a].cells = heap[a].cells
    BY <1>1
  <2> QED BY <2>1, <2>2, <2>3 DEF Spares
<1>3. ASSUME NEW x \in Handles, x # h PROVE IF x \in gone THEN hd'[x].ty = "moved" ELSE Obj'[x] = Obj[x]
  BY <1>1, <1>2, <1>3, SparesOthers
<1> QED BY <1>1, <1>3 DEF Appends

\* What the branches of reserve_inner know of a BytesMut.
LEMMA MutFacts ==
  ASSUME IInv, NEW h \in Handles, hd[h].ty = "mut"
  PROVE  /\ hd[h].buf # NoBuf /\ hd[h].buf \in Bufs /\ hd[h] \in HandleType
         /\ hd[h].off \in Nat /\ hd[h].len \in Nat /\ hd[h].cap \in Nat /\ hd[h].pos \in Nat
         /\ hd[h].off + hd[h].len <= MaxCap /\ hd[h].off + hd[h].cap <= MaxCap
         /\ heap \in [Bufs -> AllocType] /\ heap[hd[h].buf].cells \in [Idx -> Cell]
         /\ heap[hd[h].buf].cap <= MaxCap /\ heap[hd[h].buf].cap \in Nat /\ heap[hd[h].buf].live
BY MutHasBuf, ViewFacts, ViewBound DEF IInv, TypeOK

\* There is room already: the write stays inside the handle's own region.
LEMMA InPlaceAppends ==
  ASSUME IInv, NEW h \in Handles, NEW n \in Cap, NEW w \in Seq(Cell), Len(w) <= n, NEW gone,
         hd[h].ty = "mut", in_place(h, n, w, gone)
  PROVE  Appends(h, w, gone)
<1> DEFINE v == hd[h].buf
           f == heap[v].cells
           off == hd[h].off
           len == hd[h].len
<1>1. /\ v \in Bufs /\ hd[h] \in HandleType /\ off \in Nat /\ len \in Nat /\ hd[h].cap \in Nat
      /\ off + hd[h].cap <= MaxCap /\ heap \in [Bufs -> AllocType] /\ f \in [Idx -> Cell]
  BY MutFacts
<1>2. Len(w) \in Nat /\ n \in Nat /\ MaxCap \in Nat
  BY LenNat, ConstantsAssumption, SMTT(60) DEF Cap
<1>3. n <= hd[h].cap - len /\ Finish(h, hd[h], heap, w, gone)
  BY DEF in_place, Fits
<1>4. /\ off \in Nat /\ len \in Nat /\ hd[h].cap \in Nat /\ off + hd[h].cap <= MaxCap
      /\ Len(w) <= n /\ n <= hd[h].cap - len
  BY <1>1, <1>3
<1>5. Fit(off, len + Len(w)) /\ \A j \in Idx : j \in off + len .. off + len + Len(w) - 1 => j \in Region(hd[h])
  <2>1. len + Len(w) \in Nat /\ off + (len + Len(w)) <= MaxCap /\ off + len + Len(w) <= off + hd[h].cap
    BY ONLY <1>2, <1>4, SMTT(60)
  <2>2. ASSUME NEW j \in Int, off + len <= j, j <= off + len + Len(w) - 1
        PROVE  off <= j /\ j <= off + hd[h].cap - 1
    BY ONLY <1>2, <1>4, <2>1, <2>2, SMTT(60)
  <2> QED BY ONLY <1>2, <1>4, <2>1, <2>2, SMTT(60) DEF Fit, Region, Idx
<1>6. Fields(hd[h], w, v, off, len)
  BY <1>1 DEF Fields, HandleType
<1>7. Keeps(h, hd[h], heap, w, gone, v, off, len)
  BY <1>1, <1>3, <1>5, <1>6 DEF Keeps, Text
<1>8. Grown(h, heap, w, gone, v, off, len)
  <2> HIDE DEF off, len
  <2> QED BY <1>1, <1>7, FinishAppends
<1>9. \A j \in Idx : j \notin Region(hd[h]) => heap'[v].cells[j] = f[j]
  <2>1. heap'[v].cells = Written(f, off + len, w)
    BY <1>8 DEF Grown
  <2> HIDE DEF f, v, off, len
  <2> QED BY <1>5, <2>1 DEF Written
<1>10. \A a \in Bufs : a # v => heap'[a].cells = heap[a].cells
  BY <1>8 DEF Grown
<1>11. ASSUME NEW x \in Handles, x # h PROVE IF x \in gone THEN hd'[x].ty = "moved" ELSE Obj'[x] = Obj[x]
  <2>1. IF x \in gone THEN hd'[x].ty = "moved" ELSE hd'[x] = hd[x]
    BY <1>8, <1>11 DEF Grown
  <2>2. CASE x \in gone
    BY <2>1, <2>2
  <2>3. CASE x \notin gone
    BY <1>9, <1>10, <1>11, <2>1, <2>3, RegionOthers
  <2> QED BY <2>2, <2>3
<1>12. Obj'[h] = Val("mut", Text(h) \o w)
  BY <1>8 DEF Grown
<1> QED BY <1>11, <1>12 DEF Appends

\* The contents move to the front of the allocation, over bytes of nobody else.
LEMMA ShiftAppends ==
  ASSUME IInv, NEW h \in Handles, NEW n \in Cap, NEW w \in Seq(Cell), Len(w) <= n, NEW gone,
         hd[h].ty = "mut", vec_shift(h, n, w, gone) \/ arc_shift(h, n, w, gone)
  PROVE  Appends(h, w, gone)
<1> DEFINE v == hd[h].buf
           f == heap[v].cells
           off == hd[h].off
           len == hd[h].len
           g == ShiftedApart(f, off, len)
           hp == [heap EXCEPT ![v].cells = g]
<1>1. /\ v \in Bufs /\ v # NoBuf /\ hd[h] \in HandleType /\ off \in Nat /\ len \in Nat /\ hd[h].cap \in Nat
      /\ heap[v].cap \in Nat /\ heap[v].cap <= MaxCap /\ heap \in [Bufs -> AllocType] /\ f \in [Idx -> Cell]
      /\ off + len <= MaxCap
  BY MutFacts
<1>2. Len(w) \in Nat /\ n \in Nat /\ MaxCap \in Nat /\ Len(w) <= n
  BY LenNat, ConstantsAssumption, SMTT(60) DEF Cap
<1>3. PICK r : /\ Finish(h, r, hp, w, gone) /\ Alone(h) /\ len <= off /\ heap[v].cap >= len + n
               /\ Fields(r, w, v, 0, len)
  <2>1. CASE vec_shift(h, n, w, gone)
    <3> DEFINE r == [hd[h] EXCEPT !.off = @ - hd[h].pos, !.pos = 0, !.cap = @ + hd[h].pos]
    <3>1. /\ Finish(h, r, hp, w, gone) /\ hd[h].data = NoShared
          /\ hd[h].cap - len + hd[h].pos >= n /\ hd[h].pos >= len
      BY <2>1 DEF vec_shift, VecShifts, IsArc
    <3>2. off = hd[h].pos /\ hd[h].pos + hd[h].cap = heap[v].cap /\ Alone(h)
      BY <1>1, <3>1, ViewFacts, OwnerIsAlone
    <3>3. hd[h].off - hd[h].pos = 0 /\ len <= off /\ heap[v].cap >= len + n
      BY ONLY <1>1, <1>2, <3>1, <3>2, SMTT(60)
    <3>4. Fields(r, w, v, 0, len)
      BY <1>1, <3>3 DEF Fields, HandleType
    <3> HIDE DEF r
    <3> QED BY <3>1, <3>2, <3>3, <3>4
  <2>2. CASE arc_shift(h, n, w, gone)
    <3> DEFINE r == [hd[h] EXCEPT !.off = 0, !.cap = heap[v].cap]
    <3>1. Alone(h) /\ sh[hd[h].data].vec = v
      BY <1>1, <2>2, UniqueAlone, ViewFacts DEF arc_shift, Unique, IsArc
    <3>2. Finish(h, r, hp, w, gone) /\ heap[v].cap >= len + n /\ off >= len
      BY <2>2, <3>1 DEF arc_shift
    <3>3. Fields(r, w, v, 0, len)
      BY <1>1 DEF Fields, HandleType
    <3>4. len <= off
      BY ONLY <1>1, <3>2, SMTT(60)
    <3> HIDE DEF r
    <3> QED BY <3>1, <3>2, <3>3, <3>4
  <2> QED BY <2>1, <2>2
<1>4. Fit(0, len + Len(w)) /\ 0 \in Nat
  BY ONLY <1>1, <1>2, <1>3, SMTT(60) DEF Fit
<1>5. View(g, 0, len) = Text(h)
  <2>1. f \in [Idx -> Cell] /\ Fit(off, len) /\ len <= off
    BY <1>1, <1>3 DEF Fit
  <2>2. View(g, 0, len) = View(f, off, len)
    <3> HIDE DEF f, off, len
    <3> QED BY ONLY <2>1, FrontView DEF g
  <2> QED BY <2>2 DEF Text
<1>6. g \in [Idx -> Cell]
  BY <1>1, MovesType
<1> HIDE DEF g
<1>7. hp \in [Bufs -> AllocType] /\ hp[v].cells = g /\ \A a \in Bufs : a # v => hp[a] = heap[a]
  BY <1>1, <1>6 DEF AllocType
<1> HIDE DEF hp
<1>8. Keeps(h, r, hp, w, gone, v, 0, len)
  BY <1>1, <1>3, <1>4, <1>5, <1>7 DEF Keeps
<1> HIDE DEF len
<1> QED BY <1>1, <1>3, <1>7, <1>8, FinishSpares

\* The handle only claims more of its allocation, which is its alone.
LEMMA ExpandAppends ==
  ASSUME IInv, NEW h \in Handles, NEW n \in Cap, NEW w \in Seq(Cell), Len(w) <= n, NEW gone,
         hd[h].ty = "mut", arc_expand(h, n, w, gone)
  PROVE  Appends(h, w, gone)
<1> DEFINE v == hd[h].buf
           off == hd[h].off
           len == hd[h].len
           r == [hd[h] EXCEPT !.cap = len + n]
<1>1. /\ v \in Bufs /\ v # NoBuf /\ hd[h] \in HandleType /\ off \in Nat /\ len \in Nat
      /\ heap[v].cap \in Nat /\ heap[v].cap <= MaxCap /\ heap \in [Bufs -> AllocType]
  BY MutFacts
<1>2. Len(w) \in Nat /\ n \in Nat /\ MaxCap \in Nat /\ Len(w) <= n
  BY LenNat, ConstantsAssumption, SMTT(60) DEF Cap
<1>3. Alone(h) /\ sh[hd[h].data].vec = v
  BY <1>1, UniqueAlone, ViewFacts DEF arc_expand, Unique, IsArc
<1>4. Finish(h, r, heap, w, gone) /\ heap[v].cap >= len + n + off
  BY <1>3 DEF arc_expand
<1>5. Fit(off, len + Len(w))
  BY ONLY <1>1, <1>2, <1>4, SMTT(60) DEF Fit
<1>6. Fields(r, w, v, off, len)
  BY <1>1 DEF Fields, HandleType
<1> HIDE DEF r
<1>7. Keeps(h, r, heap, w, gone, v, off, len)
  BY <1>1, <1>4, <1>5, <1>6 DEF Keeps, Text
<1> HIDE DEF len, off
<1> QED BY <1>1, <1>3, <1>7, FinishSpares

\* A fresh allocation in the heap.
LEMMA AllocFacts ==
  ASSUME NEW cap \in Cap, NEW g \in [Idx -> Cell]
  PROVE  Alloc(cap, g) \in AllocType /\ Alloc(cap, g).cells = g
BY DEF Alloc, AllocType

\* Vec::reserve of a vector that the handle owns, or that it alone shares: the
\* bytes are copied with what is in front of them, and h keeps its offset.
LEMMA ReallocAppends ==
  ASSUME IInv, NEW h \in Handles, NEW n \in Cap, NEW w \in Seq(Cell), Len(w) <= n, NEW gone,
         hd[h].ty = "mut", NEW b \in Bufs, NEW cap \in Cap,
         vec_grow(h, n, w, gone, b, cap) \/ arc_grow(h, n, w, gone, b, cap)
  PROVE  Appends(h, w, gone)
<1> DEFINE v == hd[h].buf
           f == heap[v].cells
           off == hd[h].off
           len == hd[h].len
           k == off + len
           g == CopyOf(f, 0, k)
           hp == [heap EXCEPT ![v] = Freed, ![b] = Alloc(cap, g)]
<1>1. /\ v \in Bufs /\ v # NoBuf /\ hd[h] \in HandleType /\ off \in Nat /\ len \in Nat /\ heap[v].live
      /\ heap \in [Bufs -> AllocType] /\ f \in [Idx -> Cell] /\ k <= MaxCap /\ heap[v].cap \in Nat
  BY MutFacts
<1>2. /\ Len(w) \in Nat /\ n \in Nat /\ MaxCap \in Nat /\ Len(w) <= n /\ cap \in Nat /\ cap <= MaxCap
      /\ 2 * heap[v].cap \in Int
  <2>1. heap[v].cap \in Nat
    BY <1>1
  <2> QED BY <2>1, LenNat, ConstantsAssumption, SMTT(60) DEF Cap
<1>3. PICK r : /\ Finish(h, r, hp, w, gone) /\ Alone(h) /\ IsFree(b) /\ cap >= off + len + n
               /\ Fields(r, w, b, off, len)
  <2>1. CASE vec_grow(h, n, w, gone, b, cap)
    <3> DEFINE r == [hd[h] EXCEPT !.buf = b, !.off = hd[h].pos, !.cap = cap - hd[h].pos]
    <3>1. hd[h].data = NoShared /\ IsFree(b) /\ cap >= hd[h].pos + len + n
      BY <2>1 DEF vec_grow, IsArc
    <3>2. off = hd[h].pos /\ Alone(h)
      BY <1>1, <3>1, ViewFacts, OwnerIsAlone
    <3>3. hd[h].off - hd[h].pos = 0 /\ hd[h].pos + len = k
      BY ONLY <1>1, <3>2, SMTT(60)
    <3>4. Finish(h, r, hp, w, gone)
      BY <2>1, <3>3 DEF vec_grow
    <3>5. Fields(r, w, b, off, len)
      BY <1>1, <3>2 DEF Fields, HandleType
    <3> HIDE DEF r, hp
    <3> QED BY <3>1, <3>2, <3>4, <3>5
  <2>2. CASE arc_grow(h, n, w, gone, b, cap)
    <3> DEFINE r == [hd[h] EXCEPT !.buf = b, !.cap = cap - off]
    <3>1. Alone(h) /\ sh[hd[h].data].vec = v
      BY <1>1, <2>2, UniqueAlone, ViewFacts DEF arc_grow, Unique, IsArc
    <3>2. /\ Finish(h, r, hp, w, gone) /\ IsFree(b)
          /\ cap >= Larger(2 * heap[v].cap, len + n + off)
      BY <2>2, <3>1 DEF arc_grow
    <3>3. Fields(r, w, b, off, len)
      BY <1>1 DEF Fields, HandleType
    <3>4. cap >= off + len + n
      <4>1. cap >= Larger(2 * heap[v].cap, len + n + off)
        BY <3>2
      <4> HIDE DEF off, len, v
      <4> QED BY ONLY <1>1, <1>2, <4>1, SMTT(60) DEF Larger
    <3> HIDE DEF r, hp
    <3> QED BY <3>1, <3>2, <3>3, <3>4
  <2> QED BY <2>1, <2>2
<1>4. Fit(off, len + Len(w)) /\ 0 \in Nat /\ k \in Nat /\ off + len <= k /\ 0 + off = off /\ 0 + k <= MaxCap
  BY ONLY <1>1, <1>2, <1>3, SMTT(60) DEF Fit
<1>5. View(g, off, len) = Text(h)
  <2>1. /\ f \in [Idx -> Cell] /\ 0 \in Nat /\ k \in Nat /\ k <= MaxCap /\ off \in Nat /\ len \in Nat
        /\ off + len <= k
    BY <1>1, <1>4
  <2>2. View(g, off, len) = View(f, 0 + off, len)
    <3> HIDE DEF f, off, len, k
    <3> QED BY ONLY <2>1, CopyView DEF g
  <2> QED BY <1>4, <2>2 DEF Text
<1>6. g \in [Idx -> Cell]
  <2> HIDE DEF f, k
  <2> QED BY <1>1, <1>4, MovesType
<1> HIDE DEF g
<1>7. b # v
  BY <1>1, <1>3 DEF IsFree
<1>8. hp \in [Bufs -> AllocType] /\ hp[b].cells = g /\ \A a \in Bufs \ {b, v} : hp[a] = heap[a]
  <2>1. Alloc(cap, g) \in AllocType /\ Alloc(cap, g).cells = g
    BY <1>6, AllocFacts
  <2> QED BY <1>1, <1>7, <2>1, Constants, TwoUpdates
<1> HIDE DEF hp
<1>9. Keeps(h, r, hp, w, gone, b, off, len)
  BY <1>1, <1>3, <1>4, <1>5, <1>8 DEF Keeps
<1>10. \A a \in Bufs : a # b /\ a # v => hp[a] = heap[a]
  BY <1>8
<1> HIDE DEF len, off
<1> QED BY <1>1, <1>3, <1>9, <1>10, FinishSpares

\* The block is shared: the bytes are copied out and the share is released.
LEMMA CopyOutAppends ==
  ASSUME IInv, NEW h \in Handles, NEW n \in Cap, NEW w \in Seq(Cell), Len(w) <= n, NEW gone,
         hd[h].ty = "mut", NEW b \in Bufs, NEW cap \in Cap, copy_out(h, n, w, gone, b, cap)
  PROVE  Appends(h, w, gone)
<1> DEFINE v == hd[h].buf
           f == heap[v].cells
           off == hd[h].off
           len == hd[h].len
           repr == sh[hd[h].data].repr
           g == CopyOf(f, off, len)
           h1 == [heap EXCEPT ![b] = Alloc(cap, g)]
           hp == ReleasedHeap(h1, hd[h].data)
           r == [hd[h] EXCEPT !.data = NoShared, !.pos = 0, !.repr = repr, !.buf = b,
                              !.off = 0, !.cap = cap]
<1>1. /\ v \in Bufs /\ v # NoBuf /\ hd[h] \in HandleType /\ off \in Nat /\ len \in Nat /\ heap[v].live
      /\ heap \in [Bufs -> AllocType] /\ f \in [Idx -> Cell] /\ off + len <= MaxCap
  BY MutFacts
<1>2. Len(w) \in Nat /\ n \in Nat /\ MaxCap \in Nat /\ Len(w) <= n /\ cap \in Nat /\ cap <= MaxCap
  BY LenNat, ConstantsAssumption, SMTT(60) DEF Cap
<1>3. /\ Finish(h, r, hp, w, gone) /\ IsFree(b) /\ h \in seen
      /\ cap = Larger(len + n, original_capacity_from_repr(repr))
  BY DEF copy_out
<1>4. IsArc(h) /\ b # v
  BY <1>1, <1>3 DEF IInv, HandleInv, HandleOK, IsArc, IsFree
<1>5. cap >= len + n
  <2> DEFINE d == original_capacity_from_repr(repr)
  <2>1. cap = Larger(len + n, d)
    BY <1>3
  <2> HIDE DEF d, len
  <2>2. CASE len + n >= d
    BY ONLY <1>1, <1>2, <2>1, <2>2, SMTT(60) DEF Larger
  <2>3. CASE ~(len + n >= d)
    BY ONLY <1>1, <1>2, <2>1, <2>3, SMTT(60) DEF Larger
  <2> QED BY <2>2, <2>3
<1>6. Fit(0, len + Len(w)) /\ 0 \in Nat
  BY ONLY <1>1, <1>2, <1>5, SMTT(60) DEF Fit
<1>7. Fields(r, w, b, 0, len)
  <2> HIDE DEF repr
  <2> QED BY <1>1 DEF Fields, HandleType
<1> HIDE DEF r
<1>8. View(g, 0, len) = Text(h)
  <2>1. f \in [Idx -> Cell] /\ Fit(off, len)
    BY <1>1 DEF Fit
  <2>2. View(g, 0, len) = View(f, off, len)
    <3> HIDE DEF f, off, len
    <3> QED BY ONLY <2>1, FrontView DEF g
  <2> QED BY <2>2 DEF Text
<1>9. g \in [Idx -> Cell]
  BY <1>1, MovesType
<1> HIDE DEF g
<1>10. h1 \in [Bufs -> AllocType] /\ h1[b].cells = g /\ \A a \in Bufs : a # b => h1[a] = heap[a]
  <2>1. Alloc(cap, g) \in AllocType /\ Alloc(cap, g).cells = g
    BY <1>9, AllocFacts
  <2> QED BY <1>1, <2>1
<1> HIDE DEF h1
<1>11. /\ \A a \in Bufs : a # v => hp[a] = h1[a]
       /\ Alone(h) \/ hp[v] = h1[v]
  BY <1>4, <1>10, ReleasedSpares
<1>12. hp \in [Bufs -> AllocType]
  BY <1>10, Constants DEF ReleasedHeap
<1> HIDE DEF hp
<1>13. Keeps(h, r, hp, w, gone, b, 0, len)
  BY <1>1, <1>3, <1>4, <1>6, <1>7, <1>8, <1>10, <1>11, <1>12 DEF Keeps
<1>14. /\ Alone(h) \/ hp[v] = heap[v]
       /\ \A a \in Bufs : a # b /\ a # v => hp[a] = heap[a]
  BY <1>1, <1>4, <1>10, <1>11
<1> HIDE DEF len
<1> QED BY <1>1, <1>3, <1>13, <1>14, FinishSpares

\* Every branch of reserve_inner, with the write that follows it.
LEMMA ReserveAppends ==
  ASSUME IInv, NEW h \in Handles, NEW n \in Cap, NEW w \in Seq(Cell), Len(w) <= n, NEW gone,
         ReserveThen(h, n, w, gone)
  PROVE  hd[h].ty = "mut" /\ Appends(h, w, gone)
<1>1. hd[h].ty = "mut"
  BY DEF ReserveThen
<1>2. ASSUME NEW b \in Bufs, NEW cap \in Cap,
             \/ vec_grow(h, n, w, gone, b, cap)
             \/ arc_grow(h, n, w, gone, b, cap)
             \/ copy_out(h, n, w, gone, b, cap)
      PROVE  Appends(h, w, gone)
  BY <1>1, <1>2, ReallocAppends, CopyOutAppends
<1> QED BY <1>1, <1>2, InPlaceAppends, ShiftAppends, ExpandAppends DEF ReserveThen

\* reserve (w empty) and extend_from_slice: the string of h is extended, and no
\* other is touched.
LEMMA ExtendRefines ==
  ASSUME IInv, Initialized, NEW h \in Handles, NEW n \in Cap, NEW w \in Seq(Byte), w \in Seq(Cell),
         Len(w) <= n, ReserveThen(h, n, w, {})
  PROVE  Abstract!Next
<1> DEFINE u == Text(h)
<1>1. hd[h].ty = "mut" /\ Appends(h, w, {})
  BY ReserveAppends
<1>2. Shows(h, "mut", u)
  BY <1>1, ShowsText
<1>3. Obj'[h] = Val("mut", u \o w) /\ \A x \in Handles : x # h => Obj'[x] = Obj[x]
  BY <1>1 DEF Appends
<1> HIDE DEF u
<1>4. u \in Seq(Byte)
  BY <1>2, ShowsFields DEF Initialized
<1>5. Becomes(h, "mut", u \o w)
  BY <1>3, BecomesFacts
<1> QED BY <1>2, <1>4, <1>5, StepExtend

\* unsplit when the two are not neighbours: the argument's bytes are appended.
LEMMA UnsplitCopiedRefines ==
  ASSUME IInv, NEW h \in Handles, NEW o \in Handles, unsplit_copied(h, o)
  PROVE  Abstract!Next
<1> DEFINE w == Text(o)
<1>1. hd[o].ty = "mut" /\ h # o /\ ReserveThen(h, hd[o].len, Slice(hd[o]), {o})
  BY DEF unsplit_copied, Idle
<1>2. hd[o].buf # NoBuf /\ hd[o] \in HandleType
  BY <1>1, MutFacts
<1>3. w \in Seq(Cell) /\ Len(w) = hd[o].len /\ hd[o].len \in Cap
  BY <1>2, TextFacts DEF HandleType
<1>4. Slice(hd[o]) = w
  BY DEF Text, Slice, View
<1>5. ReserveThen(h, hd[o].len, w, {o})
  BY <1>1, <1>4
<1>6. Len(w) <= hd[o].len
  BY ONLY <1>3, SMTT(60) DEF Cap
<1> HIDE DEF w
<1>7. hd[h].ty = "mut" /\ Appends(h, w, {o})
  BY <1>3, <1>5, <1>6, ReserveAppends
<1>8. /\ Obj'[h] = Val("mut", Text(h) \o w) /\ hd'[o].ty = "moved"
      /\ \A x \in Handles : x # h /\ x # o => Obj'[x] = Obj[x]
  BY <1>1, <1>7 DEF Appends
<1> QED BY <1>1, <1>7, <1>8, JoinedStep DEF w

\* Nothing that a handle shows changes when handles and cells do not.
LEMMA StutterRefines ==
  ASSUME hd' = hd, heap' = heap
  PROVE  Obj' = Obj
BY DEF Obj, InUse, Slice

\* reserve, extend_from_slice, and is_unique answering false.
LEMMA GrowRefines ==
  ASSUME IInv, Initialized, NEW h \in Handles, Grow(h)
  PROVE  Abstract!Next \/ Obj' = Obj
<1>1. ASSUME NEW n \in Cap, reserve(h, n) PROVE Abstract!Next
  <2>1. << >> \in Seq(Cell) /\ << >> \in Seq(Byte) /\ Len(<< >>) <= n
    BY SMTT(60) DEF Cap
  <2>2. ReserveThen(h, n, << >>, {})
    BY <1>1 DEF reserve
  <2> QED BY <2>1, <2>2, ExtendRefines
<1>2. ASSUME NEW w \in Slices, extend_from_slice(h, w) PROVE Abstract!Next
  <2>1. w \in Seq(Cell) /\ Len(w) \in Cap /\ Len(w) <= Len(w)
    BY SlicesType, SMTT(60) DEF Cap
  <2>2. ReserveThen(h, Len(w), w, {}) /\ w \in Seq(Byte)
    BY <1>2, SlicesBytes DEF extend_from_slice
  <2>3. PICK n \in Cap : n = Len(w)
    BY <2>1
  <2> QED BY <2>1, <2>2, <2>3, ExtendRefines
<1>3. ASSUME LoadNotUnique(h) PROVE Obj' = Obj
  <2>1. hd' = hd /\ heap' = heap
    BY <1>3 DEF LoadNotUnique
  <2> QED BY <2>1, StutterRefines
<1> QED BY <1>1, <1>2, <1>3 DEF Grow

-----------------------------------------------------------------------------
(* The theorem.                                                            *)

\* At the start no handle shows anything.
LEMMA InitRefines == Init => Abstract!Init /\ Initialized
<1> SUFFICES ASSUME Init PROVE Abstract!Init /\ Initialized
  OBVIOUS
<1>1. \A h \in Handles : hd[h].ty = "none"
  BY NoHandleFields DEF Init
<1>2. \A h \in Handles : Obj[h] = Val("none", << >>)
  BY <1>1, ShowsText DEF Shows
<1>3. Abstract!Init
  <2>1. Obj = [h \in Handles |-> [ty |-> "none", s |-> << >>]]
    BY <1>2, ObjIsFun DEF Val
  <2> QED BY <2>1 DEF Abstract!Init, Abstract!Absent
<1>4. \A h \in Handles : Obj[h].s = << >>
  BY <1>2, ValFields
<1>5. << >> \in Seq(Byte)
  BY SMTT(60)
<1> QED BY <1>3, <1>4, <1>5 DEF Initialized

\* Every step is a step of the byte strings, or not seen by them.
LEMMA NextRefines == IInv /\ Initialized /\ [Next]_vars => [Abstract!Next]_Obj /\ Initialized'
<1> SUFFICES ASSUME IInv, Initialized, [Next]_vars PROVE [Abstract!Next]_Obj /\ Initialized'
  OBVIOUS
<1>1. ASSUME NEW h \in Handles, Edit(h) PROVE Abstract!Next
  BY <1>1, EditRefines, StoreRefines DEF Edit
<1>2. ASSUME NEW h \in Handles, Unsplit(h) PROVE Abstract!Next
  BY <1>2, UnsplitRefines, UnsplitCopiedRefines DEF Unsplit
<1>3. ASSUME NEW h \in Handles, Convert(h) PROVE Abstract!Next
  BY <1>3, IntoVecRefines, IntoMutRefines, CopiedRefines DEF Convert
<1>4. ASSUME Next PROVE Abstract!Next \/ Obj' = Obj
  <2>1. PICK h \in Handles : \/ Create(h) \/ Split(h) \/ Edit(h) \/ Grow(h) \/ Unsplit(h)
                             \/ Share(h) \/ Convert(h) \/ drop(h)
    BY <1>4 DEF Next
  <2>2. Create(h) \/ Split(h) \/ Share(h) => Abstract!Next
    BY CreateRefines, SplitRefines, ShareRefines
  <2>3. Grow(h) \/ drop(h) => Abstract!Next \/ Obj' = Obj
    BY GrowRefines, DropRefines
  <2> QED BY <1>1, <1>2, <1>3, <2>1, <2>2, <2>3
<1>5. ASSUME UNCHANGED vars PROVE Obj' = Obj
  <2>1. hd' = hd /\ heap' = heap
    BY <1>5 DEF vars
  <2> QED BY <2>1, StutterRefines
<1>6. Abstract!Next \/ Obj' = Obj
  BY <1>4, <1>5
<1>7. Initialized'
  BY <1>6, StepInitialized DEF Initialized
<1> QED BY <1>6, <1>7

\* No byte of a handle is one that was never written: with_capacity and reserve
\* hand out memory that stays outside every slice until it has been filled.
THEOREM OnlyWrittenBytes == Spec => []Initialized
BY Invariance, InitRefines, NextRefines, PTL DEF Spec

\* BytesMut and Bytes are byte strings with value semantics, whatever they share:
\* each operation on the heap changes the strings of the handles it is called on,
\* as the abstract operation does, and no other string.
THEOREM Refinement == Spec => ValueSemantics
BY Invariance, InitRefines, NextRefines, PTL DEF Spec, ValueSemantics, Abstract!Spec
=============================================================================
