---------------------------- MODULE Bytes_lemmas ----------------------------
(***************************************************************************)
(* The inductive invariant of Bytes, and the changes that keep it.  The    *)
(* invariant is an operator on values of the variables: H the handles, M   *)
(* the heap, B the blocks, C the clones in progress, lo whether a count    *)
(* may be lost.  An action is a sequence of elementary changes of such     *)
(* values, each of which keeps the invariant.                              *)
(***************************************************************************)
EXTENDS Bytes, FiniteSetTheorems, TLAPS

\* The prover of a leaf that names none, and the seconds it may take.
USE ZenonT(30)

-----------------------------------------------------------------------------
(* The inductive invariant.                                                *)

VTables == {"none", "static", "owned", "promotable", "shared", "copying", "taking", "vec"}
HandleType ==
  [vt : VTables, buf : Bufs \cup {NoBuf}, sh : Shareds \cup {NoShared},
   off : Nat, len : Nat, cap : Nat, val : Seq(Nat)]
AllocType == [live : BOOLEAN, bytes : Seq(Nat), kept : BOOLEAN]
BlockType == [live : BOOLEAN, buf : Bufs \cup {NoBuf}, cap : Nat, ref : Nat, owned : BOOLEAN, kept : Nat]

Types(H, M, B, C) ==
  /\ H \in [Handles -> HandleType]
  /\ M \in [Bufs -> AllocType]
  /\ B \in [Shareds -> BlockType]
  /\ C \in [Threads -> {Idle} \cup [h : Handles]]

\* What the vtable says of the pointers.
Kind(b) ==
  /\ b.vt = "none" => b = None
  /\ b.vt = "static" => b.buf = NoBuf
  /\ b.vt = "vec" => b.sh = NoShared
  /\ b.vt \in {"owned", "shared", "copying", "taking"} => b.sh # NoShared
  /\ b.vt = "promotable" => b.buf # NoBuf
  /\ b.buf = NoBuf => b.sh = NoShared

\* The only owner's allocation is there; a block is the one of the allocation, and
\* counts 1 once a handle saw that it does and is about to take it apart.
Linked(b, M, B) ==
  /\ b.buf # NoBuf /\ b.sh = NoShared => M[b.buf].live
  /\ b.sh # NoShared /\ B[b.sh].live =>
       /\ B[b.sh].buf = b.buf /\ (B[b.sh].owned <=> b.vt = "owned")
       /\ b.vt = "taking" => B[b.sh].ref = 1

\* The bytes are within the allocation, which has the size it will be freed with.
Fits(b, M) ==
  /\ Len(b.val) = b.len
  /\ b.buf = NoBuf => b.off + b.len <= Len(StaticBytes)
  /\ b.buf # NoBuf /\ M[b.buf].live =>
       /\ b.off + b.len <= Len(M[b.buf].bytes)
       /\ b.vt = "promotable" /\ b.sh = NoShared => b.off + b.len = Len(M[b.buf].bytes)
       /\ b.vt = "vec" => b.cap = Len(M[b.buf].bytes)

\* The bytes are the ones the handle was made with.
Shows(b, M) ==
  (IF b.buf = NoBuf THEN Sub(StaticBytes, b.off, b.len) ELSE Sub(M[b.buf].bytes, b.off, b.len)) = b.val

Good(b, M, B, lo) == Kind(b) /\ Linked(b, M, B) /\ Fits(b, M) /\ (~lo => Shows(b, M))

HandleInv(H, M, B, lo) == \A h \in Handles : Good(H[h], M, B, lo)

BlockInv(M, B) ==
  \A s \in Shareds : B[s].live =>
    /\ B[s].buf \in Bufs /\ M[B[s].buf].live
    /\ B[s].ref >= 1 /\ B[s].cap = Len(M[B[s].buf].bytes)

\* An allocation has one owner without a block, or one block.
OwnerInv(H, B) ==
  /\ \A g, h \in Handles : H[g].sh = NoShared /\ H[h].sh = NoShared /\ H[g].buf = H[h].buf /\ H[g].buf # NoBuf => g = h
  /\ \A h \in Handles, s \in Shareds : H[h].sh = NoShared /\ B[s].live => B[s].buf # H[h].buf
  /\ \A r, s \in Shareds : B[r].live /\ B[s].live /\ B[r].buf = B[s].buf => r = s

HoldersIn(H, s) == {h \in Handles : H[h].sh = s}

CountInv(H, B, lo) ==
  \A s \in Shareds :
    /\ B[s].live => B[s].ref <= Cardinality(HoldersIn(H, s)) + B[s].kept
    /\ ~lo =>
         /\ B[s].live => B[s].ref = Cardinality(HoldersIn(H, s)) + B[s].kept
         /\ ~B[s].live => HoldersIn(H, s) = {}

\* A reference to the allocation was never given back.
Kept(M, B, b) == M[b].kept \/ \E s \in Shareds : B[s].live /\ B[s].buf = b /\ B[s].kept > 0

LeakInv(H, M, B, lo) ==
  ~lo => \A b \in Bufs : M[b].live => (\E h \in Handles : H[h].buf = b) \/ Kept(M, B, b)

\* A handle that is being cloned stays promotable.
CloneInv(H, C) == \A t \in Threads : C[t] # Idle => H[C[t].h].vt = "promotable"

Inv(H, M, B, C, lo) ==
  /\ Types(H, M, B, C)
  /\ HandleInv(H, M, B, lo) /\ BlockInv(M, B) /\ OwnerInv(H, B)
  /\ CountInv(H, B, lo) /\ LeakInv(H, M, B, lo) /\ CloneInv(H, C)

IInv == lost \in BOOLEAN /\ Inv(hd, heap, sh, cl, lost)

-----------------------------------------------------------------------------
(* Sequences and records.                                                  *)

\* Sub is a part of a sequence: its length and its elements.
LEMMA SubFacts ==
  ASSUME NEW s \in Seq(Nat), NEW off \in Nat, NEW len \in Nat, off + len <= Len(s)
  PROVE  /\ Sub(s, off, len) \in Seq(Nat)
         /\ Len(Sub(s, off, len)) = len
         /\ \A i \in 1 .. len : Sub(s, off, len)[i] = s[off + i]
<1>1. Sub(s, off, len) \in Seq(Nat)
  BY SMTT(60) DEF Sub
<1>2. Len(Sub(s, off, len)) = len
  BY SMTT(60) DEF Sub
<1>3. \A i \in 1 .. len : Sub(s, off, len)[i] = s[off + i]
  BY SMTT(60) DEF Sub
<1> QED BY <1>1, <1>2, <1>3

\* Sequences with the same elements are equal.
LEMMA SameSeq ==
  ASSUME NEW s \in Seq(Nat), NEW t \in Seq(Nat), Len(s) = Len(t), \A i \in 1 .. Len(s) : s[i] = t[i]
  PROVE  s = t
BY SMTT(60)

\* A part of a part is a part.
LEMMA SubOfSub ==
  ASSUME NEW s \in Seq(Nat), NEW off \in Nat, NEW len \in Nat, off + len <= Len(s),
         NEW by \in Nat, NEW k \in Nat, by + k <= len
  PROVE  Sub(Sub(s, off, len), by, k) = Sub(s, off + by, k)
<1> DEFINE w == Sub(s, off, len)
<1>1. w \in Seq(Nat) /\ Len(w) = len /\ \A i \in 1 .. len : w[i] = s[off + i]
  BY SubFacts
<1>2. off + by \in Nat /\ (off + by) + k <= Len(s) /\ Len(s) \in Nat
  BY SMTT(60)
<1>3. /\ Sub(s, off + by, k) \in Seq(Nat) /\ Len(Sub(s, off + by, k)) = k
      /\ \A i \in 1 .. k : Sub(s, off + by, k)[i] = s[(off + by) + i]
  BY <1>2, SubFacts
<1> HIDE DEF w
<1>4. Sub(w, by, k) \in Seq(Nat) /\ Len(Sub(w, by, k)) = k /\ \A i \in 1 .. k : Sub(w, by, k)[i] = w[by + i]
  BY <1>1, SubFacts
<1>5. ASSUME NEW i \in 1 .. k PROVE Sub(w, by, k)[i] = Sub(s, off + by, k)[i]
  <2>1. by + i \in 1 .. len /\ (off + by) + i = off + (by + i)
    BY SMTT(60)
  <2> QED BY <2>1, <1>1, <1>3, <1>4
<1> QED BY <1>3, <1>4, <1>5, SameSeq DEF w

\* The part that is everything.
LEMMA SubAll ==
  ASSUME NEW s \in Seq(Nat)
  PROVE  Sub(s, 0, Len(s)) = s
<1>1. Len(s) \in Nat /\ 0 \in Nat /\ 0 + Len(s) <= Len(s) /\ \A i \in 1 .. Len(s) : 0 + i = i
  BY SMTT(60)
<1>2. /\ Sub(s, 0, Len(s)) \in Seq(Nat) /\ Len(Sub(s, 0, Len(s))) = Len(s)
      /\ \A i \in 1 .. Len(s) : Sub(s, 0, Len(s))[i] = s[0 + i]
  BY <1>1, SubFacts
<1>3. \A i \in 1 .. Len(s) : Sub(s, 0, Len(s))[i] = s[i]
  BY <1>1, <1>2, SMTT(60)
<1> QED BY <1>2, <1>3, SameSeq

\* Of no bytes there is one sequence.
LEMMA EmptyIsOne ==
  ASSUME NEW s \in Seq(Nat), Len(s) = 0
  PROVE  s = <<>>
BY SMTT(60)

\* from_vec's bytes.
LEMMA CountingSeq ==
  ASSUME NEW n \in Nat
  PROVE  [i \in 1 .. n |-> i] \in Seq(Nat) /\ Len([i \in 1 .. n |-> i]) = n
BY SMTT(60)

-----------------------------------------------------------------------------
(* What the conjuncts of the invariant need of a change.                   *)

\* An update of a function at one point.
LEMMA UpdateFacts ==
  ASSUME NEW S, NEW T, NEW f \in [S -> T], NEW a \in S, NEW v \in T
  PROVE  /\ [f EXCEPT ![a] = v] \in [S -> T]
         /\ [f EXCEPT ![a] = v][a] = v
         /\ \A x \in S : x # a => [f EXCEPT ![a] = v][x] = f[x]
OBVIOUS

\* A block b points to was there before and is the same, but for its count, which
\* stays as it is under a handle that is about to take the block apart.
BlockStays(b, B, B2) ==
  b.sh # NoShared /\ B2[b.sh].live =>
    /\ B[b.sh].live /\ B2[b.sh].buf = B[b.sh].buf /\ (B2[b.sh].owned <=> B[b.sh].owned)
    /\ b.vt = "taking" => B2[b.sh].ref = B[b.sh].ref

\* What the invariant says of a handle stays true when its allocation and its
\* block stay, or when counts are lost and both are freed or rewritten.
LEMMA GoodStays ==
  ASSUME NEW b, NEW M, NEW M2, NEW B, NEW B2, NEW lo,
         Good(b, M, B, lo),
         b.buf # NoBuf =>
           \/ M2[b.buf] = M[b.buf]
           \/ lo /\ b.sh # NoShared /\ (M2[b.buf].live => M[b.buf].live /\ Len(M2[b.buf].bytes) = Len(M[b.buf].bytes)),
         BlockStays(b, B, B2)
  PROVE  Good(b, M2, B2, lo)
<1>1. Kind(b)
  BY DEF Good
<1>2. Linked(b, M2, B2)
  BY DEF Good, Linked, BlockStays
<1>3. Fits(b, M2)
  BY DEF Good, Fits
<1>4. ~lo => Shows(b, M2)
  BY DEF Good, Shows
<1> QED BY <1>1, <1>2, <1>3, <1>4 DEF Good

\* The holders of a block are finitely many.
LEMMA HoldersFinite ==
  ASSUME NEW H, NEW s
  PROVE  IsFiniteSet(HoldersIn(H, s)) /\ Cardinality(HoldersIn(H, s)) \in Nat
<1>1. HoldersIn(H, s) \subseteq Handles
  BY DEF HoldersIn
<1>2. IsFiniteSet(HoldersIn(H, s))
  BY <1>1, BytesAssumption, FS_Subset
<1> QED BY <1>2, FS_CardinalityType

\* The same handles hold s.
LEMMA HoldersSame ==
  ASSUME NEW H, NEW H2, NEW s, \A x \in Handles : H2[x].sh = s <=> H[x].sh = s
  PROVE  HoldersIn(H2, s) = HoldersIn(H, s)
BY DEF HoldersIn

\* Every handle holds the block it held.
LEMMA HoldersUnmoved ==
  ASSUME NEW H, NEW H2, \A x \in Handles : H2[x].sh = H[x].sh
  PROVE  \A s : HoldersIn(H2, s) = HoldersIn(H, s)
<1> TAKE s
<1>1. \A x \in Handles : H2[x].sh = s <=> H[x].sh = s
  BY SMTT(60)
<1> QED BY <1>1, HoldersSame

\* h, and no other handle, joins or leaves the holders of s.
Joins(H, H2, h, s) == H[h].sh # s /\ H2[h].sh = s /\ \A x \in Handles : x # h => H2[x].sh = H[x].sh

\* One more handle holds s.
LEMMA HoldersMore ==
  ASSUME NEW H, NEW H2, NEW s, NEW h \in Handles, Joins(H, H2, h, s)
  PROVE  Cardinality(HoldersIn(H2, s)) = Cardinality(HoldersIn(H, s)) + 1
<1>1. HoldersIn(H2, s) = HoldersIn(H, s) \cup {h} /\ h \notin HoldersIn(H, s)
  BY DEF HoldersIn, Joins
<1>2. IsFiniteSet(HoldersIn(H, s))
  BY HoldersFinite
<1> QED BY <1>1, <1>2, FS_AddElement

\* One handle less holds s.
LEMMA HoldersLess ==
  ASSUME NEW H, NEW H2, NEW s, NEW h \in Handles, Joins(H2, H, h, s)
  PROVE  Cardinality(HoldersIn(H2, s)) = Cardinality(HoldersIn(H, s)) - 1
<1>1. HoldersIn(H2, s) = HoldersIn(H, s) \ {h} /\ h \in HoldersIn(H, s)
  BY SMTT(60) DEF HoldersIn, Joins
<1>2. IsFiniteSet(HoldersIn(H, s))
  BY HoldersFinite
<1> QED BY <1>1, <1>2, FS_RemoveElement

\* A block with one holder has no other.
LEMMA HolderAlone ==
  ASSUME NEW H, NEW s, NEW h \in Handles, H[h].sh = s, Cardinality(HoldersIn(H, s)) = 1
  PROVE  \A x \in Handles : H[x].sh = s => x = h
<1>1. IsFiniteSet(HoldersIn(H, s)) /\ h \in HoldersIn(H, s)
  BY HoldersFinite DEF HoldersIn
<1>2. PICK x : HoldersIn(H, s) = {x}
  BY <1>1, FS_Singleton
<1> QED BY <1>1, <1>2 DEF HoldersIn

\* No thread is cloning h.
Unborrowed(C, h) == \A t \in Threads : C[t].h # h
\* h may become b.
MayBe(C, h, b) == Unborrowed(C, h) \/ b.vt = "promotable"

\* A handle may change under no clone in progress, or stay promotable: the
\* handles that threads clone (shallow_clone_vec) remain promotable.
LEMMA CloneUpdate ==
  ASSUME NEW H, NEW C, NEW h \in Handles, NEW H2, CloneInv(H, C),
         MayBe(C, h, H2[h]),
         \A x \in Handles : x # h => H2[x] = H[x],
         C \in [Threads -> {Idle} \cup [h : Handles]]
  PROVE  CloneInv(H2, C)
<1> SUFFICES ASSUME NEW t \in Threads, C[t] # Idle PROVE H2[C[t].h].vt = "promotable"
  BY DEF CloneInv
<1>1. H[C[t].h].vt = "promotable"
  BY DEF CloneInv
<1>2. C[t] \in [h : Handles]
  OBVIOUS
<1>3. C[t].h \in Handles
  BY <1>2, SMTT(60)
<1> QED BY <1>1, <1>3 DEF MayBe, Unborrowed

\* The allocations and the blocks of the handles other than h are kept, or,
\* when counts are lost, freed or rewritten.
MemKept(H, h, M, M2, lo) ==
  \A x \in Handles : x # h /\ H[x].buf # NoBuf =>
    \/ M2[H[x].buf] = M[H[x].buf]
    \/ lo /\ H[x].sh # NoShared /\
         (M2[H[x].buf].live => M[H[x].buf].live /\ Len(M2[H[x].buf].bytes) = Len(M[H[x].buf].bytes))
BlocksKept(H, h, B, B2) == \A x \in Handles : x # h => BlockStays(H[x], B, B2)

\* One handle is rewritten; the others keep their layout when their allocations
\* and blocks keep theirs.
LEMMA HandleUpdate ==
  ASSUME NEW H, NEW H2, NEW M, NEW M2, NEW B, NEW B2, NEW lo, NEW h \in Handles,
         HandleInv(H, M, B, lo), \A x \in Handles : x # h => H2[x] = H[x],
         Good(H2[h], M2, B2, lo), MemKept(H, h, M, M2, lo), BlocksKept(H, h, B, B2)
  PROVE  HandleInv(H2, M2, B2, lo)
<1> SUFFICES ASSUME NEW x \in Handles PROVE Good(H2[x], M2, B2, lo)
  BY DEF HandleInv
<1>1. CASE x = h
  BY <1>1
<1>2. CASE x # h
  <2>1. Good(H[x], M, B, lo) /\ H2[x] = H[x]
    BY <1>2 DEF HandleInv
  <2>2. H[x].buf # NoBuf =>
          \/ M2[H[x].buf] = M[H[x].buf]
          \/ lo /\ H[x].sh # NoShared /\
               (M2[H[x].buf].live => M[H[x].buf].live /\ Len(M2[H[x].buf].bytes) = Len(M[H[x].buf].bytes))
    BY <1>2 DEF MemKept
  <2>3. BlockStays(H[x], B, B2)
    BY <1>2 DEF BlocksKept
  <2>4. Good(H[x], M2, B2, lo)
    BY <2>1, <2>2, <2>3, GoodStays
  <2> QED BY <2>1, <2>4
<1> QED BY <1>1, <1>2

-----------------------------------------------------------------------------
(* Elementary changes.                                                     *)

\* Once a count may be lost, less is said.
LEMMA LossKeepsInv ==
  ASSUME NEW H, NEW M, NEW B, NEW C, NEW lo, Inv(H, M, B, C, lo)
  PROVE  Inv(H, M, B, C, TRUE)
<1>1. HandleInv(H, M, B, TRUE)
  BY DEF Inv, HandleInv, Good
<1>2. CountInv(H, B, TRUE)
  BY DEF Inv, CountInv
<1>3. LeakInv(H, M, B, TRUE)
  BY DEF LeakInv
<1> QED BY <1>1, <1>2, <1>3 DEF Inv

\* A handle shows other bytes of the same allocation, or becomes a static one or
\* none if it has no allocation.
LEMMA ViewKeepsInv ==
  ASSUME NEW H, NEW M, NEW B, NEW C, NEW lo, Inv(H, M, B, C, lo),
         NEW h \in Handles, NEW b \in HandleType, b.buf = H[h].buf, b.sh = H[h].sh,
         Good(b, M, B, lo), MayBe(C, h, b)
  PROVE  Inv([H EXCEPT ![h] = b], M, B, C, lo)
<1> DEFINE H2 == [H EXCEPT ![h] = b]
<1>1. H \in [Handles -> HandleType] /\ C \in [Threads -> {Idle} \cup [h : Handles]]
  BY DEF Inv, Types
<1>2. H2 \in [Handles -> HandleType] /\ H2[h] = b /\ \A x \in Handles : x # h => H2[x] = H[x]
  BY <1>1, UpdateFacts
<1> HIDE DEF H2
<1>3. \A x \in Handles : H2[x].buf = H[x].buf /\ H2[x].sh = H[x].sh
  BY <1>2
<1>4. Types(H2, M, B, C)
  BY <1>2 DEF Inv, Types
<1>5. HandleInv(H2, M, B, lo)
  <2>1. MemKept(H, h, M, M, lo) /\ BlocksKept(H, h, B, B)
    BY DEF MemKept, BlocksKept, BlockStays
  <2>2. HandleInv(H, M, B, lo) /\ Good(H2[h], M, B, lo)
    BY <1>2 DEF Inv
  <2> QED BY <2>1, <2>2, <1>2, HandleUpdate
<1>6. OwnerInv(H2, B)
  BY <1>3, SMTT(60) DEF Inv, OwnerInv
<1>7. CountInv(H2, B, lo)
  <2>1. \A s \in Shareds : HoldersIn(H2, s) = HoldersIn(H, s)
    BY <1>3, HoldersUnmoved
  <2> QED BY <2>1 DEF Inv, CountInv
<1>8. LeakInv(H2, M, B, lo)
  BY <1>3 DEF Inv, LeakInv
<1>9. CloneInv(H2, C)
  <2>1. CloneInv(H, C) /\ MayBe(C, h, H2[h])
    BY <1>2 DEF Inv
  <2> QED BY <2>1, <1>1, <1>2, CloneUpdate
<1> QED BY <1>4, <1>5, <1>6, <1>7, <1>8, <1>9 DEF Inv, H2

\* A handle moves to a free variable.
LEMMA MoveKeepsInv ==
  ASSUME NEW H, NEW M, NEW B, NEW C, NEW lo, Inv(H, M, B, C, lo),
         NEW h \in Handles, NEW n \in Handles, n # h, H[n] = None, Unborrowed(C, h), None \in HandleType
  PROVE  Inv([H EXCEPT ![n] = H[h], ![h] = None], M, B, C, lo)
<1> DEFINE H1 == [H EXCEPT ![n] = H[h]]
           H2 == [H1 EXCEPT ![h] = None]
<1>1. H \in [Handles -> HandleType] /\ H[h] \in HandleType /\ C \in [Threads -> {Idle} \cup [h : Handles]]
  BY DEF Inv, Types
<1>2. H1 \in [Handles -> HandleType] /\ H1[n] = H[h] /\ \A x \in Handles : x # n => H1[x] = H[x]
  BY <1>1, UpdateFacts
<1>3. H2 = [H EXCEPT ![n] = H[h], ![h] = None]
  OBVIOUS
<1> HIDE DEF H1
<1>4. H2 \in [Handles -> HandleType] /\ H2[h] = None /\ \A x \in Handles : x # h => H2[x] = H1[x]
  BY <1>2, UpdateFacts
<1> HIDE DEF H2
<1>5. H2[h] = None /\ \A x \in Handles : x # h => H2[x] = IF x = n THEN H[h] ELSE H[x]
  BY <1>2, <1>4
<1>6. Types(H2, M, B, C)
  BY <1>4 DEF Inv, Types
<1>7. HandleInv(H2, M, B, lo)
  BY <1>5 DEF Inv, HandleInv
<1>8. OwnerInv(H2, B)
  <2> DEFINE old(x) == IF x = h THEN n ELSE IF x = n THEN h ELSE x
  <2>1. \A x \in Handles : old(x) \in Handles /\ H2[x] = H[old(x)]
    BY <1>5
  <2>2. \A x, y \in Handles : old(x) = old(y) => x = y
    OBVIOUS
  <2> HIDE DEF old
  <2>3. OwnerInv(H, B)
    BY DEF Inv
  <2>4. ASSUME NEW f \in Handles, NEW g \in Handles,
               H2[f].sh = NoShared, H2[g].sh = NoShared, H2[f].buf = H2[g].buf, H2[f].buf # NoBuf
        PROVE  f = g
    <3>1. H2[f] = H[old(f)] /\ H2[g] = H[old(g)] /\ old(f) \in Handles /\ old(g) \in Handles
      BY <2>1
    <3>2. old(f) = old(g)
      BY <3>1, <2>3, <2>4 DEF OwnerInv
    <3> QED BY <3>2, <2>2
  <2>5. ASSUME NEW g \in Handles, NEW s \in Shareds, H2[g].sh = NoShared, B[s].live
        PROVE  B[s].buf # H2[g].buf
    <3>1. H2[g] = H[old(g)] /\ old(g) \in Handles
      BY <2>1
    <3> QED BY <3>1, <2>3, <2>5 DEF OwnerInv
  <2> QED BY <2>3, <2>4, <2>5 DEF OwnerInv
<1>9. CountInv(H2, B, lo)
  <2>2. CASE H[h].sh = NoShared
    <3>0. None.sh = NoShared
      BY SMTT(60) DEF None
    <3>1. \A x \in Handles : H2[x].sh = H[x].sh
      BY <2>2, <3>0, <1>5
    <3>2. \A s \in Shareds : HoldersIn(H2, s) = HoldersIn(H, s)
      BY <3>1, HoldersUnmoved
    <3> QED BY <3>2 DEF Inv, CountInv
  <2>3. CASE H[h].sh # NoShared
    <3>1. None.sh = NoShared
      BY SMTT(60) DEF None
    <3>2. ASSUME NEW s \in Shareds PROVE Cardinality(HoldersIn(H2, s)) = Cardinality(HoldersIn(H, s)) /\
                                         (HoldersIn(H, s) = {} => HoldersIn(H2, s) = {})
      <4>1. CASE H[h].sh # s
        <5>1. s # NoShared
          BY BytesAssumption
        <5>2. \A x \in Handles : H2[x].sh = s <=> H[x].sh = s
          BY <4>1, <5>1, <3>1, <1>5
        <5> QED BY <5>2, HoldersSame
      <4>2. CASE H[h].sh = s
        <5>1. s # NoShared
          BY BytesAssumption
        <5>2. Cardinality(HoldersIn(H1, s)) = Cardinality(HoldersIn(H, s)) + 1
          <6>1. Joins(H, H1, n, s)
            BY <4>2, <5>1, <3>1, <1>2 DEF Joins
          <6> QED BY <6>1, HoldersMore
        <5>3. H1[h].sh = s /\ H2[h].sh # s
          BY <4>2, <5>1, <3>1, <1>2, <1>4
        <5>4. Cardinality(HoldersIn(H2, s)) = Cardinality(HoldersIn(H1, s)) - 1
          <6>1. Joins(H2, H1, h, s)
            BY <5>3, <1>4 DEF Joins
          <6> QED BY <6>1, HoldersLess
        <5>5. Cardinality(HoldersIn(H, s)) \in Nat
          BY HoldersFinite
        <5>6. HoldersIn(H, s) # {}
          BY <4>2 DEF HoldersIn
        <5> QED BY <5>2, <5>4, <5>5, <5>6, SMTT(60)
      <4> QED BY <4>1, <4>2
    <3> QED BY <3>2 DEF Inv, CountInv
  <2> QED BY <2>2, <2>3
<1>10. LeakInv(H2, M, B, lo)
  <2>1. \A b \in Bufs : b # NoBuf
    BY BytesAssumption
  <2>2. None.buf = NoBuf
    BY SMTT(60) DEF None
  <2>3. \A b \in Bufs, x \in Handles : H[x].buf = b => \E y \in Handles : H2[y].buf = b
    BY <2>1, <2>2, <1>5
  <2> QED BY <2>3 DEF Inv, LeakInv
<1>11. CloneInv(H2, C)
  <2>1. None.vt # "promotable"
    BY SMTT(60) DEF None
  <2>2. ASSUME NEW t \in Threads, C[t] # Idle PROVE H2[C[t].h].vt = "promotable"
    <3>1. H[C[t].h].vt = "promotable"
      BY <2>2 DEF Inv, CloneInv
    <3>2. C[t] \in [h : Handles]
      BY <2>2, <1>1
    <3>3. C[t].h \in Handles
      BY <3>2, SMTT(60)
    <3> QED BY <3>1, <3>3, <2>1, <1>5 DEF Unborrowed
  <2> QED BY <2>2 DEF CloneInv
<1> QED BY <1>3, <1>6, <1>7, <1>8, <1>9, <1>10, <1>11 DEF Inv

\* What the types say of the pointers.
LEMMA PointerTypes ==
  ASSUME NEW H, NEW M, NEW B, NEW C, Types(H, M, B, C)
  PROVE  /\ \A x \in Handles : H[x] \in HandleType /\ H[x].buf \in Bufs \cup {NoBuf} /\ H[x].sh \in Shareds \cup {NoShared}
         /\ \A x \in Handles : H[x].off \in Nat /\ H[x].len \in Nat /\ H[x].val \in Seq(Nat)
         /\ \A s \in Shareds : B[s] \in BlockType /\ B[s].ref \in Nat /\ B[s].kept \in Nat
<1>1. ASSUME NEW x \in Handles
      PROVE  /\ H[x] \in HandleType /\ H[x].buf \in Bufs \cup {NoBuf} /\ H[x].sh \in Shareds \cup {NoShared}
             /\ H[x].off \in Nat /\ H[x].len \in Nat /\ H[x].val \in Seq(Nat)
  <2>1. H[x] \in HandleType
    BY DEF Types
  <2> QED BY <2>1, SMTT(60) DEF HandleType
<1>2. ASSUME NEW s \in Shareds PROVE B[s] \in BlockType /\ B[s].ref \in Nat /\ B[s].kept \in Nat
  <2>1. B[s] \in BlockType
    BY DEF Types
  <2> QED BY <2>1, SMTT(60) DEF BlockType
<1> QED BY <1>1, <1>2

\* A handle without allocation gets a new one, without a block.
LEMMA AllocKeepsInv ==
  ASSUME NEW H, NEW M, NEW B, NEW C, NEW lo, Inv(H, M, B, C, lo),
         NEW h \in Handles, H[h].buf = NoBuf, Unborrowed(C, h),
         NEW v \in Bufs, ~M[v].live, \A x \in Handles : H[x].buf # v,
         NEW a \in AllocType, a.live, NEW b \in HandleType, b.buf = v, b.sh = NoShared,
         Good(b, [M EXCEPT ![v] = a], B, lo)
  PROVE  Inv([H EXCEPT ![h] = b], [M EXCEPT ![v] = a], B, C, lo)
<1> DEFINE H2 == [H EXCEPT ![h] = b]
           M2 == [M EXCEPT ![v] = a]
<1>1. /\ H \in [Handles -> HandleType] /\ C \in [Threads -> {Idle} \cup [h : Handles]]
      /\ M \in [Bufs -> AllocType]
  BY DEF Inv, Types
<1>2. H2 \in [Handles -> HandleType] /\ H2[h] = b /\ \A x \in Handles : x # h => H2[x] = H[x]
  BY <1>1, UpdateFacts
<1>3. M2 \in [Bufs -> AllocType] /\ M2[v] = a /\ \A x \in Bufs : x # v => M2[x] = M[x]
  BY <1>1, UpdateFacts
<1>4. Good(b, M2, B, lo)
  OBVIOUS
<1> HIDE DEF H2, M2
<1>5. \A x \in Handles : H[x].buf \in Bufs \cup {NoBuf}
  BY PointerTypes DEF Inv
<1>6. v # NoBuf
  BY BytesAssumption
<1>7. H[h].sh = NoShared
  BY DEF Inv, HandleInv, Good, Kind
<1>8. Types(H2, M2, B, C)
  BY <1>2, <1>3 DEF Inv, Types
<1>9. HandleInv(H2, M2, B, lo)
  <2>1. MemKept(H, h, M, M2, lo) /\ BlocksKept(H, h, B, B)
    BY <1>3, <1>5 DEF MemKept, BlocksKept, BlockStays
  <2>2. HandleInv(H, M, B, lo) /\ Good(H2[h], M2, B, lo)
    BY <1>2, <1>4 DEF Inv
  <2> QED BY <2>1, <2>2, <1>2, HandleUpdate
<1>10. \A s \in Shareds : B[s].live => B[s].buf \in Bufs /\ B[s].buf # v
  BY DEF Inv, BlockInv
<1>11. BlockInv(M2, B)
  BY <1>10, <1>3 DEF Inv, BlockInv
<1>12. OwnerInv(H2, B)
  BY <1>2, <1>6, <1>10, SMTT(60) DEF Inv, OwnerInv
<1>13. CountInv(H2, B, lo)
  <2>1. \A x \in Handles : H2[x].sh = H[x].sh
    BY <1>2, <1>7
  <2>2. \A s \in Shareds : HoldersIn(H2, s) = HoldersIn(H, s)
    BY <2>1, HoldersUnmoved
  <2> QED BY <2>2 DEF Inv, CountInv
<1>14. LeakInv(H2, M2, B, lo)
  <2>1. \A x \in Handles : H[x].buf # NoBuf => x # h
    OBVIOUS
  <2>2. ASSUME NEW c \in Bufs, ~lo, M2[c].live
        PROVE  (\E x \in Handles : H2[x].buf = c) \/ Kept(M2, B, c)
    <3>1. CASE c = v
      BY <3>1, <1>2
    <3>2. CASE c # v
      <4>1. c # NoBuf /\ M2[c] = M[c]
        BY <3>2, <2>2, <1>3, BytesAssumption
      <4>2. (\E x \in Handles : H[x].buf = c) \/ Kept(M, B, c)
        BY <4>1, <2>2 DEF Inv, LeakInv
      <4>3. Kept(M, B, c) => Kept(M2, B, c)
        BY <4>1 DEF Kept
      <4> QED BY <4>1, <4>2, <4>3, <2>1, <1>2
    <3> QED BY <3>1, <3>2
  <2> QED BY <2>2 DEF LeakInv
<1>15. CloneInv(H2, C)
  <2>1. CloneInv(H, C) /\ MayBe(C, h, H2[h])
    BY DEF Inv, MayBe
  <2> QED BY <2>1, <1>1, <1>2, CloneUpdate
<1> QED BY <1>8, <1>9, <1>11, <1>12, <1>13, <1>14, <1>15 DEF Inv, H2, M2

\* The only owner of an allocation puts it under a new block.
LEMMA CountKeepsInv ==
  ASSUME NEW H, NEW M, NEW B, NEW C, NEW lo, Inv(H, M, B, C, lo),
         NEW h \in Handles, H[h].buf # NoBuf, H[h].sh = NoShared,
         NEW s \in Shareds, ~B[s].live, \A x \in Handles : H[x].sh # s,
         NEW k \in BlockType, k.live, k.buf = H[h].buf, k.ref = 1, k.kept = 0, k.cap = Len(M[k.buf].bytes),
         NEW b \in HandleType, b.buf = H[h].buf, b.sh = s, Good(b, M, [B EXCEPT ![s] = k], lo),
         MayBe(C, h, b)
  PROVE  Inv([H EXCEPT ![h] = b], M, [B EXCEPT ![s] = k], C, lo)
<1> DEFINE H2 == [H EXCEPT ![h] = b]
           B2 == [B EXCEPT ![s] = k]
<1>1. /\ H \in [Handles -> HandleType] /\ C \in [Threads -> {Idle} \cup [h : Handles]]
      /\ B \in [Shareds -> BlockType]
  BY DEF Inv, Types
<1>2. H2 \in [Handles -> HandleType] /\ H2[h] = b /\ \A x \in Handles : x # h => H2[x] = H[x]
  BY <1>1, UpdateFacts
<1>3. B2 \in [Shareds -> BlockType] /\ B2[s] = k /\ \A x \in Shareds : x # s => B2[x] = B[x]
  BY <1>1, UpdateFacts
<1>4. Good(b, M, B2, lo)
  OBVIOUS
<1> HIDE DEF H2, B2
<1>5. \A x \in Handles : H[x].buf \in Bufs \cup {NoBuf} /\ H[x].sh \in Shareds \cup {NoShared}
  BY PointerTypes DEF Inv
<1>6. s # NoShared /\ k.buf \in Bufs /\ k.buf # NoBuf
  BY <1>5, BytesAssumption
<1>7. M[k.buf].live
  BY DEF Inv, HandleInv, Good, Linked
<1>8. Types(H2, M, B2, C)
  BY <1>2, <1>3 DEF Inv, Types
<1>9. HandleInv(H2, M, B2, lo)
  <2>1. \A x \in Handles : x # h /\ H[x].sh # NoShared => B2[H[x].sh] = B[H[x].sh]
    BY <1>3, <1>5
  <2>2. HandleInv(H, M, B, lo) /\ Good(H2[h], M, B2, lo)
    BY <1>2, <1>4 DEF Inv
  <2>3. MemKept(H, h, M, M, lo)
    BY DEF MemKept
  <2>4. ASSUME NEW x \in Handles, x # h PROVE BlockStays(H[x], B, B2)
    <3>1. CASE H[x].sh = NoShared
      BY <3>1 DEF BlockStays
    <3>2. CASE H[x].sh # NoShared
      <4>1. B2[H[x].sh] = B[H[x].sh]
        BY <2>1, <2>4, <3>2
      <4> QED BY <4>1 DEF BlockStays
    <3> QED BY <3>1, <3>2
  <2>5. BlocksKept(H, h, B, B2)
    BY <2>4 DEF BlocksKept
  <2>6. h \in Handles /\ \A x \in Handles : x # h => H2[x] = H[x]
    BY <1>2
  <2> QED BY ONLY <2>2, <2>3, <2>5, <2>6, HandleUpdate, ZenonT(30)
<1>10. BlockInv(M, B2)
  <2>1. k.ref >= 1
    BY SMTT(60)
  <2> QED BY <2>1, <1>3, <1>6, <1>7 DEF Inv, BlockInv
<1>11. OwnerInv(H2, B2)
  <2>1. OwnerInv(H, B)
    BY DEF Inv
  <2>2. \A f, g \in Handles : H2[f].sh = NoShared /\ H2[g].sh = NoShared /\ H2[f].buf = H2[g].buf /\ H2[f].buf # NoBuf => f = g
    BY <2>1, <1>2, <1>6, SMTT(60) DEF OwnerInv
  <2>3. \A g \in Handles, r \in Shareds : H2[g].sh = NoShared /\ B2[r].live => B2[r].buf # H2[g].buf
    BY <2>1, <1>2, <1>3, <1>6, SMTT(60) DEF OwnerInv
  <2>4. \A q, r \in Shareds : B2[q].live /\ B2[r].live /\ B2[q].buf = B2[r].buf => q = r
    BY <2>1, <1>3, SMTT(60) DEF OwnerInv
  <2> QED BY <2>2, <2>3, <2>4 DEF OwnerInv
<1>12. CountInv(H2, B2, lo)
  <2>1. HoldersIn(H, s) = {}
    BY DEF HoldersIn
  <2>2. Cardinality(HoldersIn(H2, s)) = 1
    <3>1. HoldersIn(H2, s) = {h}
      BY <1>2 DEF HoldersIn
    <3> QED BY <3>1, FS_Singleton
  <2>3. ASSUME NEW r \in Shareds, r # s PROVE HoldersIn(H2, r) = HoldersIn(H, r) /\ B2[r] = B[r]
    <3>1. r # NoShared
      BY BytesAssumption
    <3>2. \A x \in Handles : H2[x].sh = r <=> H[x].sh = r
      BY <1>2, <2>3, <3>1
    <3>3. HoldersIn(H2, r) = HoldersIn(H, r)
      BY <3>2 DEF HoldersIn
    <3> QED BY <3>3, <2>3, <1>3
  <2>4. k.ref <= Cardinality(HoldersIn(H2, s)) + k.kept /\ k.ref = Cardinality(HoldersIn(H2, s)) + k.kept
    BY <2>2, SMTT(60)
  <2>5. CountInv(H, B, lo)
    BY DEF Inv
  <2> QED BY <2>3, <2>4, <2>5, <1>3 DEF CountInv
<1>13. LeakInv(H2, M, B2, lo)
  <2>1. \A x \in Handles : H2[x].buf = H[x].buf
    BY <1>2
  <2>2. \A r \in Shareds : B[r].live => B2[r] = B[r]
    BY <1>3
  <2>3. ASSUME NEW c \in Bufs, ~lo, M[c].live
        PROVE  (\E x \in Handles : H2[x].buf = c) \/ Kept(M, B2, c)
    <3>1. (\E x \in Handles : H[x].buf = c) \/ Kept(M, B, c)
      BY <2>3 DEF Inv, LeakInv
    <3> QED BY <3>1, <2>1, <2>2 DEF Kept
  <2> QED BY <2>3 DEF LeakInv
<1>14. CloneInv(H2, C)
  <2>1. CloneInv(H, C) /\ MayBe(C, h, H2[h])
    BY <1>2 DEF Inv
  <2> QED BY <2>1, <1>1, <1>2, CloneUpdate, SMTT(60)
<1> QED BY <1>8, <1>9, <1>10, <1>11, <1>12, <1>13, <1>14 DEF Inv, H2, B2

\* The count of s goes up, or is left as it is and lost.
Counts(B, B2, s, lo) ==
  /\ B2 \in [Shareds -> BlockType] /\ \A r \in Shareds : r # s => B2[r] = B[r]
  /\ B2[s].live /\ B2[s].buf = B[s].buf /\ B2[s].cap = B[s].cap /\ (B2[s].owned <=> B[s].owned)
  /\ B2[s].kept = B[s].kept /\ (B2[s].ref = B[s].ref + 1 \/ (lo /\ B2[s].ref = B[s].ref))

\* A free variable gets a view of the allocation that h holds through a block.
LEMMA ShareKeepsInv ==
  ASSUME NEW H, NEW M, NEW B, NEW C, NEW lo, Inv(H, M, B, C, lo),
         NEW n \in Handles, H[n].buf = NoBuf, Unborrowed(C, n),
         NEW h \in Handles, NEW s \in Shareds, H[h].sh = s, B[s].live,
         NEW B2, Counts(B, B2, s, lo),
         B2[s].ref = B[s].ref \/ \A x \in Handles : H[x].sh = s => H[x].vt # "taking",
         NEW b \in HandleType, b.buf = B[s].buf, b.sh = s, Good(b, M, B2, lo)
  PROVE  Inv([H EXCEPT ![n] = b], M, B2, C, lo)
<1> DEFINE H2 == [H EXCEPT ![n] = b]
<1>1. H \in [Handles -> HandleType] /\ C \in [Threads -> {Idle} \cup [h : Handles]]
  BY DEF Inv, Types
<1>2. H2 \in [Handles -> HandleType] /\ H2[n] = b /\ \A x \in Handles : x # n => H2[x] = H[x]
  BY <1>1, UpdateFacts
<1> HIDE DEF H2
<1>0. /\ B2 \in [Shareds -> BlockType] /\ \A r \in Shareds : r # s => B2[r] = B[r]
      /\ B2[s].live /\ B2[s].buf = B[s].buf /\ B2[s].cap = B[s].cap /\ (B2[s].owned <=> B[s].owned)
      /\ B2[s].kept = B[s].kept /\ (B2[s].ref = B[s].ref + 1 \/ (lo /\ B2[s].ref = B[s].ref))
  BY DEF Counts
<1>3. H[n].sh = NoShared /\ s # NoShared
  BY BytesAssumption DEF Inv, HandleInv, Good, Kind
<1>4. Types(H2, M, B2, C)
  BY <1>0, <1>2 DEF Inv, Types
<1>5. HandleInv(H2, M, B2, lo)
  <2>1. \A x \in Handles : H[x].sh \in Shareds \cup {NoShared}
    BY PointerTypes DEF Inv
  <2>2. BlocksKept(H, n, B, B2)
    <3> SUFFICES ASSUME NEW x \in Handles PROVE BlockStays(H[x], B, B2)
      BY DEF BlocksKept
    <3>1. CASE H[x].sh = s
      BY <3>1, <1>0 DEF BlockStays
    <3>2. CASE H[x].sh # s
      BY <3>2, <1>0, <2>1 DEF BlockStays
    <3> QED BY <3>1, <3>2
  <2>3. HandleInv(H, M, B, lo) /\ Good(H2[n], M, B2, lo) /\ MemKept(H, n, M, M, lo)
    BY <1>2 DEF Inv, MemKept
  <2> QED BY <2>2, <2>3, <1>2, HandleUpdate, SMTT(60)
<1>6. BlockInv(M, B2)
  <2>1. BlockInv(M, B) /\ B[s].ref \in Nat
    BY PointerTypes DEF Inv
  <2>2. B2[s].ref >= 1
    BY <1>0, <2>1, SMTT(60) DEF BlockInv
  <2> QED BY <1>0, <2>1, <2>2 DEF BlockInv
<1>7. OwnerInv(H2, B2)
  <2>1. OwnerInv(H, B)
    BY DEF Inv
  <2>2. \A g \in Handles : H2[g].sh = NoShared => H2[g] = H[g]
    BY <1>2, <1>3
  <2>3. \A r \in Shareds : (B2[r].live <=> B[r].live) /\ B2[r].buf = B[r].buf
    BY <1>0, SMTT(60)
  <2> QED BY <2>1, <2>2, <2>3, SMTT(60) DEF OwnerInv
<1>8. CountInv(H2, B2, lo)
  <2>1. CountInv(H, B, lo) /\ B[s].ref \in Nat /\ B[s].kept \in Nat
    BY PointerTypes DEF Inv
  <2>2. Cardinality(HoldersIn(H2, s)) = Cardinality(HoldersIn(H, s)) + 1
    <3>1. Joins(H, H2, n, s)
      BY <1>2, <1>3 DEF Joins
    <3> QED BY <3>1, HoldersMore, SMTT(60)
  <2>3. Cardinality(HoldersIn(H, s)) \in Nat
    BY HoldersFinite
  <2>4. ASSUME NEW r \in Shareds, r # s PROVE HoldersIn(H2, r) = HoldersIn(H, r)
    <3>1. r # NoShared
      BY BytesAssumption
    <3>2. \A x \in Handles : H2[x].sh = r <=> H[x].sh = r
      BY <1>2, <1>3, <2>4, <3>1, SMTT(60)
    <3> QED BY <3>2 DEF HoldersIn
  <2>5. /\ B2[s].ref <= Cardinality(HoldersIn(H2, s)) + B2[s].kept
        /\ ~lo => B2[s].ref = Cardinality(HoldersIn(H2, s)) + B2[s].kept
    BY <1>0, <2>1, <2>2, <2>3, SMTT(60) DEF CountInv
  <2> QED BY <1>0, <2>1, <2>4, <2>5 DEF CountInv
<1>9. LeakInv(H2, M, B2, lo)
  <2>1. ASSUME NEW c \in Bufs, ~lo, M[c].live
        PROVE  (\E x \in Handles : H2[x].buf = c) \/ Kept(M, B2, c)
    <3>1. (\E x \in Handles : H[x].buf = c) \/ Kept(M, B, c)
      BY <2>1 DEF Inv, LeakInv
    <3>2. c # NoBuf
      BY BytesAssumption
    <3>3. \A r \in Shareds : (B2[r].live <=> B[r].live) /\ B2[r].buf = B[r].buf /\ B2[r].kept = B[r].kept
      BY <1>0, SMTT(60)
    <3>4. Kept(M, B, c) => Kept(M, B2, c)
      BY <3>3 DEF Kept
    <3> QED BY <3>1, <3>2, <3>4, <1>2
  <2> QED BY <2>1 DEF LeakInv
<1>10. CloneInv(H2, C)
  <2>1. CloneInv(H, C) /\ MayBe(C, n, H2[n])
    BY DEF Inv, MayBe
  <2> QED BY <2>1, <1>1, <1>2, CloneUpdate, SMTT(60)
<1> QED BY <1>4, <1>5, <1>6, <1>7, <1>8, <1>9, <1>10 DEF Inv, H2

\* Unless counts are lost, a handle whose block counts 1 is its only holder.
LEMMA CountedAlone ==
  ASSUME NEW H, NEW M, NEW B, NEW C, NEW lo, Inv(H, M, B, C, lo), ~lo,
         NEW h \in Handles, NEW s \in Shareds, H[h].sh = s, B[s].live, B[s].ref = 1
  PROVE  \A x \in Handles : H[x].sh = s => x = h
<1>1. CountInv(H, B, lo) /\ B[s].kept \in Nat
  BY PointerTypes DEF Inv
<1>2. IsFiniteSet(HoldersIn(H, s)) /\ Cardinality(HoldersIn(H, s)) \in Nat /\ HoldersIn(H, s) # {}
  BY HoldersFinite DEF HoldersIn
<1>3. Cardinality(HoldersIn(H, s)) # 0
  BY <1>2, FS_EmptySet
<1>4. B[s].ref = Cardinality(HoldersIn(H, s)) + B[s].kept
  BY <1>1 DEF CountInv
<1>5. Cardinality(HoldersIn(H, s)) = 1
  BY <1>1, <1>2, <1>3, <1>4, SMTT(60)
<1> QED BY <1>5, HolderAlone, SMTT(60)

\* The only reference takes the allocation out of its block.
LEMMA TakeApartKeepsInv ==
  ASSUME NEW H, NEW M, NEW B, NEW C, NEW lo, Inv(H, M, B, C, lo),
         NEW h \in Handles, Unborrowed(C, h),
         NEW s \in Shareds, H[h].sh = s, B[s].live, ~B[s].owned, B[s].ref = 1,
         NEW b \in HandleType, b.buf = H[h].buf, b.sh = NoShared,
         Good(b, M, [B EXCEPT ![s] = NoBlock], lo), NoBlock \in BlockType
  PROVE  Inv([H EXCEPT ![h] = b], M, [B EXCEPT ![s] = NoBlock], C, lo)
<1> DEFINE H2 == [H EXCEPT ![h] = b]
           B2 == [B EXCEPT ![s] = NoBlock]
<1>1. /\ H \in [Handles -> HandleType] /\ C \in [Threads -> {Idle} \cup [h : Handles]]
      /\ B \in [Shareds -> BlockType]
  BY DEF Inv, Types
<1>2. H2 \in [Handles -> HandleType] /\ H2[h] = b /\ \A x \in Handles : x # h => H2[x] = H[x]
  BY <1>1, UpdateFacts
<1>3. B2 \in [Shareds -> BlockType] /\ B2[s] = NoBlock /\ \A x \in Shareds : x # s => B2[x] = B[x]
  BY <1>1, UpdateFacts
<1>4. Good(b, M, B2, lo)
  OBVIOUS
<1> HIDE DEF H2, B2
<1>5. ~B2[s].live
  BY <1>3, SMTT(60) DEF NoBlock
<1>6. s # NoShared /\ \A x \in Handles : H[x].sh \in Shareds \cup {NoShared}
  BY PointerTypes, BytesAssumption DEF Inv
<1>7. H[h].buf = B[s].buf
  BY <1>6 DEF Inv, HandleInv, Good, Linked
<1>8. Types(H2, M, B2, C)
  BY <1>2, <1>3 DEF Inv, Types
<1>9. HandleInv(H2, M, B2, lo)
  <2>1. BlocksKept(H, h, B, B2)
    BY <1>3, <1>5, <1>6 DEF BlocksKept, BlockStays
  <2>2. HandleInv(H, M, B, lo) /\ Good(H2[h], M, B2, lo) /\ MemKept(H, h, M, M, lo)
    BY <1>2, <1>4 DEF Inv, MemKept
  <2> QED BY <2>1, <2>2, <1>2, HandleUpdate
<1>10. BlockInv(M, B2)
  BY <1>3, <1>5 DEF Inv, BlockInv
<1>11. OwnerInv(H2, B2)
  <2>1. OwnerInv(H, B)
    BY DEF Inv
  <2>2. \A f, g \in Handles : H2[f].sh = NoShared /\ H2[g].sh = NoShared /\ H2[f].buf = H2[g].buf /\ H2[f].buf # NoBuf => f = g
    BY <2>1, <1>2, <1>7, SMTT(60) DEF OwnerInv
  <2>3. \A g \in Handles, r \in Shareds : H2[g].sh = NoShared /\ B2[r].live => B2[r].buf # H2[g].buf
    BY <2>1, <1>2, <1>3, <1>5, <1>7, SMTT(60) DEF OwnerInv
  <2>4. \A q, r \in Shareds : B2[q].live /\ B2[r].live /\ B2[q].buf = B2[r].buf => q = r
    BY <2>1, <1>3, <1>5, SMTT(60) DEF OwnerInv
  <2> QED BY <2>2, <2>3, <2>4 DEF OwnerInv
<1>12. CountInv(H2, B2, lo)
  <2>1. CountInv(H, B, lo)
    BY DEF Inv
  <2>2. ~lo => HoldersIn(H2, s) = {}
    <3>1. SUFFICES ASSUME ~lo PROVE HoldersIn(H2, s) = {}
      OBVIOUS
    <3>2. \A x \in Handles : H[x].sh = s => x = h
      BY <3>1, CountedAlone, SMTT(60)
    <3> QED BY <3>2, <1>2, <1>6 DEF HoldersIn
  <2>3. ASSUME NEW r \in Shareds, r # s PROVE HoldersIn(H2, r) = HoldersIn(H, r)
    <3>1. r # NoShared
      BY BytesAssumption
    <3>2. \A x \in Handles : H2[x].sh = r <=> H[x].sh = r
      BY <1>2, <2>3, <3>1, SMTT(60)
    <3> QED BY <3>2 DEF HoldersIn
  <2> QED BY <2>1, <2>2, <2>3, <1>3, <1>5 DEF CountInv
<1>13. LeakInv(H2, M, B2, lo)
  <2>1. \A x \in Handles : H2[x].buf = H[x].buf
    BY <1>2
  <2>2. \A r \in Shareds : B[r].live /\ B[r].buf # H[h].buf => B2[r] = B[r]
    BY <1>3, <1>7
  <2>3. ASSUME NEW c \in Bufs, ~lo, M[c].live
        PROVE  (\E x \in Handles : H2[x].buf = c) \/ Kept(M, B2, c)
    <3>1. (\E x \in Handles : H[x].buf = c) \/ Kept(M, B, c)
      BY <2>3 DEF Inv, LeakInv
    <3> QED BY <3>1, <2>1, <2>2 DEF Kept
  <2> QED BY <2>3 DEF LeakInv
<1>14. CloneInv(H2, C)
  <2>1. CloneInv(H, C) /\ MayBe(C, h, H2[h])
    BY DEF Inv, MayBe
  <2> QED BY <2>1, <1>1, <1>2, CloneUpdate, SMTT(60)
<1> QED BY <1>8, <1>9, <1>10, <1>11, <1>12, <1>13, <1>14 DEF Inv, H2, B2

\* A free variable satisfies what the invariant says of a handle.
LEMMA NoneIsGood ==
  ASSUME NEW M, NEW B, NEW lo
  PROVE  None \in HandleType /\ Good(None, M, B, lo)
<1>1. /\ None.vt = "none" /\ None.buf = NoBuf /\ None.sh = NoShared /\ None.off = 0 /\ None.len = 0
      /\ None.cap = 0 /\ None.val = <<>>
  BY SMTT(60) DEF None
<1>2. None \in HandleType
  BY SMTT(60) DEF None, HandleType, VTables
<1>3. Kind(None) /\ Linked(None, M, B)
  BY <1>1, SMTT(60) DEF Kind, Linked
<1>4. StaticBytes \in Seq(Nat) /\ Len(StaticBytes) \in Nat /\ 0 + 0 <= Len(StaticBytes)
  BY BytesAssumption, SMTT(60)
<1>5. Fits(None, M)
  BY <1>1, <1>4, SMTT(60) DEF Fits
<1>6. Sub(StaticBytes, 0, 0) \in Seq(Nat) /\ Len(Sub(StaticBytes, 0, 0)) = 0
  BY <1>4, SubFacts, SMTT(60)
<1>7. Sub(StaticBytes, 0, 0) = <<>>
  BY <1>6, EmptyIsOne
<1>8. Shows(None, M)
  BY <1>1, <1>7 DEF Shows
<1> QED BY <1>2, <1>3, <1>5, <1>8 DEF Good

\* The handle h goes, or stays and its count is lost.
Leaves(H, H2, C, h, lo) ==
  \/ Unborrowed(C, h) /\ H2 = [H EXCEPT ![h] = None]
  \/ lo /\ H2 = H

\* What changes when h goes.
LEMMA LeavesFacts ==
  ASSUME NEW H, NEW M, NEW B, NEW C, NEW lo, Inv(H, M, B, C, lo),
         NEW h \in Handles, NEW s \in Shareds, H[h].sh = s, NEW H2, Leaves(H, H2, C, h, lo)
  PROVE  /\ H2 \in [Handles -> HandleType]
         /\ \A x \in Handles : x # h => H2[x] = H[x]
         /\ H2[h] = None \/ (lo /\ H2[h] = H[h])
         /\ CloneInv(H2, C)
         /\ \A r \in Shareds : r # s => HoldersIn(H2, r) = HoldersIn(H, r)
         /\ Cardinality(HoldersIn(H2, s)) >= Cardinality(HoldersIn(H, s)) - 1
         /\ ~lo => Cardinality(HoldersIn(H2, s)) = Cardinality(HoldersIn(H, s)) - 1
<1>1. /\ H \in [Handles -> HandleType] /\ C \in [Threads -> {Idle} \cup [h : Handles]]
      /\ CloneInv(H, C) /\ Cardinality(HoldersIn(H, s)) \in Nat
  BY HoldersFinite DEF Inv, Types
<1>2. CASE lo /\ H2 = H
  BY <1>1, <1>2, SMTT(60)
<1>3. CASE Unborrowed(C, h) /\ H2 = [H EXCEPT ![h] = None]
  <2>1. None \in HandleType
    BY NoneIsGood
  <2>2. H2 \in [Handles -> HandleType] /\ H2[h] = None /\ \A x \in Handles : x # h => H2[x] = H[x]
    BY <1>1, <1>3, <2>1, UpdateFacts
  <2>3. MayBe(C, h, H2[h])
    BY <1>3 DEF MayBe
  <2>4. CloneInv(H2, C)
    BY <1>1, <2>2, <2>3, CloneUpdate, SMTT(60)
  <2>5. s # NoShared /\ None.sh = NoShared
    BY BytesAssumption, SMTT(60) DEF None
  <2>6. Joins(H2, H, h, s)
    BY <2>2, <2>5 DEF Joins
  <2>7. Cardinality(HoldersIn(H2, s)) = Cardinality(HoldersIn(H, s)) - 1
    BY <2>6, HoldersLess, SMTT(60)
  <2>8. ASSUME NEW r \in Shareds, r # s PROVE HoldersIn(H2, r) = HoldersIn(H, r)
    <3>1. r # NoShared
      BY BytesAssumption
    <3>2. \A x \in Handles : H2[x].sh = r <=> H[x].sh = r
      BY <2>2, <2>5, <2>8, <3>1, SMTT(60)
    <3> QED BY <3>2 DEF HoldersIn
  <2>9. Cardinality(HoldersIn(H2, s)) >= Cardinality(HoldersIn(H, s)) - 1
    BY <1>1, <2>7, SMTT(60)
  <2> QED BY <2>2, <2>4, <2>7, <2>8, <2>9
<1> QED BY <1>2, <1>3 DEF Leaves

\* A reference that is not the last is released.
LEMMA ReleaseKeepsInv ==
  ASSUME NEW H, NEW M, NEW B, NEW C, NEW lo, Inv(H, M, B, C, lo),
         NEW h \in Handles, NEW s \in Shareds, H[h].sh = s, B[s].live, B[s].ref # 1,
         NEW H2, Leaves(H, H2, C, h, lo)
  PROVE  Inv(H2, M, [B EXCEPT ![s].ref = @ - 1], C, lo)
<1> DEFINE k == [B[s] EXCEPT !.ref = @ - 1]
           B2 == [B EXCEPT ![s] = k]
<1>1. B2 = [B EXCEPT ![s].ref = @ - 1]
  BY SMTT(60)
<1>2. B \in [Shareds -> BlockType] /\ B[s] \in BlockType /\ B[s].ref \in Nat /\ B[s].kept \in Nat
  BY PointerTypes DEF Inv, Types
<1>3. B[s].ref >= 1
  BY DEF Inv, BlockInv
<1>4. /\ k \in BlockType /\ k.ref = B[s].ref - 1 /\ k.ref >= 1
      /\ k.live = B[s].live /\ k.buf = B[s].buf /\ k.cap = B[s].cap /\ k.owned = B[s].owned /\ k.kept = B[s].kept
  <2>1. B[s].ref - 1 \in Nat /\ B[s].ref - 1 >= 1
    BY <1>2, <1>3, SMTT(60)
  <2>2. k.ref = B[s].ref - 1
    BY <1>2, SMTT(60) DEF BlockType
  <2>3. k.live = B[s].live /\ k.buf = B[s].buf /\ k.cap = B[s].cap /\ k.owned = B[s].owned /\ k.kept = B[s].kept
    BY <1>2 DEF BlockType
  <2>4. k \in BlockType
    BY <1>2, <2>1 DEF BlockType
  <2> QED BY <2>1, <2>2, <2>3, <2>4
<1> HIDE DEF k
<1>5. B2 \in [Shareds -> BlockType] /\ B2[s] = k /\ \A r \in Shareds : r # s => B2[r] = B[r]
  BY <1>2, <1>4, UpdateFacts
<1> HIDE DEF B2
<1>6. \A r \in Shareds : /\ (B2[r].live <=> B[r].live) /\ B2[r].buf = B[r].buf /\ B2[r].cap = B[r].cap
                         /\ (B2[r].owned <=> B[r].owned) /\ B2[r].kept = B[r].kept
  BY <1>4, <1>5
<1>7. /\ H2 \in [Handles -> HandleType] /\ \A x \in Handles : x # h => H2[x] = H[x]
      /\ H2[h] = None \/ (lo /\ H2[h] = H[h])
      /\ CloneInv(H2, C)
      /\ \A r \in Shareds : r # s => HoldersIn(H2, r) = HoldersIn(H, r)
      /\ Cardinality(HoldersIn(H2, s)) >= Cardinality(HoldersIn(H, s)) - 1
      /\ ~lo => Cardinality(HoldersIn(H2, s)) = Cardinality(HoldersIn(H, s)) - 1
  BY LeavesFacts, SMTT(60)
<1>8. \A x \in Handles : H2[x] = None \/ H2[x] = H[x]
  BY <1>7
<1>9. Types(H2, M, B2, C)
  BY <1>5, <1>7 DEF Inv, Types
<1>10. HandleInv(H2, M, B2, lo)
  <2>1. \A x \in Handles : H[x].sh \in Shareds \cup {NoShared}
    BY PointerTypes DEF Inv
  <2>2. ASSUME NEW x \in Handles PROVE Good(H[x], M, B2, lo)
    <3>1. Good(H[x], M, B, lo)
      BY DEF Inv, HandleInv
    <3>2. BlockStays(H[x], B, B2)
      <4>1. CASE H[x].sh = s
        <5>1. s # NoShared
          BY BytesAssumption
        <5>2. B[H[x].sh].live /\ B[H[x].sh].ref # 1
          BY <4>1
        <5>3. H[x].vt # "taking"
          BY <3>1, <4>1, <5>1, <5>2 DEF Good, Linked
        <5> QED BY <4>1, <5>3, <1>6 DEF BlockStays
      <4>2. CASE H[x].sh # s
        BY <4>2, <1>5, <2>1 DEF BlockStays
      <4> QED BY <4>1, <4>2
    <3> QED BY <3>1, <3>2, GoodStays, SMTT(60)
  <2>3. Good(None, M, B2, lo)
    BY NoneIsGood
  <2> QED BY <1>8, <2>2, <2>3 DEF HandleInv
<1>11. BlockInv(M, B2)
  BY <1>4, <1>5, <1>6, SMTT(60) DEF Inv, BlockInv
<1>12. None.buf = NoBuf /\ None.sh = NoShared
  BY SMTT(60) DEF None
<1>13. OwnerInv(H2, B2)
  <2>1. OwnerInv(H, B)
    BY DEF Inv
  <2>2. \A f, g \in Handles : H2[f].sh = NoShared /\ H2[g].sh = NoShared /\ H2[f].buf = H2[g].buf /\ H2[f].buf # NoBuf => f = g
    BY <2>1, <1>8, <1>12, SMTT(60) DEF OwnerInv
  <2>3. \A r \in Shareds : B[r].live => B[r].buf # NoBuf
    BY BytesAssumption DEF Inv, BlockInv
  <2>4. \A g \in Handles, r \in Shareds : H2[g].sh = NoShared /\ B2[r].live => B2[r].buf # H2[g].buf
    BY <2>1, <2>3, <1>6, <1>8, <1>12, SMTT(60) DEF OwnerInv
  <2>5. \A q, r \in Shareds : B2[q].live /\ B2[r].live /\ B2[q].buf = B2[r].buf => q = r
    BY <2>1, <1>6 DEF OwnerInv
  <2> QED BY <2>2, <2>4, <2>5 DEF OwnerInv
<1>14. CountInv(H, B, lo) /\ Cardinality(HoldersIn(H, s)) \in Nat /\ Cardinality(HoldersIn(H2, s)) \in Nat
  BY HoldersFinite DEF Inv
<1>15. CountInv(H2, B2, lo)
  <2>1. /\ B2[s].ref <= Cardinality(HoldersIn(H2, s)) + B2[s].kept
        /\ ~lo => B2[s].ref = Cardinality(HoldersIn(H2, s)) + B2[s].kept
    BY <1>2, <1>4, <1>5, <1>7, <1>14, SMTT(60) DEF CountInv
  <2>2. B2[s].live
    BY <1>6, SMTT(60)
  <2>3. \A r \in Shareds : r # s => HoldersIn(H2, r) = HoldersIn(H, r) /\ B2[r] = B[r]
    BY <1>5, <1>7
  <2> QED BY <2>1, <2>2, <2>3, <1>14 DEF CountInv
<1>16. LeakInv(H2, M, B2, lo)
  <2>1. ASSUME NEW c \in Bufs, ~lo, M[c].live
        PROVE  (\E x \in Handles : H2[x].buf = c) \/ Kept(M, B2, c)
    <3>1. Kept(M, B, c) => Kept(M, B2, c)
      BY <1>6 DEF Kept
    <3>2. ASSUME NEW x \in Handles, H[x].buf = c, x # h PROVE \E y \in Handles : H2[y].buf = c
      BY <3>2, <1>7
    <3>3. CASE H[h].buf = c /\ B[s].kept > 0
      <4>1. B[s].buf = c
        BY <3>3, BytesAssumption DEF Inv, HandleInv, Good, Linked
      <4> QED BY <4>1, <3>3, <1>6 DEF Kept
    <3>4. CASE H[h].buf = c /\ ~(B[s].kept > 0)
      <4>1. Cardinality(HoldersIn(H2, s)) >= 1
        BY <3>4, <2>1, <1>2, <1>3, <1>7, <1>14, SMTT(60) DEF CountInv
      <4>2. HoldersIn(H2, s) # {}
        BY <4>1, FS_EmptySet, SMTT(60)
      <4>3. PICK y \in Handles : H2[y].sh = s
        BY <4>2 DEF HoldersIn
      <4>4. s # NoShared
        BY BytesAssumption
      <4>5. H2[y] = H[y]
        BY <4>3, <4>4, <1>8, <1>12
      <4>6. H[y].buf = B[s].buf /\ H[h].buf = B[s].buf
        <5>1. Linked(H[y], M, B) /\ Linked(H[h], M, B)
          BY DEF Inv, HandleInv, Good
        <5> QED BY <5>1, <4>3, <4>4, <4>5, SMTT(60) DEF Linked
      <4> QED BY <4>5, <4>6, <3>4
    <3>5. (\E x \in Handles : H[x].buf = c) \/ Kept(M, B, c)
      BY <2>1 DEF Inv, LeakInv
    <3> QED BY <3>1, <3>2, <3>3, <3>4, <3>5
  <2> QED BY <2>1 DEF LeakInv
<1> QED BY <1>1, <1>7, <1>9, <1>10, <1>11, <1>13, <1>15, <1>16 DEF Inv

\* Nothing is freed that another handle can reach, unless counts are lost: the
\* handles on the allocation of a block hold the block, or dangle.
LEMMA FreedAlone ==
  ASSUME NEW H, NEW M, NEW B, NEW C, NEW lo, Inv(H, M, B, C, lo),
         NEW h \in Handles, NEW s \in Shareds, H[h].sh = s, B[s].live, B[s].ref = 1
  PROVE  /\ H[h].buf = B[s].buf
         /\ \A x \in Handles : H[x].buf = B[s].buf => H[x].sh # NoShared
         /\ ~lo => \A x \in Handles : H[x].buf = B[s].buf \/ H[x].sh = s => x = h
<1>1. s # NoShared /\ \A x \in Handles : H[x].sh \in Shareds \cup {NoShared}
  BY PointerTypes, BytesAssumption DEF Inv
<1>2. \A x \in Handles : Linked(H[x], M, B)
  BY DEF Inv, HandleInv, Good
<1>3. OwnerInv(H, B) /\ CountInv(H, B, lo)
  BY DEF Inv
<1>4. H[h].buf = B[s].buf
  BY <1>1, <1>2 DEF Linked
<1>5. \A x \in Handles : H[x].buf = B[s].buf => H[x].sh # NoShared
  BY <1>3 DEF OwnerInv
<1>6. ASSUME ~lo, NEW x \in Handles, H[x].buf = B[s].buf \/ H[x].sh = s PROVE x = h
  <2>1. H[x].sh = s
    <3>1. SUFFICES ASSUME H[x].buf = B[s].buf PROVE H[x].sh = s
      BY <1>6
    <3>2. H[x].sh # NoShared /\ H[x].sh \in Shareds
      BY <3>1, <1>1, <1>5
    <3>3. x \in HoldersIn(H, H[x].sh)
      BY DEF HoldersIn
    <3>4. B[H[x].sh].live
      BY <3>2, <3>3, <1>3, <1>6 DEF CountInv
    <3>5. B[H[x].sh].buf = B[s].buf
      BY <3>1, <3>2, <3>4, <1>2 DEF Linked
    <3> QED BY <3>2, <3>4, <3>5, <1>3 DEF OwnerInv
  <2> QED BY <2>1, <1>6, CountedAlone, SMTT(60)
<1> QED BY <1>4, <1>5, <1>6

\* The last reference frees the block and the allocation.
LEMMA LastReleaseKeepsInv ==
  ASSUME NEW H, NEW M, NEW B, NEW C, NEW lo, Inv(H, M, B, C, lo),
         NEW h \in Handles, NEW s \in Shareds, H[h].sh = s, B[s].live, B[s].ref = 1,
         NEW H2, Leaves(H, H2, C, h, lo)
  PROVE  Inv(H2, [M EXCEPT ![B[s].buf] = NoAlloc], [B EXCEPT ![s] = NoBlock], C, lo)
<1> DEFINE v == B[s].buf
           M2 == [M EXCEPT ![v] = NoAlloc]
           B2 == [B EXCEPT ![s] = NoBlock]
<1>1. M \in [Bufs -> AllocType] /\ B \in [Shareds -> BlockType] /\ v \in Bufs
  BY DEF Inv, Types, BlockInv
<1>2. NoAlloc \in AllocType /\ NoBlock \in BlockType /\ ~NoAlloc.live /\ ~NoBlock.live
  BY SMTT(60) DEF NoAlloc, NoBlock, AllocType, BlockType
<1>3. M2 \in [Bufs -> AllocType] /\ M2[v] = NoAlloc /\ \A c \in Bufs : c # v => M2[c] = M[c]
  BY <1>1, <1>2, UpdateFacts
<1>4. B2 \in [Shareds -> BlockType] /\ B2[s] = NoBlock /\ \A r \in Shareds : r # s => B2[r] = B[r]
  BY <1>1, <1>2, UpdateFacts
<1>5. /\ H2 \in [Handles -> HandleType] /\ \A x \in Handles : x # h => H2[x] = H[x]
      /\ H2[h] = None \/ (lo /\ H2[h] = H[h])
      /\ CloneInv(H2, C)
      /\ \A r \in Shareds : r # s => HoldersIn(H2, r) = HoldersIn(H, r)
  BY LeavesFacts, SMTT(60)
<1>6. /\ H[h].buf = v
      /\ \A x \in Handles : H[x].buf = v => H[x].sh # NoShared
      /\ ~lo => \A x \in Handles : H[x].buf = v \/ H[x].sh = s => x = h
  BY FreedAlone, SMTT(60)
<1>7. \A r \in Shareds : r # s /\ B[r].live => B[r].buf \in Bufs /\ B[r].buf # v
  BY DEF Inv, BlockInv, OwnerInv
<1>8. \A r \in Shareds : B2[r].live => r # s /\ B2[r] = B[r]
  BY <1>2, <1>4
<1> HIDE DEF v, M2, B2
<1>9. \A x \in Handles : H2[x] = None \/ H2[x] = H[x]
  BY <1>5
<1>10. Types(H2, M2, B2, C)
  BY <1>3, <1>4, <1>5 DEF Inv, Types
<1>11. \A x \in Handles : H[x].sh \in Shareds \cup {NoShared} /\ H[x].buf \in Bufs \cup {NoBuf}
  BY PointerTypes DEF Inv
<1>12. None.buf = NoBuf /\ None.sh = NoShared
  BY SMTT(60) DEF None
<1>13. HandleInv(H2, M2, B2, lo)
  <2>1. ASSUME NEW x \in Handles, x # h \/ lo PROVE Good(H[x], M2, B2, lo)
    <3>1. Good(H[x], M, B, lo)
      BY DEF Inv, HandleInv
    <3>2. BlockStays(H[x], B, B2)
      BY <1>8, <1>11 DEF BlockStays
    <3>3. CASE H[x].buf # v
      <4>1. H[x].buf # NoBuf => M2[H[x].buf] = M[H[x].buf]
        BY <3>3, <1>3, <1>11
      <4> QED BY <3>1, <3>2, <4>1, GoodStays, SMTT(60)
    <3>4. CASE H[x].buf = v
      <4>1. lo /\ H[x].sh # NoShared /\ ~M2[H[x].buf].live
        BY <3>4, <2>1, <1>2, <1>3, <1>6
      <4>2. H[x].buf # NoBuf =>
              \/ M2[H[x].buf] = M[H[x].buf]
              \/ lo /\ H[x].sh # NoShared /\
                   (M2[H[x].buf].live => M[H[x].buf].live /\ Len(M2[H[x].buf].bytes) = Len(M[H[x].buf].bytes))
        BY <4>1
      <4> QED BY <3>1, <3>2, <4>2, GoodStays
    <3> QED BY <3>3, <3>4
  <2>2. Good(None, M2, B2, lo)
    BY NoneIsGood
  <2>3. \A x \in Handles : H2[x] = None \/ (H2[x] = H[x] /\ (x # h \/ lo))
    BY <1>5
  <2> QED BY <2>1, <2>2, <2>3 DEF HandleInv
<1>14. BlockInv(M2, B2)
  <2>1. BlockInv(M, B)
    BY DEF Inv
  <2>2. ASSUME NEW r \in Shareds, B2[r].live
        PROVE  B2[r] = B[r] /\ B[r].live /\ B[r].buf \in Bufs /\ M2[B[r].buf] = M[B[r].buf]
    <3>1. r # s /\ B2[r] = B[r]
      BY <2>2, <1>8
    <3>2. B[r].buf \in Bufs /\ B[r].buf # v /\ B[r].live
      BY <3>1, <2>2, <1>7
    <3> QED BY <3>1, <3>2, <1>3
  <2> QED BY <2>1, <2>2, SMTT(60) DEF BlockInv
<1>15. OwnerInv(H2, B2)
  <2>1. OwnerInv(H, B)
    BY DEF Inv
  <2>2. \A f, g \in Handles : H2[f].sh = NoShared /\ H2[g].sh = NoShared /\ H2[f].buf = H2[g].buf /\ H2[f].buf # NoBuf => f = g
    BY <2>1, <1>9, <1>12, SMTT(60) DEF OwnerInv
  <2>3. \A r \in Shareds : B[r].live => B[r].buf # NoBuf
    BY BytesAssumption DEF Inv, BlockInv
  <2>4. \A g \in Handles, r \in Shareds : H2[g].sh = NoShared /\ B2[r].live => B2[r].buf # H2[g].buf
    BY <2>1, <2>3, <1>8, <1>9, <1>12, SMTT(60) DEF OwnerInv
  <2>5. \A q, r \in Shareds : B2[q].live /\ B2[r].live /\ B2[q].buf = B2[r].buf => q = r
    BY <2>1, <1>8 DEF OwnerInv
  <2> QED BY <2>2, <2>4, <2>5 DEF OwnerInv
<1>16. CountInv(H2, B2, lo)
  <2>1. CountInv(H, B, lo)
    BY DEF Inv
  <2>2. ~lo => HoldersIn(H2, s) = {}
    <3>1. SUFFICES ASSUME ~lo PROVE \A x \in Handles : H2[x].sh # s
      BY DEF HoldersIn
    <3>2. s # NoShared
      BY BytesAssumption
    <3> QED BY <3>1, <3>2, <1>5, <1>6, <1>12
  <2>3. ~B2[s].live
    BY <1>2, <1>4
  <2>4. \A r \in Shareds : r # s => HoldersIn(H2, r) = HoldersIn(H, r) /\ B2[r] = B[r]
    BY <1>4, <1>5
  <2> QED BY <2>1, <2>2, <2>3, <2>4 DEF CountInv
<1>17. LeakInv(H2, M2, B2, lo)
  <2>1. ASSUME NEW c \in Bufs, ~lo, M2[c].live
        PROVE  (\E x \in Handles : H2[x].buf = c) \/ Kept(M2, B2, c)
    <3>1. c # v /\ M2[c] = M[c]
      BY <2>1, <1>2, <1>3
    <3>2. (\E x \in Handles : H[x].buf = c) \/ Kept(M, B, c)
      BY <3>1, <2>1 DEF Inv, LeakInv
    <3>3. CASE \E x \in Handles : H[x].buf = c
      BY <3>3, <3>1, <1>5, <1>6
    <3>4. CASE Kept(M, B, c)
      BY <3>4, <3>1, <1>4 DEF v, Kept
    <3> QED BY <3>2, <3>3, <3>4
  <2> QED BY <2>1 DEF LeakInv
<1> QED BY <1>5, <1>10, <1>13, <1>14, <1>15, <1>16, <1>17 DEF Inv, v, M2, B2

\* Who owns an allocation without a block is alone on it, unless counts are lost.
LEMMA OwnerAlone ==
  ASSUME NEW H, NEW M, NEW B, NEW C, NEW lo, Inv(H, M, B, C, lo),
         NEW h \in Handles, H[h].buf # NoBuf, H[h].sh = NoShared
  PROVE  /\ M[H[h].buf].live /\ H[h].buf \in Bufs
         /\ \A r \in Shareds : B[r].live => B[r].buf # H[h].buf
         /\ \A x \in Handles : x # h /\ H[x].buf = H[h].buf => lo /\ H[x].sh # NoShared
<1>1. \A x \in Handles : H[x].sh \in Shareds \cup {NoShared} /\ H[x].buf \in Bufs \cup {NoBuf}
  BY PointerTypes DEF Inv
<1>2. \A x \in Handles : Linked(H[x], M, B)
  BY DEF Inv, HandleInv, Good
<1>3. OwnerInv(H, B) /\ CountInv(H, B, lo)
  BY DEF Inv
<1>4. M[H[h].buf].live /\ H[h].buf \in Bufs
  BY <1>1, <1>2 DEF Linked
<1>5. \A r \in Shareds : B[r].live => B[r].buf # H[h].buf
  BY <1>3 DEF OwnerInv
<1>6. ASSUME NEW x \in Handles, x # h, H[x].buf = H[h].buf PROVE lo /\ H[x].sh # NoShared
  <2>1. H[x].sh # NoShared
    BY <1>3, <1>6 DEF OwnerInv
  <2>2. ~B[H[x].sh].live
    BY <2>1, <1>1, <1>2, <1>5, <1>6 DEF Linked
  <2>3. H[x].sh \in Shareds /\ x \in HoldersIn(H, H[x].sh)
    BY <2>1, <1>1 DEF HoldersIn
  <2>4. lo
    BY <2>2, <2>3, <1>3 DEF CountInv
  <2> QED BY <2>1, <2>4
<1> QED BY <1>4, <1>5, <1>6

\* The only owner frees its allocation.
LEMMA FreeKeepsInv ==
  ASSUME NEW H, NEW M, NEW B, NEW C, NEW lo, Inv(H, M, B, C, lo),
         NEW h \in Handles, H[h].buf # NoBuf, H[h].sh = NoShared, Unborrowed(C, h)
  PROVE  Inv([H EXCEPT ![h] = None], [M EXCEPT ![H[h].buf] = NoAlloc], B, C, lo)
<1> DEFINE v == H[h].buf
           H2 == [H EXCEPT ![h] = None]
           M2 == [M EXCEPT ![v] = NoAlloc]
<1>1. /\ H \in [Handles -> HandleType] /\ C \in [Threads -> {Idle} \cup [h : Handles]]
      /\ M \in [Bufs -> AllocType]
  BY DEF Inv, Types
<1>2. /\ M[v].live /\ v \in Bufs
      /\ \A r \in Shareds : B[r].live => B[r].buf # v
      /\ \A x \in Handles : x # h /\ H[x].buf = v => lo /\ H[x].sh # NoShared
  BY OwnerAlone, SMTT(60)
<1>3. NoAlloc \in AllocType /\ ~NoAlloc.live
  BY SMTT(60) DEF NoAlloc, AllocType
<1>4. None \in HandleType /\ Good(None, M2, B, lo)
  BY NoneIsGood
<1>5. H2 \in [Handles -> HandleType] /\ H2[h] = None /\ \A x \in Handles : x # h => H2[x] = H[x]
  BY <1>1, <1>4, UpdateFacts
<1>6. M2 \in [Bufs -> AllocType] /\ M2[v] = NoAlloc /\ \A c \in Bufs : c # v => M2[c] = M[c]
  BY <1>1, <1>2, <1>3, UpdateFacts
<1> HIDE DEF H2, M2, v
<1>7. None.buf = NoBuf /\ None.sh = NoShared
  BY SMTT(60) DEF None
<1>8. \A x \in Handles : H[x].sh \in Shareds \cup {NoShared} /\ H[x].buf \in Bufs \cup {NoBuf}
  BY PointerTypes DEF Inv
<1>9. Types(H2, M2, B, C)
  BY <1>5, <1>6 DEF Inv, Types
<1>10. HandleInv(H2, M2, B, lo)
  <2>1. MemKept(H, h, M, M2, lo)
    <3> SUFFICES ASSUME NEW x \in Handles, x # h, H[x].buf # NoBuf
                 PROVE  M2[H[x].buf] = M[H[x].buf] \/ (lo /\ H[x].sh # NoShared /\ ~M2[H[x].buf].live)
      BY DEF MemKept
    <3>1. CASE H[x].buf = v
      BY <3>1, <1>2, <1>3, <1>6
    <3>2. CASE H[x].buf # v
      BY <3>2, <1>6, <1>8
    <3> QED BY <3>1, <3>2
  <2>2. BlocksKept(H, h, B, B) /\ HandleInv(H, M, B, lo) /\ Good(H2[h], M2, B, lo)
    BY <1>4, <1>5 DEF BlocksKept, BlockStays, Inv
  <2> QED BY <2>1, <2>2, <1>5, HandleUpdate
<1>11. BlockInv(M2, B)
  <2>1. BlockInv(M, B)
    BY DEF Inv
  <2> QED BY <2>1, <1>2, <1>6 DEF BlockInv
<1>12. OwnerInv(H2, B)
  <2>1. OwnerInv(H, B)
    BY DEF Inv
  <2>2. \A f, g \in Handles : H2[f].sh = NoShared /\ H2[g].sh = NoShared /\ H2[f].buf = H2[g].buf /\ H2[f].buf # NoBuf => f = g
    BY <2>1, <1>5, <1>7, SMTT(60) DEF OwnerInv
  <2>3. \A r \in Shareds : B[r].live => B[r].buf # NoBuf
    BY BytesAssumption DEF Inv, BlockInv
  <2>4. \A g \in Handles, r \in Shareds : H2[g].sh = NoShared /\ B[r].live => B[r].buf # H2[g].buf
    BY <2>1, <2>3, <1>5, <1>7, SMTT(60) DEF OwnerInv
  <2> QED BY <2>1, <2>2, <2>4 DEF OwnerInv
<1>13. CountInv(H2, B, lo)
  <2>1. \A x \in Handles : H2[x].sh = H[x].sh
    BY <1>5, <1>7
  <2>2. \A s \in Shareds : HoldersIn(H2, s) = HoldersIn(H, s)
    BY <2>1, HoldersUnmoved
  <2> QED BY <2>2 DEF Inv, CountInv
<1>14. LeakInv(H2, M2, B, lo)
  <2>1. ASSUME NEW c \in Bufs, ~lo, M2[c].live
        PROVE  (\E x \in Handles : H2[x].buf = c) \/ Kept(M2, B, c)
    <3>1. c # v /\ M2[c] = M[c]
      BY <2>1, <1>3, <1>6
    <3>2. (\E x \in Handles : H[x].buf = c) \/ Kept(M, B, c)
      BY <3>1, <2>1 DEF Inv, LeakInv
    <3>3. \A x \in Handles : H[x].buf = c => x # h
      BY <3>1 DEF v
    <3>4. Kept(M, B, c) => Kept(M2, B, c)
      BY <3>1 DEF Kept
    <3> QED BY <3>2, <3>3, <3>4, <1>5
  <2> QED BY <2>1 DEF LeakInv
<1>15. CloneInv(H2, C)
  <2>1. CloneInv(H, C) /\ MayBe(C, h, H2[h])
    BY DEF Inv, MayBe
  <2> QED BY <2>1, <1>1, <1>5, CloneUpdate, SMTT(60)
<1> QED BY <1>9, <1>10, <1>11, <1>12, <1>13, <1>14, <1>15 DEF Inv, H2, M2, v

\* owned_to_vec, a panic in promotable_to_vec: the handle goes and its reference stays.
LEMMA ForgetKeepsInv ==
  ASSUME NEW H, NEW M, NEW B, NEW C, NEW lo, Inv(H, M, B, C, lo),
         NEW h \in Handles, NEW s \in Shareds, H[h].sh = s, B[s].live, Unborrowed(C, h)
  PROVE  Inv([H EXCEPT ![h] = None], M, [B EXCEPT ![s].kept = @ + 1], C, lo)
<1> DEFINE H2 == [H EXCEPT ![h] = None]
           k == [B[s] EXCEPT !.kept = @ + 1]
           B2 == [B EXCEPT ![s] = k]
<1>1. B2 = [B EXCEPT ![s].kept = @ + 1]
  BY SMTT(60)
<1>2. B \in [Shareds -> BlockType] /\ B[s] \in BlockType /\ B[s].ref \in Nat /\ B[s].kept \in Nat
  BY PointerTypes DEF Inv, Types
<1>3. /\ k \in BlockType /\ k.kept = B[s].kept + 1 /\ k.kept > 0
      /\ k.live = B[s].live /\ k.buf = B[s].buf /\ k.cap = B[s].cap /\ k.owned = B[s].owned /\ k.ref = B[s].ref
  <2>1. B[s].kept + 1 \in Nat /\ B[s].kept + 1 > 0
    BY <1>2, SMTT(60)
  <2>2. k.kept = B[s].kept + 1
    BY <1>2, SMTT(60) DEF BlockType
  <2>3. k.live = B[s].live /\ k.buf = B[s].buf /\ k.cap = B[s].cap /\ k.owned = B[s].owned /\ k.ref = B[s].ref
    BY <1>2 DEF BlockType
  <2>4. k \in BlockType
    BY <1>2, <2>1 DEF BlockType
  <2> QED BY <2>1, <2>2, <2>3, <2>4
<1> HIDE DEF k
<1>4. B2 \in [Shareds -> BlockType] /\ B2[s] = k /\ \A r \in Shareds : r # s => B2[r] = B[r]
  BY <1>2, <1>3, UpdateFacts
<1>5. Leaves(H, H2, C, h, lo)
  BY DEF Leaves
<1> HIDE DEF H2, B2
<1>6. \A r \in Shareds : /\ (B2[r].live <=> B[r].live) /\ B2[r].buf = B[r].buf /\ B2[r].cap = B[r].cap
                         /\ (B2[r].owned <=> B[r].owned) /\ B2[r].ref = B[r].ref
  BY <1>3, <1>4
<1>7. /\ H2 \in [Handles -> HandleType] /\ \A x \in Handles : x # h => H2[x] = H[x]
      /\ H2[h] = None \/ (lo /\ H2[h] = H[h])
      /\ CloneInv(H2, C)
      /\ \A r \in Shareds : r # s => HoldersIn(H2, r) = HoldersIn(H, r)
      /\ Cardinality(HoldersIn(H2, s)) >= Cardinality(HoldersIn(H, s)) - 1
      /\ ~lo => Cardinality(HoldersIn(H2, s)) = Cardinality(HoldersIn(H, s)) - 1
  BY <1>5, LeavesFacts, SMTT(60)
<1>8. \A x \in Handles : H2[x] = None \/ H2[x] = H[x]
  BY <1>7
<1>9. None.buf = NoBuf /\ None.sh = NoShared
  BY SMTT(60) DEF None
<1>10. Types(H2, M, B2, C)
  BY <1>4, <1>7 DEF Inv, Types
<1>11. HandleInv(H2, M, B2, lo)
  <2>1. \A x \in Handles : H[x].sh \in Shareds \cup {NoShared}
    BY PointerTypes DEF Inv
  <2>2. ASSUME NEW x \in Handles PROVE Good(H[x], M, B2, lo)
    <3>1. Good(H[x], M, B, lo)
      BY DEF Inv, HandleInv
    <3>2. BlockStays(H[x], B, B2)
      BY <1>6, <2>1 DEF BlockStays
    <3> QED BY <3>1, <3>2, GoodStays
  <2>3. Good(None, M, B2, lo)
    BY NoneIsGood
  <2> QED BY <1>8, <2>2, <2>3 DEF HandleInv
<1>12. BlockInv(M, B2)
  BY <1>6, SMTT(60) DEF Inv, BlockInv
<1>13. OwnerInv(H2, B2)
  <2>1. OwnerInv(H, B)
    BY DEF Inv
  <2>2. \A f, g \in Handles : H2[f].sh = NoShared /\ H2[g].sh = NoShared /\ H2[f].buf = H2[g].buf /\ H2[f].buf # NoBuf => f = g
    BY <2>1, <1>8, <1>9, SMTT(60) DEF OwnerInv
  <2>3. \A r \in Shareds : B[r].live => B[r].buf # NoBuf
    BY BytesAssumption DEF Inv, BlockInv
  <2>4. \A g \in Handles, r \in Shareds : H2[g].sh = NoShared /\ B2[r].live => B2[r].buf # H2[g].buf
    BY <2>1, <2>3, <1>6, <1>8, <1>9, SMTT(60) DEF OwnerInv
  <2>5. \A q, r \in Shareds : B2[q].live /\ B2[r].live /\ B2[q].buf = B2[r].buf => q = r
    BY <2>1, <1>6 DEF OwnerInv
  <2> QED BY <2>2, <2>4, <2>5 DEF OwnerInv
<1>14. CountInv(H2, B2, lo)
  <2>1. CountInv(H, B, lo) /\ Cardinality(HoldersIn(H, s)) \in Nat /\ Cardinality(HoldersIn(H2, s)) \in Nat
    BY HoldersFinite DEF Inv
  <2>2. /\ B2[s].ref <= Cardinality(HoldersIn(H2, s)) + B2[s].kept
        /\ ~lo => B2[s].ref = Cardinality(HoldersIn(H2, s)) + B2[s].kept
    BY <2>1, <1>2, <1>3, <1>4, <1>7, SMTT(60) DEF CountInv
  <2>3. B2[s].live
    BY <1>6
  <2>4. \A r \in Shareds : r # s => HoldersIn(H2, r) = HoldersIn(H, r) /\ B2[r] = B[r]
    BY <1>4, <1>7
  <2> QED BY <2>1, <2>2, <2>3, <2>4 DEF CountInv
<1>15. LeakInv(H2, M, B2, lo)
  <2>1. ASSUME NEW c \in Bufs, ~lo, M[c].live
        PROVE  (\E x \in Handles : H2[x].buf = c) \/ Kept(M, B2, c)
    <3>1. (\E x \in Handles : H[x].buf = c) \/ Kept(M, B, c)
      BY <2>1 DEF Inv, LeakInv
    <3>2. ASSUME NEW x \in Handles, H[x].buf = c, x # h PROVE \E y \in Handles : H2[y].buf = c
      BY <3>2, <1>7
    <3>3. B2[s].live /\ B2[s].kept > 0 /\ B2[s].buf = H[h].buf
      <4>1. H[h].buf = B[s].buf
        BY BytesAssumption DEF Inv, HandleInv, Good, Linked
      <4> QED BY <4>1, <1>3, <1>4
    <3>4. H[h].buf = c => Kept(M, B2, c)
      BY <3>3 DEF Kept
    <3>5. ASSUME NEW r \in Shareds, B[r].live, B[r].buf = c, B[r].kept > 0 PROVE Kept(M, B2, c)
      <4>1. CASE r = s
        <5>1. H[h].buf = B[s].buf
          BY BytesAssumption DEF Inv, HandleInv, Good, Linked
        <5> QED BY <3>4, <3>5, <4>1, <5>1
      <4>2. CASE r # s
        <5>1. B2[r] = B[r]
          BY <1>4, <4>2
        <5> QED BY <3>5, <5>1 DEF Kept
      <4> QED BY <4>1, <4>2
    <3>6. M[c].kept => Kept(M, B2, c)
      BY DEF Kept
    <3> QED BY <3>1, <3>2, <3>4, <3>5, <3>6 DEF Kept
  <2> QED BY <2>1 DEF LeakInv
<1> QED BY <1>1, <1>7, <1>10, <1>11, <1>12, <1>13, <1>14, <1>15 DEF Inv, H2

\* A panic in promotable_to_vec, promotable_to_mut on a boxed slice: the owner
\* goes, its allocation stays.
LEMMA ForgetBoxKeepsInv ==
  ASSUME NEW H, NEW M, NEW B, NEW C, NEW lo, Inv(H, M, B, C, lo),
         NEW h \in Handles, H[h].buf # NoBuf, H[h].sh = NoShared, Unborrowed(C, h)
  PROVE  Inv([H EXCEPT ![h] = None], [M EXCEPT ![H[h].buf].kept = TRUE], B, C, lo)
<1> DEFINE v == H[h].buf
           a == [M[v] EXCEPT !.kept = TRUE]
           H2 == [H EXCEPT ![h] = None]
           M2 == [M EXCEPT ![v] = a]
<1>1. /\ H \in [Handles -> HandleType] /\ C \in [Threads -> {Idle} \cup [h : Handles]]
      /\ M \in [Bufs -> AllocType]
  BY DEF Inv, Types
<1>2. /\ M[v].live /\ v \in Bufs
      /\ \A r \in Shareds : B[r].live => B[r].buf # v
      /\ \A x \in Handles : x # h /\ H[x].buf = v => lo /\ H[x].sh # NoShared
  BY OwnerAlone, SMTT(60)
<1>3. a \in AllocType /\ a.live = M[v].live /\ a.bytes = M[v].bytes /\ a.kept
  <2>1. M[v] \in AllocType
    BY <1>1, <1>2
  <2>2. a \in AllocType
    BY <2>1 DEF AllocType
  <2>3. a.live = M[v].live /\ a.bytes = M[v].bytes /\ a.kept = TRUE
    BY <2>1 DEF AllocType
  <2> QED BY <2>2, <2>3
<1>4. M2 = [M EXCEPT ![H[h].buf].kept = TRUE]
  BY SMTT(60)
<1>5. None \in HandleType /\ Good(None, M2, B, lo)
  BY NoneIsGood
<1>6. H2 \in [Handles -> HandleType] /\ H2[h] = None /\ \A x \in Handles : x # h => H2[x] = H[x]
  BY <1>1, <1>5, UpdateFacts
<1> HIDE DEF a
<1>7. M2 \in [Bufs -> AllocType] /\ M2[v] = a /\ \A c \in Bufs : c # v => M2[c] = M[c]
  BY <1>1, <1>2, <1>3, UpdateFacts
<1> HIDE DEF H2, M2, v
<1>8. None.buf = NoBuf /\ None.sh = NoShared
  BY SMTT(60) DEF None
<1>9. \A x \in Handles : H[x].sh \in Shareds \cup {NoShared} /\ H[x].buf \in Bufs \cup {NoBuf}
  BY PointerTypes DEF Inv
<1>10. Types(H2, M2, B, C)
  BY <1>6, <1>7 DEF Inv, Types
<1>11. HandleInv(H2, M2, B, lo)
  <2>1. MemKept(H, h, M, M2, lo)
    <3> SUFFICES ASSUME NEW x \in Handles, x # h, H[x].buf # NoBuf
                 PROVE  \/ M2[H[x].buf] = M[H[x].buf]
                        \/ lo /\ H[x].sh # NoShared /\
                             (M2[H[x].buf].live => M[H[x].buf].live /\ Len(M2[H[x].buf].bytes) = Len(M[H[x].buf].bytes))
      BY DEF MemKept
    <3>1. CASE H[x].buf = v
      BY <3>1, <1>2, <1>3, <1>7
    <3>2. CASE H[x].buf # v
      BY <3>2, <1>7, <1>9
    <3> QED BY <3>1, <3>2
  <2>2. BlocksKept(H, h, B, B) /\ HandleInv(H, M, B, lo) /\ Good(H2[h], M2, B, lo)
    BY <1>5, <1>6 DEF BlocksKept, BlockStays, Inv
  <2> QED BY <2>1, <2>2, <1>6, HandleUpdate
<1>12. BlockInv(M2, B)
  <2>1. BlockInv(M, B)
    BY DEF Inv
  <2> QED BY <2>1, <1>2, <1>7 DEF BlockInv
<1>13. OwnerInv(H2, B)
  <2>1. OwnerInv(H, B)
    BY DEF Inv
  <2>2. \A f, g \in Handles : H2[f].sh = NoShared /\ H2[g].sh = NoShared /\ H2[f].buf = H2[g].buf /\ H2[f].buf # NoBuf => f = g
    BY <2>1, <1>6, <1>8, SMTT(60) DEF OwnerInv
  <2>3. \A r \in Shareds : B[r].live => B[r].buf # NoBuf
    BY BytesAssumption DEF Inv, BlockInv
  <2>4. \A g \in Handles, r \in Shareds : H2[g].sh = NoShared /\ B[r].live => B[r].buf # H2[g].buf
    BY <2>1, <2>3, <1>6, <1>8, SMTT(60) DEF OwnerInv
  <2> QED BY <2>1, <2>2, <2>4 DEF OwnerInv
<1>14. CountInv(H2, B, lo)
  <2>1. \A x \in Handles : H2[x].sh = H[x].sh
    BY <1>6, <1>8
  <2>2. \A s \in Shareds : HoldersIn(H2, s) = HoldersIn(H, s)
    BY <2>1, HoldersUnmoved
  <2> QED BY <2>2 DEF Inv, CountInv
<1>15. LeakInv(H2, M2, B, lo)
  <2>1. ASSUME NEW c \in Bufs, ~lo, M2[c].live
        PROVE  (\E x \in Handles : H2[x].buf = c) \/ Kept(M2, B, c)
    <3>1. CASE c = v
      BY <3>1, <1>3, <1>7 DEF Kept
    <3>2. CASE c # v
      <4>1. M2[c] = M[c]
        BY <3>2, <1>7
      <4>2. (\E x \in Handles : H[x].buf = c) \/ Kept(M, B, c)
        BY <4>1, <2>1 DEF Inv, LeakInv
      <4>3. \A x \in Handles : H[x].buf = c => x # h
        BY <3>2 DEF v
      <4>4. Kept(M, B, c) => Kept(M2, B, c)
        BY <4>1 DEF Kept
      <4> QED BY <4>2, <4>3, <4>4, <1>6
    <3> QED BY <3>1, <3>2
  <2> QED BY <2>1 DEF LeakInv
<1>16. CloneInv(H2, C)
  <2>1. CloneInv(H, C) /\ MayBe(C, h, H2[h])
    BY DEF Inv, MayBe
  <2> QED BY <2>1, <1>1, <1>6, CloneUpdate, SMTT(60)
<1> QED BY <1>4, <1>10, <1>11, <1>12, <1>13, <1>14, <1>15, <1>16 DEF Inv, H2

\* The only owner moves its bytes within the allocation.
LEMMA RewriteKeepsInv ==
  ASSUME NEW H, NEW M, NEW B, NEW C, NEW lo, Inv(H, M, B, C, lo),
         NEW h \in Handles, H[h].buf # NoBuf, H[h].sh = NoShared, Unborrowed(C, h),
         NEW a \in AllocType, a.live, Len(a.bytes) = Len(M[H[h].buf].bytes),
         NEW b \in HandleType, b.buf = H[h].buf, b.sh = NoShared,
         Good(b, [M EXCEPT ![H[h].buf] = a], B, lo)
  PROVE  Inv([H EXCEPT ![h] = b], [M EXCEPT ![H[h].buf] = a], B, C, lo)
<1> DEFINE v == H[h].buf
           H2 == [H EXCEPT ![h] = b]
           M2 == [M EXCEPT ![v] = a]
<1>1. /\ H \in [Handles -> HandleType] /\ C \in [Threads -> {Idle} \cup [h : Handles]]
      /\ M \in [Bufs -> AllocType]
  BY DEF Inv, Types
<1>2. /\ M[v].live /\ v \in Bufs
      /\ \A r \in Shareds : B[r].live => B[r].buf # v
      /\ \A x \in Handles : x # h /\ H[x].buf = v => lo /\ H[x].sh # NoShared
  BY OwnerAlone, SMTT(60)
<1>3. H2 \in [Handles -> HandleType] /\ H2[h] = b /\ \A x \in Handles : x # h => H2[x] = H[x]
  BY <1>1, UpdateFacts
<1>4. Good(b, M2, B, lo) /\ b.buf = v /\ Len(a.bytes) = Len(M[v].bytes)
  OBVIOUS
<1> HIDE DEF H2, v
<1>5. M2 \in [Bufs -> AllocType] /\ M2[v] = a /\ \A c \in Bufs : c # v => M2[c] = M[c]
  BY <1>1, <1>2, UpdateFacts, SMTT(60)
<1> HIDE DEF M2
<1>6. \A x \in Handles : H2[x].sh = H[x].sh /\ H2[x].buf = H[x].buf
  BY <1>3, <1>4 DEF v
<1>7. \A x \in Handles : H[x].buf \in Bufs \cup {NoBuf}
  BY PointerTypes DEF Inv
<1>8. Types(H2, M2, B, C)
  BY <1>3, <1>5 DEF Inv, Types
<1>9. HandleInv(H2, M2, B, lo)
  <2>1. MemKept(H, h, M, M2, lo)
    <3> SUFFICES ASSUME NEW x \in Handles, x # h, H[x].buf # NoBuf
                 PROVE  \/ M2[H[x].buf] = M[H[x].buf]
                        \/ lo /\ H[x].sh # NoShared /\
                             (M2[H[x].buf].live => M[H[x].buf].live /\ Len(M2[H[x].buf].bytes) = Len(M[H[x].buf].bytes))
      BY DEF MemKept
    <3>1. CASE H[x].buf = v
      BY <3>1, <1>2, <1>5, <1>4
    <3>2. CASE H[x].buf # v
      BY <3>2, <1>5, <1>7
    <3> QED BY <3>1, <3>2
  <2>2. BlocksKept(H, h, B, B) /\ HandleInv(H, M, B, lo) /\ Good(H2[h], M2, B, lo)
    BY <1>3, <1>4 DEF BlocksKept, BlockStays, Inv
  <2> QED BY <2>1, <2>2, <1>3, HandleUpdate
<1>10. BlockInv(M2, B)
  <2>1. BlockInv(M, B)
    BY DEF Inv
  <2> QED BY <2>1, <1>2, <1>5 DEF BlockInv
<1>11. OwnerInv(H2, B)
  BY <1>6, SMTT(60) DEF Inv, OwnerInv
<1>12. CountInv(H2, B, lo)
  <2>1. \A s \in Shareds : HoldersIn(H2, s) = HoldersIn(H, s)
    BY <1>6, HoldersUnmoved
  <2> QED BY <2>1 DEF Inv, CountInv
<1>13. LeakInv(H2, M2, B, lo)
  <2>1. ASSUME NEW c \in Bufs, ~lo, M2[c].live
        PROVE  (\E x \in Handles : H2[x].buf = c) \/ Kept(M2, B, c)
    <3>1. CASE c = v
      BY <3>1, <1>3, <1>4
    <3>2. CASE c # v
      <4>1. M2[c] = M[c]
        BY <3>2, <1>5
      <4>2. (\E x \in Handles : H[x].buf = c) \/ Kept(M, B, c)
        BY <4>1, <2>1 DEF Inv, LeakInv
      <4> QED BY <4>1, <4>2, <1>6 DEF Kept
    <3> QED BY <3>1, <3>2
  <2> QED BY <2>1 DEF LeakInv
<1>14. CloneInv(H2, C)
  <2>1. CloneInv(H, C) /\ MayBe(C, h, H2[h])
    BY DEF Inv, MayBe
  <2> QED BY <2>1, <1>1, <1>3, CloneUpdate, SMTT(60)
<1> QED BY <1>8, <1>9, <1>10, <1>11, <1>12, <1>13, <1>14 DEF Inv, H2, M2, v

-----------------------------------------------------------------------------
(* The handles the actions make.                                           *)

\* A static handle.
LEMMA StaticIsGood ==
  ASSUME NEW M, NEW B, NEW lo, NEW len \in Nat, len <= Len(StaticBytes)
  PROVE  /\ Static(0, len) \in HandleType /\ Good(Static(0, len), M, B, lo)
         /\ Static(0, len).buf = NoBuf /\ Static(0, len).sh = NoShared
<1> DEFINE b == Static(0, len)
<1>1. StaticBytes \in Seq(Nat) /\ Len(StaticBytes) \in Nat /\ 0 + len <= Len(StaticBytes) /\ 0 \in Nat
  BY BytesAssumption, SMTT(60)
<1>2. Sub(StaticBytes, 0, len) \in Seq(Nat) /\ Len(Sub(StaticBytes, 0, len)) = len
  BY <1>1, SubFacts, SMTT(60)
<1>3. /\ b.vt = "static" /\ b.buf = NoBuf /\ b.sh = NoShared /\ b.off = 0 /\ b.len = len
      /\ b.val = Sub(StaticBytes, 0, len)
  BY SMTT(60) DEF Static, None
<1>4. b \in HandleType
  <2>1. None \in HandleType /\ "static" \in VTables
    BY NoneIsGood DEF VTables
  <2> QED BY <1>1, <1>2, <2>1 DEF Static, HandleType
<1> HIDE DEF b
<1>5. Kind(b) /\ Linked(b, M, B)
  BY <1>3, SMTT(60) DEF Kind, Linked
<1>6. Fits(b, M)
  BY <1>1, <1>2, <1>3, SMTT(60) DEF Fits
<1>7. Shows(b, M)
  BY <1>3 DEF Shows
<1> QED BY <1>3, <1>4, <1>5, <1>6, <1>7 DEF Good, b

\* The empty handle.
LEMMA EmptyIsGood ==
  ASSUME NEW M, NEW B, NEW lo
  PROVE  Empty \in HandleType /\ Good(Empty, M, B, lo) /\ Empty.buf = NoBuf /\ Empty.sh = NoShared
<1>1. 0 \in Nat /\ 0 <= Len(StaticBytes)
  BY BytesAssumption, SMTT(60)
<1> QED BY <1>1, StaticIsGood DEF Empty

\* c shows the k bytes of b from by on.
Narrows(b, c, by, k) ==
  /\ c \in HandleType /\ c.vt = b.vt /\ c.buf = b.buf /\ c.sh = b.sh /\ c.cap = b.cap
  /\ c.off = b.off + by /\ c.len = k /\ c.val = Sub(b.val, by, k)

\* inc_start narrows a handle from the left...
LEMMA IncStartNarrows ==
  ASSUME NEW b \in HandleType, Len(b.val) = b.len, NEW by \in Nat, by <= b.len
  PROVE  Narrows(b, IncStart(b, by), by, b.len - by)
<1>1. b.val \in Seq(Nat) /\ b.len \in Nat /\ b.off \in Nat /\ b.len - by \in Nat /\ by + (b.len - by) <= Len(b.val)
  BY SMTT(60) DEF HandleType
<1>2. Sub(b.val, by, b.len - by) \in Seq(Nat)
  BY <1>1, SubFacts
<1>3. IncStart(b, by) = [b EXCEPT !.off = b.off + by, !.len = b.len - by, !.val = Sub(b.val, by, b.len - by)]
  BY SMTT(60) DEF IncStart
<1> DEFINE c == [b EXCEPT !.off = b.off + by, !.len = b.len - by, !.val = Sub(b.val, by, b.len - by)]
<1>4. c \in HandleType
  <2>1. b.off + by \in Nat
    BY <1>1, SMTT(60)
  <2> QED BY <1>1, <1>2, <2>1 DEF HandleType
<1>5. /\ c.vt = b.vt /\ c.buf = b.buf /\ c.sh = b.sh /\ c.cap = b.cap
      /\ c.off = b.off + by /\ c.len = b.len - by /\ c.val = Sub(b.val, by, b.len - by)
  BY SMTT(60) DEF HandleType
<1> QED BY <1>3, <1>4, <1>5 DEF Narrows

\* ...and a shorter length from the right.
LEMMA ShortenNarrows ==
  ASSUME NEW b \in HandleType, Len(b.val) = b.len, NEW k \in Nat, k <= b.len
  PROVE  Narrows(b, Shorten(b, k), 0, k)
<1>1. b.val \in Seq(Nat) /\ b.len \in Nat /\ b.off \in Nat /\ 0 \in Nat /\ 0 + k <= Len(b.val) /\ b.off = b.off + 0
  BY SMTT(60) DEF HandleType
<1>2. Sub(b.val, 0, k) \in Seq(Nat)
  BY <1>1, SubFacts
<1>3. Shorten(b, k) = [b EXCEPT !.len = k, !.val = Sub(b.val, 0, k)]
  BY SMTT(60) DEF Shorten
<1> DEFINE c == [b EXCEPT !.len = k, !.val = Sub(b.val, 0, k)]
<1>4. c \in HandleType
  BY <1>1, <1>2 DEF HandleType
<1>5. /\ c.vt = b.vt /\ c.buf = b.buf /\ c.sh = b.sh /\ c.cap = b.cap
      /\ c.off = b.off /\ c.len = k /\ c.val = Sub(b.val, 0, k)
  BY SMTT(60) DEF HandleType
<1> QED BY <1>1, <1>3, <1>4, <1>5 DEF Narrows

\* A narrower handle is as good, unless it owns a boxed slice whose size it gives.
LEMMA NarrowIsGood ==
  ASSUME NEW M \in [Bufs -> AllocType], NEW B, NEW lo, NEW b \in HandleType, Good(b, M, B, lo), b.vt # "none",
         NEW c, NEW by \in Nat, NEW k \in Nat, by + k <= b.len, Narrows(b, c, by, k),
         b.vt = "promotable" /\ b.sh = NoShared => by + k = b.len,
         lo \/ b.buf = NoBuf \/ M[b.buf].live
  PROVE  Good(c, M, B, lo)
<1>1. /\ c \in HandleType /\ c.vt = b.vt /\ c.buf = b.buf /\ c.sh = b.sh /\ c.cap = b.cap
      /\ c.off = b.off + by /\ c.len = k /\ c.val = Sub(b.val, by, k)
  BY DEF Narrows
<1>2. Kind(b) /\ Linked(b, M, B) /\ Fits(b, M) /\ (~lo => Shows(b, M))
  BY DEF Good
<1>3. b.off \in Nat /\ b.len \in Nat /\ b.val \in Seq(Nat) /\ b.buf \in Bufs \cup {NoBuf}
  BY SMTT(60) DEF HandleType
<1>4. b.buf # NoBuf => M[b.buf].bytes \in Seq(Nat)
  BY <1>3, SMTT(60) DEF AllocType
<1>5. StaticBytes \in Seq(Nat) /\ Len(b.val) = b.len
  BY <1>2, BytesAssumption DEF Fits
<1>6. Kind(c) /\ Linked(c, M, B)
  BY <1>1, <1>2 DEF Kind, Linked
<1>7. Fits(c, M)
  <2>1. Len(c.val) = c.len
    BY <1>1, <1>3, <1>5, SubFacts, SMTT(60)
  <2>2. c.buf = NoBuf => c.off + c.len <= Len(StaticBytes)
    BY <1>1, <1>2, <1>3, <1>5, SMTT(60) DEF Fits
  <2>3. ASSUME c.buf # NoBuf, M[c.buf].live
        PROVE  /\ c.off + c.len <= Len(M[c.buf].bytes)
               /\ c.vt = "promotable" /\ c.sh = NoShared => c.off + c.len = Len(M[c.buf].bytes)
               /\ c.vt = "vec" => c.cap = Len(M[c.buf].bytes)
    <3>1. b.buf # NoBuf /\ M[b.buf].live
      BY <2>3, <1>1
    <3>2. /\ b.off + b.len <= Len(M[b.buf].bytes)
          /\ b.vt = "promotable" /\ b.sh = NoShared => b.off + b.len = Len(M[b.buf].bytes)
          /\ b.vt = "vec" => b.cap = Len(M[b.buf].bytes)
      BY <3>1, <1>2 DEF Fits
    <3>3. Len(M[b.buf].bytes) \in Nat
      BY <3>1, <1>4, SMTT(60)
    <3> QED BY <3>2, <3>3, <1>1, <1>3, SMTT(60)
  <2> QED BY <2>1, <2>2, <2>3 DEF Fits
<1>8. ASSUME ~lo PROVE Shows(c, M)
  <2> DEFINE s == IF b.buf = NoBuf THEN StaticBytes ELSE M[b.buf].bytes
  <2>1. s \in Seq(Nat)
    BY <1>4, <1>5
  <2>2. b.off + b.len <= Len(s)
    BY <1>2, <1>8 DEF Fits
  <2>3. Sub(s, b.off, b.len) = b.val
    BY <1>2, <1>8 DEF Shows
  <2>4. Shows(c, M) <=> Sub(s, c.off, c.len) = c.val
    BY <1>1 DEF Shows
  <2> HIDE DEF s
  <2>5. Sub(Sub(s, b.off, b.len), by, k) = Sub(s, b.off + by, k)
    BY ONLY <2>1, <2>2, <1>3, by + k <= b.len, SubOfSub, SMTT(60)
  <2> QED BY <2>3, <2>4, <2>5, <1>1
<1> QED BY <1>6, <1>7, <1>8 DEF Good

\* c is b under another vtable.
Relabels(b, c, vt) ==
  /\ c \in HandleType /\ c.vt = vt /\ c.buf = b.buf /\ c.sh = b.sh
  /\ c.off = b.off /\ c.len = b.len /\ c.cap = b.cap /\ c.val = b.val

\* A change of vtable alone, as in shallow_clone_arc, leaves the other fields.
LEMMA ExceptRelabels ==
  ASSUME NEW b \in HandleType, NEW vt \in VTables, NEW c, c = [b EXCEPT !.vt = vt]
  PROVE  Relabels(b, c, vt)
<1>1. c \in HandleType
  BY DEF HandleType
<1>2. c.vt = vt /\ c.buf = b.buf /\ c.sh = b.sh /\ c.off = b.off /\ c.len = b.len /\ c.cap = b.cap /\ c.val = b.val
  BY SMTT(60) DEF HandleType
<1> QED BY <1>1, <1>2 DEF Relabels

\* A counted handle that was promotable or shared becomes shared or copying, or,
\* when the block counts 1, taking.
LEMMA RelabelIsGood ==
  ASSUME NEW M, NEW B, NEW lo, NEW b \in HandleType, Good(b, M, B, lo), b.sh # NoShared,
         b.vt \in {"promotable", "shared"}, NEW vt \in {"shared", "copying", "taking"},
         vt = "taking" => B[b.sh].ref = 1,
         NEW c, Relabels(b, c, vt)
  PROVE  Good(c, M, B, lo)
<1>1. vt \in VTables /\ vt # "owned" /\ vt # "none" /\ vt # "static" /\ vt # "vec" /\ vt # "promotable"
  BY SMTT(60) DEF VTables
<1>3. c.vt = vt /\ c.buf = b.buf /\ c.sh = b.sh /\ c.off = b.off /\ c.len = b.len /\ c.cap = b.cap /\ c.val = b.val
  BY DEF Relabels
<1>4. Kind(b) /\ Linked(b, M, B) /\ Fits(b, M) /\ (~lo => Shows(b, M)) /\ b.vt # "owned"
  BY SMTT(60) DEF Good
<1>5. Kind(c)
  BY <1>1, <1>3, <1>4, SMTT(60) DEF Kind
<1>6. Linked(c, M, B)
  BY <1>1, <1>3, <1>4 DEF Linked
<1>7. Fits(c, M)
  BY <1>1, <1>3, <1>4 DEF Fits
<1>8. ~lo => Shows(c, M)
  BY <1>3, <1>4 DEF Shows
<1> QED BY <1>5, <1>6, <1>7, <1>8 DEF Good

-----------------------------------------------------------------------------
(* Clones, drops and copies.                                               *)

\* No thread is cloning a free variable.
LEMMA FreeUnborrowed ==
  ASSUME NEW lo, Inv(hd, heap, sh, cl, lo), NEW n \in Handles, hd[n] = None
  PROVE  Unborrowed(cl, n)
<1> SUFFICES ASSUME NEW t \in Threads, cl[t].h = n PROVE FALSE
  BY DEF Unborrowed
<1>1. cl[t] # Idle
  BY BytesAssumption, SMTT(60) DEF Idle
<1>2. hd[n].vt = "promotable"
  BY <1>1 DEF Inv, CloneInv
<1> QED BY <1>2, SMTT(60) DEF None

\* Nobody holds a fresh block, nobody is on a fresh allocation.
LEMMA FreshUnheld ==
  ASSUME Defined
  PROVE  /\ \A s \in FreshShareds, x \in Handles : s \in Shareds /\ ~sh[s].live /\ hd[x].sh # s
         /\ \A v \in FreshBufs, x \in Handles : v \in Bufs /\ ~heap[v].live /\ hd[x].buf # v
<1>1. ASSUME NEW s \in FreshShareds, NEW x \in Handles PROVE s \in Shareds /\ ~sh[s].live /\ hd[x].sh # s
  <2>1. s \in Shareds /\ ~sh[s].live /\ s # NoShared
    BY BytesAssumption DEF FreshShareds
  <2> QED BY <2>1 DEF Defined, Alive, Counted
<1>2. ASSUME NEW v \in FreshBufs, NEW x \in Handles PROVE v \in Bufs /\ ~heap[v].live /\ hd[x].buf # v
  <2>1. v \in Bufs /\ ~heap[v].live /\ v # NoBuf
    BY BytesAssumption DEF FreshBufs
  <2> QED BY <2>1 DEF Defined, Alive
<1> QED BY <1>1, <1>2

\* What Defined and the invariant say of a handle.
LEMMA HandleFacts ==
  ASSUME NEW lo, Inv(hd, heap, sh, cl, lo), Defined, NEW h \in Handles
  PROVE  /\ hd[h] \in HandleType /\ Good(hd[h], heap, sh, lo) /\ Len(hd[h].val) = hd[h].len
         /\ hd[h].off \in Nat /\ hd[h].len \in Nat /\ hd[h].val \in Seq(Nat)
         /\ hd[h].buf = NoBuf \/ (hd[h].buf \in Bufs /\ heap[hd[h].buf].live)
         /\ hd[h].sh = NoShared \/ (hd[h].sh \in Shareds /\ sh[hd[h].sh].live)
         /\ heap \in [Bufs -> AllocType] /\ sh \in [Shareds -> BlockType] /\ hd \in [Handles -> HandleType]
<1>1. /\ hd[h] \in HandleType /\ hd[h].buf \in Bufs \cup {NoBuf} /\ hd[h].sh \in Shareds \cup {NoShared}
      /\ hd[h].off \in Nat /\ hd[h].len \in Nat /\ hd[h].val \in Seq(Nat)
  BY PointerTypes DEF Inv
<1>2. Good(hd[h], heap, sh, lo) /\ Len(hd[h].val) = hd[h].len
  BY DEF Inv, HandleInv, Good, Fits
<1>3. Alive(hd[h])
  BY DEF Defined
<1>4. heap \in [Bufs -> AllocType] /\ sh \in [Shareds -> BlockType] /\ hd \in [Handles -> HandleType]
  BY DEF Inv, Types
<1> QED BY <1>1, <1>2, <1>3, <1>4 DEF Alive, Counted

\* A new block.
LEMMA BlockFacts ==
  ASSUME NEW buf \in Bufs, NEW cap \in Nat, NEW ref \in Nat
  PROVE  /\ Block(buf, cap, ref) \in BlockType
         /\ Block(buf, cap, ref).live /\ Block(buf, cap, ref).buf = buf /\ Block(buf, cap, ref).cap = cap
         /\ Block(buf, cap, ref).ref = ref /\ ~Block(buf, cap, ref).owned /\ Block(buf, cap, ref).kept = 0
BY SMTT(60) DEF Block, BlockType

\* The first clone puts a boxed slice under a block...
LEMMA PromoteKeepsInv ==
  ASSUME NEW lo, Inv(hd, heap, sh, cl, lo), Defined, NEW h \in Handles,
         hd[h].vt = "promotable", hd[h].sh = NoShared, NEW s \in FreshShareds
  PROVE  LET p == [hd[h] EXCEPT !.sh = s]
             k == Block(hd[h].buf, hd[h].off + hd[h].len, 1)
         IN /\ Inv([hd EXCEPT ![h] = p], heap, [sh EXCEPT ![s] = k], cl, lo)
            /\ p \in HandleType /\ p.vt = "promotable" /\ p.buf = hd[h].buf /\ p.sh = s
            /\ p.off = hd[h].off /\ p.len = hd[h].len /\ p.cap = hd[h].cap /\ p.val = hd[h].val
            /\ Good(p, heap, [sh EXCEPT ![s] = k], lo)
<1> DEFINE b == hd[h]
           p == [b EXCEPT !.sh = s]
           k == Block(b.buf, b.off + b.len, 1)
           B2 == [sh EXCEPT ![s] = k]
<1>1. /\ b \in HandleType /\ Good(b, heap, sh, lo) /\ b.off \in Nat /\ b.len \in Nat
      /\ b.buf = NoBuf \/ (b.buf \in Bufs /\ heap[b.buf].live)
      /\ heap \in [Bufs -> AllocType] /\ sh \in [Shareds -> BlockType]
  BY HandleFacts
<1>2. s \in Shareds /\ ~sh[s].live /\ \A x \in Handles : hd[x].sh # s
  BY FreshUnheld
<1>3. Kind(b) /\ Linked(b, heap, sh) /\ Fits(b, heap) /\ (~lo => Shows(b, heap))
  BY <1>1 DEF Good
<1>4. b.buf # NoBuf /\ b.buf \in Bufs /\ heap[b.buf].live
  BY <1>1, <1>3 DEF Kind
<1>5. b.off + b.len = Len(heap[b.buf].bytes) /\ b.off + b.len \in Nat
  <2>1. b.off + b.len = Len(heap[b.buf].bytes)
    BY <1>3, <1>4 DEF Fits
  <2> QED BY <1>1, <2>1, SMTT(60)
<1>6. k \in BlockType /\ k.live /\ k.buf = b.buf /\ k.cap = b.off + b.len /\ k.ref = 1 /\ ~k.owned /\ k.kept = 0
  BY <1>4, <1>5, BlockFacts, SMTT(60)
<1>7. p \in HandleType
  BY <1>1, <1>2 DEF HandleType
<1>8. p.vt = b.vt /\ p.buf = b.buf /\ p.sh = s /\ p.off = b.off /\ p.len = b.len /\ p.cap = b.cap /\ p.val = b.val
  BY <1>1 DEF HandleType
<1>9. s # NoShared
  BY <1>2, BytesAssumption
<1> HIDE DEF p, k
<1>10. B2[s] = k
  BY <1>1, <1>2
<1>11. Good(p, heap, B2, lo)
  <2>1. Kind(p)
    BY <1>3, <1>4, <1>8, SMTT(60) DEF Kind
  <2>2. Linked(p, heap, B2)
    BY <1>4, <1>6, <1>8, <1>9, <1>10, SMTT(60) DEF Linked
  <2>3. Fits(p, heap)
    BY <1>3, <1>8, <1>9 DEF Fits
  <2>4. ~lo => Shows(p, heap)
    BY <1>3, <1>8 DEF Shows
  <2> QED BY <2>1, <2>2, <2>3, <2>4 DEF Good
<1>12. MayBe(cl, h, p)
  BY <1>8 DEF MayBe
<1>13. k.cap = Len(heap[k.buf].bytes)
  BY <1>5, <1>6
<1>14. Inv([hd EXCEPT ![h] = p], heap, B2, cl, lo)
  BY <1>2, <1>4, <1>6, <1>7, <1>8, <1>11, <1>12, <1>13, CountKeepsInv, SMTT(60)
<1> QED BY <1>7, <1>8, <1>11, <1>14 DEF p, k

\* What a clone c of b is made of.
Cloned(b, c) ==
  /\ c.old \in HandleType /\ c.new \in HandleType
  /\ c.old.vt = b.vt /\ c.new.vt \in {"static", "owned", "shared"}
  /\ c.old.vt = "promotable" => c.old.sh # NoShared
  /\ c.old.buf = b.buf /\ c.old.off = b.off /\ c.old.len = b.len /\ c.old.val = b.val
  /\ c.new.buf = b.buf /\ c.new.off = b.off /\ c.new.len = b.len /\ c.new.val = b.val

\* ...a static handle and an owned one are copied,
LEMMA CloneStatic ==
  ASSUME NEW lo, Inv(hd, heap, sh, cl, lo), Defined, NEW h \in Handles, NEW n \in Handles, n # h, hd[n] = None,
         hd[h].vt = "static"
  PROVE  Inv([hd EXCEPT ![n] = hd[h]], heap, sh, cl, lo)
<1>1. hd[h] \in HandleType /\ Good(hd[h], heap, sh, lo)
  BY HandleFacts
<1>2. hd[h].buf = NoBuf /\ hd[h].sh = NoShared
  BY <1>1 DEF Good, Kind
<1>3. hd[n].buf = NoBuf /\ hd[n].sh = NoShared
  BY SMTT(60) DEF None
<1>4. MayBe(cl, n, hd[h])
  BY FreeUnborrowed DEF MayBe
<1> QED BY <1>1, <1>2, <1>3, <1>4, ViewKeepsInv, SMTT(60)

\* owned_clone: the new handle is counted in the Owned block.
LEMMA CloneOwned ==
  ASSUME NEW lo, Inv(hd, heap, sh, cl, lo), Defined, NEW h \in Handles, NEW n \in Handles, n # h, hd[n] = None,
         hd[h].vt = "owned"
  PROVE  Inv([hd EXCEPT ![n] = hd[h]], heap, [sh EXCEPT ![hd[h].sh].ref = @ + 1], cl, lo)
<1> DEFINE b == hd[h]
           s == b.sh
           k == [sh[s] EXCEPT !.ref = @ + 1]
           B2 == [sh EXCEPT ![s] = k]
<1>1. /\ b \in HandleType /\ Good(b, heap, sh, lo)
      /\ s = NoShared \/ (s \in Shareds /\ sh[s].live)
      /\ sh \in [Shareds -> BlockType]
  BY HandleFacts
<1>2. Kind(b) /\ Linked(b, heap, sh)
  BY <1>1 DEF Good
<1>3. s # NoShared /\ s \in Shareds /\ sh[s].live
  BY <1>1, <1>2, SMTT(60) DEF Kind
<1>4. b.buf = sh[s].buf /\ sh[s].owned
  BY <1>2, <1>3 DEF Linked
<1>5. sh[s] \in BlockType /\ sh[s].ref \in Nat /\ sh[s].ref + 1 \in Nat
  BY <1>1, <1>3, SMTT(60) DEF BlockType
<1>6. k \in BlockType
  BY <1>5 DEF BlockType
<1>7. k.ref = sh[s].ref + 1
  BY <1>5, SMTT(60) DEF BlockType
<1>8. k.live = sh[s].live /\ k.buf = sh[s].buf /\ k.cap = sh[s].cap /\ k.owned = sh[s].owned /\ k.kept = sh[s].kept
  BY <1>5 DEF BlockType
<1>9. B2 = [sh EXCEPT ![hd[h].sh].ref = @ + 1]
  BY SMTT(60)
<1> HIDE DEF k
<1>10. B2 \in [Shareds -> BlockType] /\ B2[s] = k /\ \A r \in Shareds : r # s => B2[r] = sh[r]
  BY <1>1, <1>3, <1>6, UpdateFacts
<1> HIDE DEF B2, b, s
<1>11. /\ B2[s].live /\ B2[s].buf = sh[s].buf /\ B2[s].cap = sh[s].cap /\ (B2[s].owned <=> sh[s].owned)
       /\ B2[s].kept = sh[s].kept /\ B2[s].ref = sh[s].ref + 1
  BY <1>3, <1>7, <1>8, <1>10
<1>12. Good(b, heap, B2, lo)
  <2>1. b.vt # "taking"
    BY SMTT(60) DEF b
  <2>2. BlockStays(b, sh, B2)
    BY <2>1, <1>3, <1>11 DEF s, BlockStays
  <2> QED BY <1>1, <2>2, GoodStays
<1>13. hd[n].buf = NoBuf
  BY SMTT(60) DEF None
<1>14. Unborrowed(cl, n)
  BY FreeUnborrowed
<1>15. hd[h].sh = s /\ b.sh = s /\ hd[h] = b
  BY DEF b, s
<1>16. Inv([hd EXCEPT ![n] = b], heap, B2, cl, lo)
  <2>1. Counts(sh, B2, s, lo)
    BY <1>10, <1>11 DEF Counts
  <2>2. \A x \in Handles : hd[x].sh = s => hd[x].vt # "taking"
    <3>1. \A x \in Handles : Linked(hd[x], heap, sh)
      BY DEF Inv, HandleInv, Good
    <3>2. "owned" # "taking"
      OBVIOUS
    <3> QED BY <3>1, <3>2, <1>3, <1>4 DEF Linked
  <2>3. B2[s].ref = sh[s].ref \/ \A x \in Handles : hd[x].sh = s => hd[x].vt # "taking"
    BY <2>2
  <2>4. /\ Inv(hd, heap, sh, cl, lo) /\ n \in Handles /\ hd[n].buf = NoBuf /\ Unborrowed(cl, n)
        /\ h \in Handles /\ s \in Shareds /\ hd[h].sh = s /\ sh[s].live
        /\ b \in HandleType /\ b.buf = sh[s].buf /\ b.sh = s /\ Good(b, heap, B2, lo)
    BY <1>1, <1>3, <1>4, <1>12, <1>13, <1>14, <1>15
  <2> QED BY ONLY <2>1, <2>3, <2>4, ShareKeepsInv, SMTT(60)
<1> QED BY <1>9, <1>15, <1>16

\* ...a counted one without its count,
LEMMA CloneCounted ==
  ASSUME Inv(hd, heap, sh, cl, TRUE), Defined, NEW h \in Handles, NEW n \in Handles, n # h, hd[n] = None,
         hd[h].vt \in {"promotable", "shared"}, hd[h].sh # NoShared
  PROVE  /\ Inv([hd EXCEPT ![n] = [hd[h] EXCEPT !.vt = "shared"]], heap, sh, cl, TRUE)
         /\ Cloned(hd[h], shallow_clone_arc(hd[h]))
<1> DEFINE b == hd[h]
           s == b.sh
           c == [b EXCEPT !.vt = "shared"]
<1>1. /\ b \in HandleType /\ Good(b, heap, sh, TRUE)
      /\ s \in Shareds /\ sh[s].live /\ sh \in [Shareds -> BlockType]
  BY HandleFacts
<1>2. Relabels(b, c, "shared")
  <2>1. "shared" \in VTables
    BY DEF VTables
  <2> QED BY <1>1, <2>1, ExceptRelabels
<1> HIDE DEF c
<1>3. Good(c, heap, sh, TRUE)
  <2>1. "shared" \in {"shared", "copying", "taking"} /\ "shared" # "taking"
    OBVIOUS
  <2> QED BY <1>1, <1>2, <2>1, RelabelIsGood
<1>4. c.sh = s /\ c.buf = sh[s].buf /\ c \in HandleType
  BY <1>1, <1>2 DEF Good, Linked, Relabels
<1>5. Unborrowed(cl, n) /\ hd[n].buf = NoBuf
  <2>1. None.buf = NoBuf
    BY SMTT(60) DEF None
  <2> QED BY <2>1, FreeUnborrowed
<1>6. Inv([hd EXCEPT ![n] = c], heap, sh, cl, TRUE)
  <2>1. Counts(sh, sh, s, TRUE)
    BY <1>1 DEF Counts
  <2>2. hd[h].sh = s
    BY SMTT(60)
  <2> HIDE DEF b, s
  <2> QED BY <2>1, <2>2, <1>1, <1>3, <1>4, <1>5, ShareKeepsInv
<1>7. Cloned(b, [old |-> b, new |-> c, sh |-> sh, lost |-> TRUE])
  BY <1>1, <1>2, SMTT(60) DEF Cloned, Relabels
<1> QED BY <1>6, <1>7 DEF c, shallow_clone_arc

\* ...and a boxed slice is promoted.
LEMMA ClonePromoted ==
  ASSUME NEW lo, Inv(hd, heap, sh, cl, lo), Defined, NEW h \in Handles, NEW n \in Handles, n # h, hd[n] = None,
         hd[h].vt = "promotable", hd[h].sh = NoShared, NEW s \in FreshShareds
  PROVE  LET c == shallow_clone_vec(hd[h], s)
         IN Inv([hd EXCEPT ![h] = c.old, ![n] = c.new], heap, c.sh, cl, lo) /\ Cloned(hd[h], c)
<1> DEFINE b == hd[h]
           p == [b EXCEPT !.sh = s]
           q == [p EXCEPT !.vt = "shared"]
           k == Block(b.buf, b.off + b.len, 1)
           k2 == Block(b.buf, b.off + b.len, 2)
           H1 == [hd EXCEPT ![h] = p]
           B1 == [sh EXCEPT ![s] = k]
           B2 == [sh EXCEPT ![s] = k2]
<1>1. /\ Inv(H1, heap, B1, cl, lo)
      /\ p \in HandleType /\ p.vt = "promotable" /\ p.buf = b.buf /\ p.sh = s
      /\ p.off = b.off /\ p.len = b.len /\ p.cap = b.cap /\ p.val = b.val
      /\ Good(p, heap, B1, lo)
  BY PromoteKeepsInv
<1>2. /\ b \in HandleType /\ Good(b, heap, sh, lo) /\ b.off \in Nat /\ b.len \in Nat
      /\ b.buf = NoBuf \/ b.buf \in Bufs
      /\ sh \in [Shareds -> BlockType] /\ hd \in [Handles -> HandleType]
  BY HandleFacts
<1>3. s \in Shareds /\ s # NoShared
  BY FreshUnheld, BytesAssumption
<1>4. b.buf # NoBuf
  BY <1>2 DEF Good, Kind
<1>5. b.buf \in Bufs /\ b.off + b.len \in Nat
  BY ONLY <1>2, <1>4, SMTT(60)
<1>6. /\ k \in BlockType /\ k.live /\ k.buf = b.buf /\ k.cap = b.off + b.len /\ k.ref = 1 /\ ~k.owned /\ k.kept = 0
      /\ k2 \in BlockType /\ k2.live /\ k2.buf = b.buf /\ k2.cap = b.off + b.len /\ k2.ref = 2 /\ ~k2.owned /\ k2.kept = 0
  BY <1>5, BlockFacts, SMTT(60)
<1> HIDE DEF p, k, k2
<1>7. B1[s] = k /\ \A r \in Shareds : r # s => B1[r] = sh[r]
  BY <1>2, <1>3, <1>6, UpdateFacts
<1>8. B2 \in [Shareds -> BlockType] /\ B2[s] = k2 /\ \A r \in Shareds : r # s => B2[r] = sh[r]
  BY <1>2, <1>3, <1>6, UpdateFacts
<1>9. H1[h] = p /\ H1[n] = None /\ \A x \in Handles : x # h => H1[x] = hd[x]
  BY <1>1, <1>2, UpdateFacts
<1>10. Relabels(p, q, "shared") /\ Good(q, heap, B1, lo)
  <2>1. "shared" \in VTables /\ "shared" \in {"shared", "copying", "taking"} /\ "shared" # "taking" /\ p.vt \in {"promotable", "shared"} /\ p.sh # NoShared
    BY <1>1, <1>3 DEF VTables
  <2>2. Relabels(p, q, "shared")
    BY <1>1, <2>1, ExceptRelabels
  <2> QED BY <1>1, <2>1, <2>2, RelabelIsGood
<1> HIDE DEF H1, B1, B2, q
<1>11. Good(q, heap, B2, lo)
  <2>1. q.vt # "taking" /\ q.sh = s
    BY <1>1, <1>10, SMTT(60) DEF Relabels
  <2>2. BlockStays(q, B1, B2)
    BY <2>1, <1>6, <1>7, <1>8 DEF BlockStays
  <2> QED BY <1>10, <2>2, GoodStays
<1>12. Counts(B1, B2, s, lo) /\ B1[s].live
  <2>1. B2[s].ref = B1[s].ref + 1
    BY ONLY <1>6, <1>7, <1>8, SMTT(60)
  <2> QED BY <2>1, <1>6, <1>7, <1>8 DEF Counts
<1>13. H1[n].buf = NoBuf /\ H1[h].sh = s /\ q.buf = B1[s].buf /\ q.sh = s /\ q \in HandleType
  BY <1>1, <1>6, <1>7, <1>9, <1>10, SMTT(60) DEF None, Relabels
<1>14. Unborrowed(cl, n)
  BY FreeUnborrowed
<1>15. Inv([H1 EXCEPT ![n] = q], heap, B2, cl, lo)
  <2>1. "promotable" # "taking" /\ \A x \in Handles : hd[x].sh # s
    BY FreshUnheld
  <2>2. \A x \in Handles : H1[x].sh = s => H1[x].vt # "taking"
    BY <2>1, <1>1, <1>9
  <2>3. B2[s].ref = B1[s].ref \/ \A x \in Handles : H1[x].sh = s => H1[x].vt # "taking"
    BY <2>2
  <2>4. /\ Inv(H1, heap, B1, cl, lo) /\ n \in Handles /\ h \in Handles /\ s \in Shareds
    BY <1>1, <1>3
  <2> QED BY ONLY <2>3, <2>4, <1>11, <1>12, <1>13, <1>14, ShareKeepsInv, ZenonT(30)
<1> DEFINE c == [old |-> p, new |-> q, sh |-> B2, lost |-> lost]
<1>16. shallow_clone_vec(b, s) = c
  BY DEF shallow_clone_vec, p, q, B2, k2
<1>17. [H1 EXCEPT ![n] = q] = [hd EXCEPT ![h] = c.old, ![n] = c.new] /\ c.sh = B2
  BY ONLY SMTT(60) DEF H1
<1>18. Cloned(b, c)
  BY <1>1, <1>3, <1>10, SMTT(60) DEF Cloned, Relabels
<1> QED BY <1>15, <1>16, <1>17, <1>18

\* A clone into a free variable, counted or with the count lost.
LEMMA CloneKeepsInv ==
  ASSUME NEW lo, Inv(hd, heap, sh, cl, lo), Defined, NEW h \in Handles, NEW n \in Handles, n # h, hd[n] = None,
         IsBytes(h), NEW s \in CloneBlocks(hd[h]), NEW c, c = Clone(hd[h], s), c.lost = TRUE => lo = TRUE
  PROVE  Inv([hd EXCEPT ![h] = c.old, ![n] = c.new], heap, c.sh, cl, lo) /\ Cloned(hd[h], c)
<1> DEFINE b == hd[h]
<1>1. b \in HandleType /\ Kind(b) /\ hd \in [Handles -> HandleType]
  BY HandleFacts DEF Good
<1>2. \A x : [hd EXCEPT ![h] = hd[h], ![n] = x] = [hd EXCEPT ![n] = x]
  <2>1. [hd EXCEPT ![h] = hd[h]] = hd
    BY <1>1, SMTT(60)
  <2> QED BY <2>1
<1>3. CASE b.vt = "static"
  <2>1. c = [old |-> b, new |-> b, sh |-> sh, lost |-> lost]
    BY <1>3, SMTT(60) DEF Clone
  <2>2. Inv([hd EXCEPT ![n] = b], heap, sh, cl, lo)
    BY <1>3, CloneStatic
  <2>3. Cloned(b, c)
    BY <1>1, <1>3, <2>1, SMTT(60) DEF Cloned
  <2>4. c.old = b /\ c.new = b /\ c.sh = sh
    BY <2>1, SMTT(60)
  <2> QED BY <1>2, <2>2, <2>3, <2>4
<1>4. CASE b.vt = "owned"
  <2>1. c = [old |-> b, new |-> b, sh |-> [sh EXCEPT ![b.sh].ref = @ + 1], lost |-> lost]
    BY <1>4, SMTT(60) DEF Clone, owned_clone
  <2>2. Inv([hd EXCEPT ![n] = b], heap, [sh EXCEPT ![b.sh].ref = @ + 1], cl, lo)
    BY <1>4, CloneOwned
  <2>3. Cloned(b, c)
    BY <1>1, <1>4, <2>1, SMTT(60) DEF Cloned
  <2>4. c.old = b /\ c.new = b /\ c.sh = [sh EXCEPT ![b.sh].ref = @ + 1]
    BY <2>1, SMTT(60)
  <2> QED BY <1>2, <2>2, <2>3, <2>4
<1>5. CASE b.vt = "promotable" /\ b.sh = NoShared
  <2>1. c = shallow_clone_vec(b, s)
    BY <1>5, SMTT(60) DEF Clone, Counted
  <2>2. s \in FreshShareds
    BY <1>5, SMTT(60) DEF CloneBlocks, Counted
  <2> QED BY <1>5, <2>1, <2>2, ClonePromoted
<1>6. CASE b.vt \in {"promotable", "shared"} /\ b.sh # NoShared
  <2>1. c = shallow_clone_arc(b)
    BY <1>6, SMTT(60) DEF Clone, Counted
  <2>2. lo = TRUE
    BY <2>1, SMTT(60) DEF shallow_clone_arc
  <2>3. Inv(hd, heap, sh, cl, TRUE)
    BY LossKeepsInv
  <2>4. Inv([hd EXCEPT ![n] = [b EXCEPT !.vt = "shared"]], heap, sh, cl, TRUE) /\ Cloned(b, c)
    BY <1>6, <2>1, <2>3, CloneCounted
  <2>5. c.old = b /\ c.new = [b EXCEPT !.vt = "shared"] /\ c.sh = sh
    BY <2>1, SMTT(60) DEF shallow_clone_arc
  <2> QED BY <1>2, <2>2, <2>4, <2>5
<1>7. b.vt = "shared" => b.sh # NoShared
  BY <1>1 DEF Kind
<1> QED BY <1>3, <1>4, <1>5, <1>6, <1>7 DEF IsBytes

\* A handle is dropped.
LEMMA DropKeepsInv ==
  ASSUME NEW lo, Inv(hd, heap, sh, cl, lo), Defined, NEW h \in Handles, Unborrowed(cl, h)
  PROVE  Inv([hd EXCEPT ![h] = None], Dropped(hd[h], sh).heap, Dropped(hd[h], sh).sh, cl, lo)
<1> DEFINE b == hd[h]
           d == Dropped(b, sh)
           H2 == [hd EXCEPT ![h] = None]
<1>1. b.sh = NoShared \/ (b.sh \in Shareds /\ sh[b.sh].live)
  BY HandleFacts
<1>2. CASE b.sh # NoShared /\ sh[b.sh].ref = 1
  <2>1. d.sh = [sh EXCEPT ![b.sh] = NoBlock] /\ d.heap = [heap EXCEPT ![sh[b.sh].buf] = NoAlloc]
    BY <1>2, SMTT(60) DEF Dropped, Released, Counted
  <2>2. Leaves(hd, H2, cl, h, lo)
    BY DEF Leaves
  <2>3. Inv(H2, [heap EXCEPT ![sh[b.sh].buf] = NoAlloc], [sh EXCEPT ![b.sh] = NoBlock], cl, lo)
    BY <1>1, <1>2, <2>2, LastReleaseKeepsInv
  <2> QED BY <2>1, <2>3
<1>3. CASE b.sh # NoShared /\ sh[b.sh].ref # 1
  <2>1. d.sh = [sh EXCEPT ![b.sh].ref = @ - 1] /\ d.heap = heap
    BY <1>3, SMTT(60) DEF Dropped, Released, Counted
  <2>2. Leaves(hd, H2, cl, h, lo)
    BY DEF Leaves
  <2>3. Inv(H2, heap, [sh EXCEPT ![b.sh].ref = @ - 1], cl, lo)
    BY <1>1, <1>3, <2>2, ReleaseKeepsInv
  <2> QED BY <2>1, <2>3
<1>4. CASE b.sh = NoShared /\ b.buf # NoBuf
  <2>1. d.sh = sh /\ d.heap = [heap EXCEPT ![b.buf] = NoAlloc]
    BY <1>4, SMTT(60) DEF Dropped, Counted
  <2>2. Inv(H2, [heap EXCEPT ![b.buf] = NoAlloc], sh, cl, lo)
    BY <1>4, FreeKeepsInv
  <2> QED BY <2>1, <2>2
<1>5. CASE b.sh = NoShared /\ b.buf = NoBuf
  <2>1. d.sh = sh /\ d.heap = heap
    BY <1>5, SMTT(60) DEF Dropped, Counted
  <2>2. None \in HandleType /\ Good(None, heap, sh, lo)
    BY NoneIsGood
  <2>3. None.buf = b.buf /\ None.sh = b.sh
    BY <1>5, SMTT(60) DEF None
  <2>4. MayBe(cl, h, None)
    BY DEF MayBe
  <2>5. Inv(H2, heap, sh, cl, lo)
    BY <2>2, <2>3, <2>4, ViewKeepsInv
  <2> QED BY <2>1, <2>5
<1> QED BY <1>2, <1>3, <1>4, <1>5

\* The vector a conversion makes.
IsVec(b, buf, off, len, cap, val) ==
  /\ b \in HandleType /\ b.vt = "vec" /\ b.buf = buf /\ b.sh = NoShared
  /\ b.off = off /\ b.len = len /\ b.cap = cap /\ b.val = val

\* The fields of the vector a conversion builds with Vec::from_raw_parts.
LEMMA VecFacts ==
  ASSUME NEW buf \in Bufs \cup {NoBuf}, NEW off \in Nat, NEW len \in Nat, NEW cap \in Nat, NEW val \in Seq(Nat),
         NEW b, b = Vec(buf, off, len, cap, val)
  PROVE  IsVec(b, buf, off, len, cap, val)
<1>1. None \in HandleType /\ "vec" \in VTables
  BY NoneIsGood DEF VTables
<1>2. b \in HandleType
  BY <1>1 DEF Vec, HandleType
<1>3. b.vt = "vec" /\ b.buf = buf /\ b.sh = NoShared /\ b.off = off /\ b.len = len /\ b.cap = cap /\ b.val = val
  BY SMTT(60) DEF Vec, None
<1> QED BY <1>2, <1>3 DEF IsVec

\* The vector has its bytes, and the capacity of its allocation.
VecFits(M, lo, buf, off, len, cap, val) ==
  /\ M[buf].live /\ off + len <= Len(M[buf].bytes) /\ cap = Len(M[buf].bytes)
  /\ val \in Seq(Nat) /\ Len(val) = len /\ (~lo => Sub(M[buf].bytes, off, len) = val)

\* Such a vector, on a live allocation of its capacity, is laid out right.
LEMMA VecIsGood ==
  ASSUME NEW M \in [Bufs -> AllocType], NEW lo, NEW buf \in Bufs, NEW off \in Nat, NEW len \in Nat, NEW cap,
         NEW val, VecFits(M, lo, buf, off, len, cap, val), NEW b, IsVec(b, buf, off, len, cap, val)
  PROVE  \A B : Good(b, M, B, lo)
<1>0. /\ M[buf].live /\ off + len <= Len(M[buf].bytes) /\ cap = Len(M[buf].bytes)
      /\ val \in Seq(Nat) /\ Len(val) = len /\ (~lo => Sub(M[buf].bytes, off, len) = val)
  BY DEF VecFits
<1>1. M[buf] \in AllocType
  OBVIOUS
<1>2. cap \in Nat
  BY <1>0, <1>1, SMTT(60) DEF AllocType
<1>3. buf # NoBuf /\ buf \in Bufs \cup {NoBuf}
  BY BytesAssumption
<1>4. /\ b \in HandleType /\ b.vt = "vec" /\ b.buf = buf /\ b.sh = NoShared
      /\ b.off = off /\ b.len = len /\ b.cap = cap /\ b.val = val
  BY DEF IsVec
<1>5. Kind(b)
  BY <1>3, <1>4, SMTT(60) DEF Kind
<1>6. (\A B : Linked(b, M, B)) /\ Fits(b, M)
  BY <1>0, <1>3, <1>4, SMTT(60) DEF Linked, Fits
<1>7. ~lo => Shows(b, M)
  BY <1>0, <1>3, <1>4 DEF Shows
<1> QED BY <1>4, <1>5, <1>6, <1>7 DEF Good

\* A new allocation.
LEMMA AllocatedFacts ==
  ASSUME NEW w \in Seq(Nat)
  PROVE  Allocated(w) \in AllocType /\ Allocated(w).live /\ Allocated(w).bytes = w
BY SMTT(60) DEF Allocated, AllocType

\* A copy of the bytes of a handle that is gone.
LEMMA CopyKeepsInv ==
  ASSUME NEW H, NEW M, NEW B, NEW C, NEW lo, Inv(H, M, B, C, lo),
         NEW h \in Handles, H[h] = None, Unborrowed(C, h),
         NEW b \in HandleType, Len(b.val) = b.len,
         NEW v, (v = NoBuf /\ b.len = 0) \/ (v \in Bufs /\ ~M[v].live /\ \A x \in Handles : H[x].buf # v),
         NEW w \in Seq(Nat), Len(w) = b.len, ~lo => w = b.val
  PROVE  Inv([H EXCEPT ![h] = CopyOf(b, v)],
             IF v = NoBuf THEN M ELSE [M EXCEPT ![v] = Allocated(w)], B, C, lo)
<1>1. b.len \in Nat /\ b.val \in Seq(Nat) /\ 0 \in Nat
  BY ONLY SMTT(60) DEF HandleType
<1>2. None.buf = NoBuf /\ None.sh = NoShared
  BY SMTT(60) DEF None
<1>3. CASE v = NoBuf /\ b.len = 0
  <2> DEFINE c == Vec(NoBuf, 0, 0, 0, b.val)
  <2>1. c = CopyOf(b, v)
    BY <1>3 DEF CopyOf
  <2>2. /\ c \in HandleType /\ c.vt = "vec" /\ c.buf = NoBuf /\ c.sh = NoShared
        /\ c.off = 0 /\ c.len = 0 /\ c.cap = 0 /\ c.val = b.val
    <3>1. NoBuf \in Bufs \cup {NoBuf}
      OBVIOUS
    <3>2. IsVec(c, NoBuf, 0, 0, 0, b.val)
      BY <1>1, <3>1, VecFacts
    <3> QED BY <3>2 DEF IsVec
  <2> HIDE DEF c
  <2>3. b.val = <<>>
    BY <1>1, <1>3, EmptyIsOne, SMTT(60)
  <2>4. None.off = 0 /\ None.len = 0 /\ None.val = <<>>
    BY SMTT(60) DEF None
  <2>5. Fits(None, M) /\ Shows(None, M)
    <3>1. Good(None, M, B, FALSE)
      BY NoneIsGood
    <3> QED BY <3>1 DEF Good
  <2>6. Kind(c) /\ Linked(c, M, B)
    BY <2>2, SMTT(60) DEF Kind, Linked
  <2>7. Fits(c, M) /\ Shows(c, M)
    BY <1>2, <2>2, <2>3, <2>4, <2>5 DEF Fits, Shows
  <2>8. Good(c, M, B, lo) /\ MayBe(C, h, c)
    BY <2>6, <2>7 DEF Good, MayBe
  <2>9. c.buf = H[h].buf /\ c.sh = H[h].sh
    BY <1>2, <2>2
  <2>10. Inv([H EXCEPT ![h] = c], M, B, C, lo)
    BY <2>2, <2>8, <2>9, ViewKeepsInv
  <2> QED BY <1>3, <2>1, <2>10
<1>4. CASE v \in Bufs /\ ~M[v].live /\ \A x \in Handles : H[x].buf # v
  <2> DEFINE a == Allocated(w)
             M2 == [M EXCEPT ![v] = a]
             c == Vec(v, 0, b.len, b.len, b.val)
  <2>1. c = CopyOf(b, v)
    BY DEF CopyOf
  <2>2. a \in AllocType /\ a.live /\ a.bytes = w
    BY AllocatedFacts
  <2>3. M \in [Bufs -> AllocType]
    BY DEF Inv, Types
  <2> HIDE DEF a
  <2>4. M2 \in [Bufs -> AllocType] /\ M2[v] = a
    BY <1>4, <2>2, <2>3, UpdateFacts
  <2> HIDE DEF M2
  <2>5. M2[v].live /\ 0 + b.len <= Len(M2[v].bytes) /\ b.len = Len(M2[v].bytes)
    BY <1>1, <2>2, <2>4, SMTT(60)
  <2>6. ~lo => Sub(M2[v].bytes, 0, b.len) = b.val
    BY <2>2, <2>4, SubAll
  <2>7. Good(c, M2, B, lo) /\ c \in HandleType /\ c.buf = v /\ c.sh = NoShared
    <3>1. v \in Bufs
      BY <1>4
    <3>2. IsVec(c, v, 0, b.len, b.len, b.val)
      <4>1. v \in Bufs \cup {NoBuf}
        BY <3>1
      <4> QED BY <1>1, <4>1, VecFacts
    <3>3. VecFits(M2, lo, v, 0, b.len, b.len, b.val)
      BY <1>1, <2>5, <2>6 DEF VecFits
    <3> HIDE DEF c
    <3>4. Good(c, M2, B, lo)
      BY <1>1, <3>1, <3>2, <3>3, <2>4, VecIsGood
    <3> QED BY <3>2, <3>4 DEF IsVec
  <2>8. H[h].buf = NoBuf /\ v # NoBuf
    BY <1>2, <1>4, BytesAssumption
  <2> HIDE DEF c
  <2>9. Inv([H EXCEPT ![h] = c], M2, B, C, lo)
    BY <1>4, <2>2, <2>7, <2>8, AllocKeepsInv DEF M2
  <2> QED BY <2>1, <2>8, <2>9 DEF M2, a
<1> QED BY <1>3, <1>4

-----------------------------------------------------------------------------
(* The actions.                                                            *)

\* The second of two updates at one place stands.
LEMMA ExceptTwice ==
  ASSUME NEW S, NEW T, NEW f \in [S -> T], NEW a, NEW v, NEW w
  PROVE  [[f EXCEPT ![a] = v] EXCEPT ![a] = w] = [f EXCEPT ![a] = w]
OBVIOUS

\* from_static makes a handle without an allocation.
LEMMA FromStaticKeepsInv ==
  ASSUME NEW lo, Inv(hd, heap, sh, cl, lo), NEW h \in Handles, from_static(h)
  PROVE  Inv(hd', heap', sh', cl', lo)
<1>1. /\ hd' = [hd EXCEPT ![h] = Static(0, Len(StaticBytes))] /\ heap' = heap /\ sh' = sh /\ cl' = cl
      /\ hd[h] = None
  BY DEF from_static, Free
<1>2. Len(StaticBytes) \in Nat /\ Len(StaticBytes) <= Len(StaticBytes)
  BY BytesAssumption, SMTT(60)
<1> DEFINE b == Static(0, Len(StaticBytes))
<1>3. b \in HandleType /\ Good(b, heap, sh, lo) /\ b.buf = NoBuf /\ b.sh = NoShared
  BY <1>2, StaticIsGood
<1> HIDE DEF b
<1>4. b.buf = hd[h].buf /\ b.sh = hd[h].sh
  BY <1>1, <1>3, SMTT(60) DEF None
<1>5. MayBe(cl, h, b)
  BY <1>1, FreeUnborrowed DEF MayBe
<1>6. Inv([hd EXCEPT ![h] = b], heap, sh, cl, lo)
  BY <1>3, <1>4, <1>5, ViewKeepsInv
<1> QED BY <1>1, <1>6 DEF b

\* The handle of a new allocation: the first len of its bytes w.
Fresh(c, vt, v, s, len, w) ==
  /\ c \in HandleType /\ c.vt = vt /\ c.buf = v /\ c.sh = s /\ c.off = 0 /\ c.len = len /\ c.val = Sub(w, 0, len)

\* A new allocation with its block: a vector with spare capacity, an owner.
LEMMA NewCountedKeepsInv ==
  ASSUME NEW lo, Inv(hd, heap, sh, cl, lo), Defined, NEW h \in Handles, hd[h] = None,
         NEW v \in FreshBufs, NEW s \in FreshShareds, NEW w \in Seq(Nat), NEW len \in Nat, len <= Len(w),
         NEW k \in BlockType, k.live, k.buf = v, k.ref = 1, k.kept = 0, k.cap = Len(w),
         NEW vt \in {"shared", "owned"}, k.owned <=> vt = "owned", NEW c, Fresh(c, vt, v, s, len, w)
  PROVE  Inv([hd EXCEPT ![h] = c], [heap EXCEPT ![v] = Allocated(w)], [sh EXCEPT ![s] = k], cl, lo)
<1> DEFINE a == Allocated(w)
           M2 == [heap EXCEPT ![v] = a]
           B2 == [sh EXCEPT ![s] = k]
           val == Sub(w, 0, len)
           b == Vec(v, 0, len, Len(w), val)
           H1 == [hd EXCEPT ![h] = b]
<1>1. /\ v \in Bufs /\ ~heap[v].live /\ v # NoBuf /\ \A x \in Handles : hd[x].buf # v
      /\ s \in Shareds /\ ~sh[s].live /\ s # NoShared /\ \A x \in Handles : hd[x].sh # s
  BY FreshUnheld, BytesAssumption
<1>2. hd \in [Handles -> HandleType] /\ heap \in [Bufs -> AllocType] /\ sh \in [Shareds -> BlockType]
  BY DEF Inv, Types
<1>3. Len(w) \in Nat /\ 0 \in Nat /\ 0 + len <= Len(w)
  BY SMTT(60)
<1>4. val \in Seq(Nat) /\ Len(val) = len
  BY <1>3, SubFacts, SMTT(60)
<1>5. a \in AllocType /\ a.live /\ a.bytes = w
  BY AllocatedFacts
<1> HIDE DEF a
<1>6. M2 \in [Bufs -> AllocType] /\ M2[v] = a
  BY <1>1, <1>2, <1>5, UpdateFacts
<1>7. B2 \in [Shareds -> BlockType] /\ B2[s] = k
  <2>1. s \in Shareds /\ sh \in [Shareds -> BlockType] /\ k \in BlockType
    BY <1>1, <1>2
  <2> QED BY <2>1, UpdateFacts
<1>8. VecFits(M2, lo, v, 0, len, Len(w), val)
  BY <1>3, <1>4, <1>5, <1>6 DEF VecFits
<1> HIDE DEF val
<1>9. IsVec(b, v, 0, len, Len(w), val)
  <2>1. v \in Bufs \cup {NoBuf}
    BY <1>1
  <2> QED BY <2>1, <1>3, <1>4, VecFacts
<1> HIDE DEF M2, b
<1>10. Good(b, M2, sh, lo)
  BY <1>1, <1>3, <1>6, <1>8, <1>9, VecIsGood
<1>11. Unborrowed(cl, h) /\ hd[h].buf = NoBuf
  <2>1. None.buf = NoBuf
    BY SMTT(60) DEF None
  <2> QED BY <2>1, FreeUnborrowed
<1>12. b \in HandleType /\ b.buf = v /\ b.sh = NoShared
  BY <1>9 DEF IsVec
<1>13. Inv(H1, M2, sh, cl, lo)
  BY <1>1, <1>5, <1>10, <1>11, <1>12, AllocKeepsInv DEF M2
<1>14. H1[h] = b /\ \A x \in Handles : x # h => H1[x] = hd[x]
  BY <1>2, <1>12, UpdateFacts
<1> HIDE DEF H1
<1>15. H1[h].buf # NoBuf /\ H1[h].buf = v /\ H1[h].sh = NoShared /\ \A x \in Handles : H1[x].sh # s
  BY <1>1, <1>12, <1>14
<1>16. c \in HandleType /\ c.vt = vt /\ c.buf = v /\ c.sh = s /\ c.off = 0 /\ c.len = len /\ c.val = val
  BY DEF Fresh, val
<1> HIDE DEF B2
<1>17. Good(c, M2, B2, lo)
  <2>1. Kind(c)
    BY <1>1, <1>16, SMTT(60) DEF Kind
  <2>2. Linked(c, M2, B2)
    BY <1>1, <1>7, <1>16 DEF Linked
  <2>3. Fits(c, M2)
    BY <1>1, <1>3, <1>4, <1>5, <1>6, <1>16, SMTT(60) DEF Fits
  <2>4. Shows(c, M2)
    BY <1>1, <1>5, <1>6, <1>16 DEF Shows, val
  <2> QED BY <2>1, <2>2, <2>3, <2>4 DEF Good
<1>18. k.cap = Len(M2[k.buf].bytes) /\ k.buf = H1[h].buf
  BY <1>5, <1>6, <1>15
<1>19. MayBe(cl, h, c)
  BY <1>11 DEF MayBe
<1>20. Inv([H1 EXCEPT ![h] = c], M2, B2, cl, lo)
  BY <1>1, <1>13, <1>15, <1>16, <1>17, <1>18, <1>19, CountKeepsInv DEF B2
<1>21. [H1 EXCEPT ![h] = c] = [hd EXCEPT ![h] = c]
  BY <1>2, ExceptTwice DEF H1
<1> QED BY <1>20, <1>21 DEF M2, B2, a

\* From<Vec<u8>>: the three ways a vector becomes a Bytes.
LEMMA FromVecKeepsInv ==
  ASSUME NEW lo, Inv(hd, heap, sh, cl, lo), NEW h \in Handles, NEW v \in Bufs, NEW s \in Blocks,
         NEW len \in Lens, NEW cap \in Lens, from_vec(h, v, s, len, cap)
  PROVE  Inv(hd', heap', sh', cl', lo)
<1> DEFINE w == [i \in 1 .. cap |-> i]
           c == [None EXCEPT !.vt = "promotable", !.buf = v, !.len = len, !.val = Sub(w, 0, len)]
<1>1. Defined /\ hd[h] = None /\ v \in FreshBufs /\ len <= cap /\ cl' = cl
  BY DEF from_vec, Free
<1>2. len \in Nat /\ cap \in Nat
  BY BytesAssumption, SMTT(60) DEF Lens
<1>3. w \in Seq(Nat) /\ Len(w) = cap
  BY <1>2, CountingSeq
<1>4. v \in Bufs /\ ~heap[v].live /\ v # NoBuf /\ \A x \in Handles : hd[x].buf # v
  BY <1>1, FreshUnheld, BytesAssumption
<1>5. Unborrowed(cl, h) /\ hd[h].buf = NoBuf /\ hd[h].sh = NoShared
  <2>1. None.buf = NoBuf /\ None.sh = NoShared
    BY SMTT(60) DEF None
  <2> QED BY <1>1, <2>1, FreeUnborrowed
<1>6. CASE cap = 0
  <2>1. hd' = [hd EXCEPT ![h] = Empty] /\ heap' = heap /\ sh' = sh
    BY <1>6, SMTT(60) DEF from_vec
  <2>2. Empty \in HandleType /\ Good(Empty, heap, sh, lo) /\ Empty.buf = NoBuf /\ Empty.sh = NoShared
    BY EmptyIsGood
  <2>3. MayBe(cl, h, Empty)
    BY <1>5 DEF MayBe
  <2>4. Inv([hd EXCEPT ![h] = Empty], heap, sh, cl, lo)
    BY <1>5, <2>2, <2>3, ViewKeepsInv
  <2> QED BY <1>1, <2>1, <2>4
<1> HIDE DEF w
<1>7. Sub(w, 0, len) \in Seq(Nat) /\ Len(Sub(w, 0, len)) = len
  <2>1. 0 \in Nat /\ 0 + len <= Len(w)
    BY <1>1, <1>2, <1>3, SMTT(60)
  <2> QED BY <1>2, <1>3, <2>1, SubFacts
<1>8. /\ c.vt = "promotable" /\ c.buf = v /\ c.sh = NoShared /\ c.off = 0 /\ c.len = len
      /\ c.val = Sub(w, 0, len)
  BY SMTT(60) DEF None
<1>9. c \in HandleType
  <2>1. None \in HandleType /\ "promotable" \in VTables
    BY NoneIsGood DEF VTables
  <2> QED BY <2>1, <1>2, <1>7 DEF HandleType
<1>10. CASE cap > 0 /\ len = cap
  <2> DEFINE a == Allocated(w)
             M2 == [heap EXCEPT ![v] = a]
  <2>1. hd' = [hd EXCEPT ![h] = c] /\ heap' = [heap EXCEPT ![v] = Allocated(w)] /\ sh' = sh
    <3>1. cap > 0 /\ len = cap /\ ~(cap = 0) /\ ~(len < cap)
      BY <1>2, <1>10, SMTT(60)
    <3> QED BY <3>1 DEF from_vec, w
  <2>2. a \in AllocType /\ a.live /\ a.bytes = w
    BY <1>3, AllocatedFacts
  <2>3. heap \in [Bufs -> AllocType]
    BY DEF Inv, Types
  <2> HIDE DEF a, c
  <2>4. M2[v] = a
    BY <2>2, <2>3, UpdateFacts
  <2> HIDE DEF M2
  <2>5. Good(c, M2, sh, lo)
    <3>1. Kind(c)
      BY ONLY <1>4, <1>8, SMTT(60) DEF Kind
    <3>2. Linked(c, M2, sh)
      BY <1>4, <1>8, <2>2, <2>4, SMTT(60) DEF Linked
    <3>3. Fits(c, M2)
      BY <1>2, <1>3, <1>4, <1>7, <1>8, <1>10, <2>2, <2>4, SMTT(60) DEF Fits
    <3>4. Shows(c, M2)
      BY <1>4, <1>8, <2>2, <2>4 DEF Shows
    <3> QED BY <3>1, <3>2, <3>3, <3>4 DEF Good
  <2>6. Inv([hd EXCEPT ![h] = c], M2, sh, cl, lo)
    BY <1>4, <1>5, <1>8, <1>9, <2>2, <2>5, AllocKeepsInv DEF M2
  <2> QED BY <1>1, <2>1, <2>6 DEF M2, a
<1>11. CASE cap > 0 /\ len < cap
  <2> DEFINE q == [c EXCEPT !.vt = "shared", !.sh = s]
  <2>1. /\ s \in FreshShareds /\ hd' = [hd EXCEPT ![h] = q]
        /\ heap' = [heap EXCEPT ![v] = Allocated(w)] /\ sh' = [sh EXCEPT ![s] = Block(v, cap, 1)]
    BY <1>2, <1>11, SMTT(60) DEF from_vec, w
  <2>2. Fresh(q, "shared", v, s, len, w)
    <3>1. "shared" \in VTables /\ s \in Shareds
      BY <2>1 DEF VTables, FreshShareds
    <3> HIDE DEF c
    <3>2. q \in HandleType
      BY <1>9, <3>1 DEF HandleType
    <3>3. q.vt = "shared" /\ q.buf = c.buf /\ q.sh = s /\ q.off = c.off /\ q.len = c.len /\ q.val = c.val
      BY <1>9, SMTT(60) DEF HandleType
    <3> QED BY <1>8, <3>2, <3>3 DEF Fresh
  <2> DEFINE k == Block(v, cap, 1)
  <2>3. k \in BlockType /\ k.live /\ k.buf = v /\ k.cap = cap /\ k.ref = 1 /\ ~k.owned /\ k.kept = 0
    BY <1>2, BlockFacts, SMTT(60)
  <2> HIDE DEF q, k
  <2>4. k.cap = Len(w) /\ "shared" \in {"shared", "owned"} /\ (k.owned <=> "shared" = "owned") /\ len <= Len(w)
    BY <1>1, <1>3, <2>3, SMTT(60)
  <2>5. Inv([hd EXCEPT ![h] = q], [heap EXCEPT ![v] = Allocated(w)], [sh EXCEPT ![s] = k], cl, lo)
    BY <1>1, <1>2, <1>3, <2>1, <2>2, <2>3, <2>4, NewCountedKeepsInv
  <2> QED BY <1>1, <2>1, <2>5 DEF k
<1> QED BY <1>1, <1>2, <1>6, <1>10, <1>11, SMTT(60)

\* from_owner: the owner's buffer under an Owned block counted 1.
LEMMA FromOwnerKeepsInv ==
  ASSUME NEW lo, Inv(hd, heap, sh, cl, lo), NEW h \in Handles, NEW v \in Bufs, NEW s \in Shareds,
         NEW len \in Lens, from_owner(h, v, s, len)
  PROVE  Inv(hd', heap', sh', cl', lo)
<1> DEFINE w == [i \in 1 .. len |-> i]
           q == [None EXCEPT !.vt = "owned", !.buf = v, !.sh = s, !.len = len, !.val = w]
           k == [Block(v, len, 1) EXCEPT !.owned = TRUE]
<1>1. /\ Defined /\ hd[h] = None /\ v \in FreshBufs /\ s \in FreshShareds /\ cl' = cl
      /\ hd' = [hd EXCEPT ![h] = q] /\ heap' = [heap EXCEPT ![v] = Allocated(w)]
      /\ sh' = [sh EXCEPT ![s] = k]
  BY DEF from_owner, Free
<1>2. len \in Nat
  BY BytesAssumption, SMTT(60) DEF Lens
<1>3. w \in Seq(Nat) /\ Len(w) = len
  BY <1>2, CountingSeq
<1>4. k \in BlockType /\ k.live /\ k.buf = v /\ k.ref = 1 /\ k.kept = 0 /\ k.cap = len /\ k.owned
  <2> DEFINE b == Block(v, len, 1)
  <2>1. b \in BlockType /\ b.live /\ b.buf = v /\ b.ref = 1 /\ b.kept = 0 /\ b.cap = len
    BY <1>2, BlockFacts, SMTT(60)
  <2>2. k = [b EXCEPT !.owned = TRUE]
    OBVIOUS
  <2> HIDE DEF b, k
  <2>3. k \in BlockType
    BY <2>1, <2>2 DEF BlockType
  <2>4. k.buf = b.buf /\ k.ref = b.ref /\ k.kept = b.kept /\ k.cap = b.cap
    BY <2>1, <2>2, SMTT(60) DEF BlockType
  <2>5. k.live /\ k.owned
    BY <2>1, <2>2 DEF BlockType
  <2> QED BY <2>1, <2>3, <2>4, <2>5
<1> HIDE DEF w, k
<1>5. Fresh(q, "owned", v, s, len, w)
  <2>1. q \in HandleType
    <3>1. None \in HandleType /\ "owned" \in VTables
      BY NoneIsGood DEF VTables
    <3> QED BY <3>1, <1>2, <1>3 DEF HandleType
  <2>2. q.vt = "owned" /\ q.buf = v /\ q.sh = s /\ q.off = 0 /\ q.len = len /\ q.val = w
    BY SMTT(60) DEF None
  <2>3. Sub(w, 0, len) = w
    BY <1>3, SubAll
  <2> HIDE DEF q
  <2> QED BY <2>1, <2>2, <2>3 DEF Fresh
<1> HIDE DEF q
<1>6. k.cap = Len(w) /\ "owned" \in {"shared", "owned"} /\ (k.owned <=> "owned" = "owned") /\ len <= Len(w)
  BY <1>2, <1>3, <1>4, SMTT(60)
<1>7. Inv([hd EXCEPT ![h] = q], [heap EXCEPT ![v] = Allocated(w)], [sh EXCEPT ![s] = k], cl, lo)
  BY <1>1, <1>2, <1>3, <1>4, <1>5, <1>6, NewCountedKeepsInv
<1> QED BY <1>1, <1>7

\* What a call through &mut self, or by value, may rely on.
LEMMA MineFacts ==
  ASSUME NEW h \in Handles, Mine(h)
  PROVE  Defined /\ Unborrowed(cl, h) /\ hd[h].vt # "none" /\ hd[h].vt # "vec" /\ hd[h].vt # "copying" /\ hd[h].vt # "taking"
BY SMTT(60) DEF Mine, IsBytes, Borrowed, Unborrowed

\* A handle moves to a part of its bytes (inc_start, a shorter len); a
\* promotable one that is not promoted keeps its end, from which its capacity is
\* computed.
LEMMA NarrowKeepsInv ==
  ASSUME NEW H, NEW M, NEW B, NEW C, NEW lo, Inv(H, M, B, C, lo), NEW h \in Handles,
         NEW c, NEW by \in Nat, NEW k \in Nat, by + k <= H[h].len, Narrows(H[h], c, by, k),
         H[h].vt # "none",
         H[h].vt = "promotable" /\ H[h].sh = NoShared => by + k = H[h].len,
         lo \/ H[h].buf = NoBuf \/ M[H[h].buf].live
  PROVE  Inv([H EXCEPT ![h] = c], M, B, C, lo)
<1>1. H[h] \in HandleType /\ Good(H[h], M, B, lo) /\ M \in [Bufs -> AllocType]
  BY DEF Inv, Types, HandleInv
<1>2. Good(c, M, B, lo)
  BY <1>1, NarrowIsGood
<1>3. c \in HandleType /\ c.vt = H[h].vt /\ c.buf = H[h].buf /\ c.sh = H[h].sh
  BY DEF Narrows
<1>4. C \in [Threads -> {Idle} \cup [h : Handles]] /\ CloneInv(H, C)
  BY DEF Inv, Types
<1>5. MayBe(C, h, c)
  <2>1. SUFFICES ASSUME NEW t \in Threads, C[t].h = h
                 PROVE  c.vt = "promotable"
    BY DEF MayBe, Unborrowed
  <2>2. C[t] # Idle
    <3>1. Idle.h = "idle"
      BY SMTT(60) DEF Idle
    <3> QED BY <2>1, <3>1, BytesAssumption
  <2> QED BY <1>3, <1>4, <2>1, <2>2 DEF CloneInv
<1> QED BY <1>2, <1>3, <1>5, ViewKeepsInv

\* Buf::advance moves the start.
LEMMA AdvanceKeepsInv ==
  ASSUME NEW lo, Inv(hd, heap, sh, cl, lo), NEW h \in Handles, NEW cnt \in Lens, advance(h, cnt)
  PROVE  Inv(hd', heap', sh', cl', lo)
<1>1. /\ Mine(h) /\ cnt <= hd[h].len /\ hd' = [hd EXCEPT ![h] = IncStart(hd[h], cnt)]
      /\ heap' = heap /\ sh' = sh /\ cl' = cl
  BY DEF advance
<1>2. cnt \in Nat
  BY BytesAssumption, SMTT(60) DEF Lens
<1>3. Defined /\ hd[h].vt # "none"
  BY <1>1, MineFacts
<1>4. /\ hd[h] \in HandleType /\ Len(hd[h].val) = hd[h].len /\ hd[h].len \in Nat
      /\ hd[h].buf = NoBuf \/ heap[hd[h].buf].live
  BY <1>3, HandleFacts
<1> DEFINE c == IncStart(hd[h], cnt)
<1>5. Narrows(hd[h], c, cnt, hd[h].len - cnt)
  BY <1>1, <1>2, <1>4, IncStartNarrows
<1>6. hd[h].len - cnt \in Nat /\ cnt + (hd[h].len - cnt) = hd[h].len /\ cnt + (hd[h].len - cnt) <= hd[h].len
  BY <1>1, <1>2, <1>4, SMTT(60)
<1> HIDE DEF c
<1>7. Inv([hd EXCEPT ![h] = c], heap, sh, cl, lo)
  BY <1>2, <1>3, <1>4, <1>5, <1>6, NarrowKeepsInv
<1> QED BY <1>1, <1>7 DEF c

\* A thread is in the middle of cloning promotable handles only.
LEMMA OnlyPromotableBorrowed ==
  ASSUME NEW lo, Inv(hd, heap, sh, cl, lo), NEW h \in Handles, hd[h].vt # "promotable"
  PROVE  Unborrowed(cl, h)
<1>1. SUFFICES ASSUME NEW t \in Threads, cl[t].h = h
               PROVE  FALSE
  BY DEF Unborrowed
<1>2. cl[t] # Idle
  <2>1. Idle.h = "idle"
    BY SMTT(60) DEF Idle
  <2> QED BY <1>1, <2>1, BytesAssumption
<1> QED BY <1>1, <1>2 DEF Inv, CloneInv

\* Drop: the allocation goes with its only owner, or one count is given back.
LEMMA DropActionKeepsInv ==
  ASSUME NEW lo, Inv(hd, heap, sh, cl, lo), NEW h \in Handles, drop(h)
  PROVE  Inv(hd', heap', sh', cl', lo)
<1>1. /\ hd' = [hd EXCEPT ![h] = None] /\ heap' = Dropped(hd[h], sh).heap /\ sh' = Dropped(hd[h], sh).sh
      /\ cl' = cl
  BY DEF drop
<1>2. CASE Mine(h)
  <2>1. Defined /\ Unborrowed(cl, h)
    BY <1>2, MineFacts
  <2>2. Inv([hd EXCEPT ![h] = None], Dropped(hd[h], sh).heap, Dropped(hd[h], sh).sh, cl, lo)
    BY <2>1, DropKeepsInv
  <2> QED BY <1>1, <2>2
<1>3. CASE Defined /\ hd[h].vt = "vec"
  <2>1. hd[h].vt # "promotable"
    BY <1>3, SMTT(60)
  <2>2. Unborrowed(cl, h)
    BY <2>1, OnlyPromotableBorrowed
  <2>3. Inv([hd EXCEPT ![h] = None], Dropped(hd[h], sh).heap, Dropped(hd[h], sh).sh, cl, lo)
    BY <1>3, <2>2, DropKeepsInv
  <2> QED BY <1>1, <2>3
<1> QED BY <1>2, <1>3 DEF drop

\* shared_to_vec and shared_to_mut found other owners: the handle is about to copy.
LEMMA NotUniqueKeepsInv ==
  ASSUME NEW lo, Inv(hd, heap, sh, cl, lo), NEW h \in Handles, shared_not_unique(h)
  PROVE  Inv(hd', heap', sh', cl', lo)
<1> DEFINE c == [hd[h] EXCEPT !.vt = "copying"]
<1>1. /\ Mine(h) /\ hd[h].sh # NoShared /\ hd[h].vt \in {"promotable", "shared"}
      /\ heap' = heap /\ sh' = sh /\ cl' = cl /\ hd' = [hd EXCEPT ![h].vt = "copying"]
  BY DEF shared_not_unique, Counted
<1>2. Defined /\ Unborrowed(cl, h)
  BY <1>1, MineFacts
<1>3. hd[h] \in HandleType /\ Good(hd[h], heap, sh, lo) /\ hd \in [Handles -> HandleType]
  BY <1>2, HandleFacts
<1>4. hd' = [hd EXCEPT ![h] = c]
  BY <1>1
<1>5. "copying" \in VTables /\ "copying" \in {"shared", "copying", "taking"} /\ "copying" # "taking"
  BY DEF VTables
<1>6. Relabels(hd[h], c, "copying")
  BY <1>3, <1>5, ExceptRelabels
<1> HIDE DEF c
<1>7. Good(c, heap, sh, lo)
  BY <1>1, <1>3, <1>5, <1>6, RelabelIsGood
<1>8. c \in HandleType /\ c.buf = hd[h].buf /\ c.sh = hd[h].sh /\ MayBe(cl, h, c)
  BY <1>2, <1>6 DEF Relabels, MayBe
<1>9. Inv([hd EXCEPT ![h] = c], heap, sh, cl, lo)
  BY <1>7, <1>8, ViewKeepsInv
<1> QED BY <1>1, <1>4, <1>9

\* shared_to_mut_impl loaded a count of 1: the handle is about to take its block apart.
LEMMA UniqueKeepsInv ==
  ASSUME NEW lo, Inv(hd, heap, sh, cl, lo), NEW h \in Handles, shared_unique(h)
  PROVE  Inv(hd', heap', sh', cl', lo)
<1> DEFINE c == [hd[h] EXCEPT !.vt = "taking"]
<1>1. /\ Mine(h) /\ hd[h].vt = "shared" /\ sh[hd[h].sh].ref = 1
      /\ heap' = heap /\ sh' = sh /\ cl' = cl /\ hd' = [hd EXCEPT ![h].vt = "taking"]
  BY DEF shared_unique, Unique
<1>2. Defined /\ Unborrowed(cl, h)
  BY <1>1, MineFacts
<1>3. hd[h] \in HandleType /\ Good(hd[h], heap, sh, lo) /\ hd \in [Handles -> HandleType]
  BY <1>2, HandleFacts
<1>4. hd' = [hd EXCEPT ![h] = c]
  BY <1>1
<1>5. "taking" \in VTables /\ "taking" \in {"shared", "copying", "taking"} /\ hd[h].vt \in {"promotable", "shared"}
  BY <1>1 DEF VTables
<1>6. Relabels(hd[h], c, "taking") /\ hd[h].sh # NoShared
  BY <1>1, <1>3, <1>5, ExceptRelabels DEF Good, Kind
<1> HIDE DEF c
<1>7. Good(c, heap, sh, lo)
  BY <1>1, <1>3, <1>5, <1>6, RelabelIsGood
<1>8. c \in HandleType /\ c.buf = hd[h].buf /\ c.sh = hd[h].sh /\ MayBe(cl, h, c)
  BY <1>2, <1>6 DEF Relabels, MayBe
<1>9. Inv([hd EXCEPT ![h] = c], heap, sh, cl, lo)
  BY <1>7, <1>8, ViewKeepsInv
<1> QED BY <1>1, <1>4, <1>9
=============================================================================
