-------------------------------- MODULE Buf --------------------------------
(***************************************************************************)
(* The Buf and BufMut traits of src/bytes/src/buf and the types that       *)
(* implement them: byte slices, io::Cursor, VecDeque, Vec, and the         *)
(* adapters Take, Limit and Chain, nested at will.  A trait method is an   *)
(* operator on the value it is called on, one CASE arm per implementation. *)
(* A source `src` is read and a sink `dst` is written by one thread; the   *)
(* loops of copy_to_slice, put and put_slice take one step per iteration.  *)
(***************************************************************************)
EXTENDS Integers, Sequences

CONSTANTS
  ByteBits,   \* bits of a byte (8)
  IntBytes,   \* bytes of the integer behind get_uint / put_uint (8)
  UsizeMax,   \* usize::MAX
  VecMax,     \* longest Vec (isize::MAX)
  VecGrowth,  \* the reserve(64) of chunk_mut
  MaxOp,      \* bound: the largest count one call asks for
  Sources,    \* the Buf values a run starts from
  Sinks,      \* the BufMut values a run starts from
  Literals    \* the byte strings put_slice and write are called with

ASSUME BufAssumption == ByteBits \in Nat \ {0} /\ IntBytes \in Nat \ {0} /\ VecGrowth \in Nat \ {0}

VARIABLES
  src,    \* the Buf
  dst,    \* the BufMut
  op,     \* the loop in progress
  taken,  \* ghost: every byte that left src, in order
  given,  \* ghost: every byte that was accepted by dst, in order
  orig    \* ghost: taken, followed by what src still has to give

vars == <<src, dst, op, taken, given, orig>>

Byte == 0 .. 2 ^ ByteBits - 1
Least(m, n) == IF m <= n THEN m ELSE n
SatSub(m, n) == IF m <= n THEN 0 ELSE m - n
Prefix(s, n) == SubSeq(s, 1, n)
Suffix(s, n) == SubSeq(s, n + 1, Len(s))

-----------------------------------------------------------------------------
(* Sources.                                                                *)

Slice(s)        == [k |-> "slice", s |-> s]
Cursor(s, pos)  == [k |-> "cursor", s |-> s, pos |-> pos]
Deque(s1, s2)   == [k |-> "deque", s1 |-> s1, s2 |-> s2]
Take(b, limit)  == [k |-> "take", inner |-> b, limit |-> limit]
Chain(a, b)     == [k |-> "chain", a |-> a, b |-> b]

RECURSIVE Remaining(_)
Remaining(b) ==
  CASE b.k = "slice"  -> Len(b.s)
    [] b.k = "cursor" -> SatSub(Len(b.s), b.pos)
    [] b.k = "deque"  -> Len(b.s1) + Len(b.s2)
    [] b.k = "take"   -> Least(Remaining(b.inner), b.limit)
    [] b.k = "chain"  -> Least(Remaining(b.a) + Remaining(b.b), UsizeMax)

HasRemaining(b) == Remaining(b) > 0

\* Whether a chain still serves its first half.
InFirst(b) == HasRemaining(b.a)

RECURSIVE Chunk(_)
Chunk(b) ==
  CASE b.k = "slice"  -> b.s
    [] b.k = "cursor" -> Suffix(b.s, Least(b.pos, Len(b.s)))
    [] b.k = "deque"  -> IF b.s1 = <<>> THEN b.s2 ELSE b.s1
    [] b.k = "take"   -> LET c == Chunk(b.inner) IN Prefix(c, Least(Len(c), b.limit))
    [] b.k = "chain"  -> IF InFirst(b) THEN Chunk(b.a) ELSE Chunk(b.b)

\* What a count leaves of a Take's limit, and for a chain's second half.
LimitLeft(limit, cnt)  == limit - cnt
LimitExcludes(limit, cnt) == cnt < limit
LimitAllows(limit, cnt)   == cnt <= limit
CarryAll(cnt, a_rem)   == cnt
CarryOver(cnt, a_rem)  == cnt - a_rem

\* advance(cnt) returns instead of panicking.
RECURSIVE CanAdvance(_, _)
CanAdvance(b, cnt) ==
  CASE b.k \in {"slice", "cursor", "deque"} -> cnt <= Remaining(b)
    [] b.k = "take"  -> LimitAllows(b.limit, cnt) /\ CanAdvance(b.inner, cnt)
    [] b.k = "chain" -> LET a_rem == Remaining(b.a)
                        IN IF a_rem > cnt THEN CanAdvance(b.a, cnt)
                           ELSE CanAdvance(b.a, a_rem) /\ CanAdvance(b.b, CarryOver(cnt, a_rem))

RECURSIVE Advance(_, _)
Advance(b, cnt) ==
  CASE b.k = "slice"  -> Slice(Suffix(b.s, cnt))
    [] b.k = "cursor" -> Cursor(b.s, b.pos + cnt)
    [] b.k = "deque"  -> IF cnt < Len(b.s1) THEN Deque(Suffix(b.s1, cnt), b.s2)
                         ELSE Deque(Suffix(b.s2, cnt - Len(b.s1)), <<>>)
    [] b.k = "take"   -> Take(Advance(b.inner, cnt), LimitLeft(b.limit, cnt))
    [] b.k = "chain"  -> LET a_rem == Remaining(b.a)
                         IN IF a_rem > cnt THEN Chain(Advance(b.a, cnt), b.b)
                            ELSE Chain(Advance(b.a, a_rem), Advance(b.b, CarryOver(cnt, a_rem)))

\* BytesMut::put: whole chunks until the source is empty.
RECURSIVE Drain(_)
Drain(b) ==
  IF ~HasRemaining(b) THEN [bytes |-> <<>>, rest |-> b]
  ELSE LET c == Chunk(b)
           r == Drain(Advance(b, Len(c)))
       IN [bytes |-> c \o r.bytes, rest |-> r.rest]

\* copy_to_bytes: the default, and the overrides of Take and Chain.
RECURSIVE CopyToBytes(_, _)
CopyToBytes(b, len) ==
  CASE b.k \in {"slice", "cursor", "deque"} ->
         LET r == Drain(Take(b, len)) IN [bytes |-> r.bytes, rest |-> r.rest.inner]
    [] b.k = "take" ->
         LET r == CopyToBytes(b.inner, len)
         IN [bytes |-> r.bytes, rest |-> Take(r.rest, LimitLeft(b.limit, len))]
    [] b.k = "chain" ->
         LET a_rem == Remaining(b.a)
         IN CASE a_rem >= len -> LET r == CopyToBytes(b.a, len)
                                 IN [bytes |-> r.bytes, rest |-> Chain(r.rest, b.b)]
              [] a_rem < len /\ a_rem = 0 ->
                   LET r == CopyToBytes(b.b, len)
                   IN [bytes |-> r.bytes, rest |-> Chain(b.a, r.rest)]
              [] a_rem < len /\ a_rem # 0 ->
                   LET ra == Drain(b.a)
                       rb == Drain(Take(b.b, len - a_rem))
                   IN [bytes |-> ra.bytes \o rb.bytes,
                       rest  |-> Chain(ra.rest, rb.rest.inner)]

-----------------------------------------------------------------------------
(* Sinks: cells already written are cells[1 .. pos].                       *)

SliceMut(cells, pos) == [k |-> "slice", cells |-> cells, pos |-> pos]
Vec(cells, pos)      == [k |-> "vec", cells |-> cells, pos |-> pos]
Limit(d, limit)      == [k |-> "limit", inner |-> d, limit |-> limit]

RECURSIVE RemainingMut(_)
RemainingMut(d) ==
  CASE d.k = "slice" -> Len(d.cells) - d.pos
    [] d.k = "vec"   -> VecMax - d.pos
    [] d.k = "limit" -> Least(RemainingMut(d.inner), d.limit)
    [] d.k = "chain" -> Least(RemainingMut(d.a) + RemainingMut(d.b), UsizeMax)

HasRemainingMut(d) == RemainingMut(d) > 0

\* Vec::reserve(n).
Reserved(d, n) ==
  Vec([i \in 1 .. Len(d.cells) + SatSub(d.pos + n, Len(d.cells)) |->
         IF i <= Len(d.cells) THEN d.cells[i] ELSE 0], d.pos)

\* chunk_mut makes room in a vector that is full.  (The growth is cut at VecMax,
\* which stands for a length no memory can hold.)
RECURSIVE Chunked(_)
Chunked(d) ==
  CASE d.k = "slice" -> d
    [] d.k = "vec"   -> IF Len(d.cells) = d.pos
                        THEN Reserved(d, Least(VecGrowth, VecMax - d.pos)) ELSE d
    [] d.k = "limit" -> Limit(Chunked(d.inner), d.limit)
    [] d.k = "chain" -> IF HasRemainingMut(d.a) THEN Chain(Chunked(d.a), d.b)
                        ELSE Chain(d.a, Chunked(d.b))

\* The length of the slice chunk_mut returns.
RECURSIVE ChunkMutLen(_)
ChunkMutLen(d) ==
  CASE d.k \in {"slice", "vec"} -> Len(d.cells) - d.pos
    [] d.k = "limit" -> Least(ChunkMutLen(d.inner), d.limit)
    [] d.k = "chain" -> IF HasRemainingMut(d.a) THEN ChunkMutLen(d.a) ELSE ChunkMutLen(d.b)

\* copy_from_slice into the front of the slice chunk_mut returned.
RECURSIVE WriteChunk(_, _)
WriteChunk(d, s) ==
  CASE d.k \in {"slice", "vec"} ->
         [d EXCEPT !.cells = [i \in DOMAIN d.cells |->
            IF i \in d.pos + 1 .. d.pos + Len(s) THEN s[i - d.pos] ELSE d.cells[i]]]
    [] d.k = "limit" -> Limit(WriteChunk(d.inner, s), d.limit)
    [] d.k = "chain" -> IF HasRemainingMut(d.a) THEN Chain(WriteChunk(d.a, s), d.b)
                        ELSE Chain(d.a, WriteChunk(d.b, s))

RECURSIVE CanAdvanceMut(_, _)
CanAdvanceMut(d, cnt) ==
  CASE d.k \in {"slice", "vec"} -> cnt <= Len(d.cells) - d.pos
    [] d.k = "limit" -> cnt <= d.limit /\ CanAdvanceMut(d.inner, cnt)
    [] d.k = "chain" -> LET a_rem == RemainingMut(d.a)
                        IN IF a_rem # 0 /\ a_rem >= cnt THEN CanAdvanceMut(d.a, cnt)
                           ELSE /\ a_rem # 0 => CanAdvanceMut(d.a, a_rem)
                                /\ CanAdvanceMut(d.b, CarryOver(cnt, a_rem))

\* What a count leaves of a Limit.
RoomKept(limit, cnt) == limit
RoomLeft(limit, cnt) == limit - cnt

RECURSIVE AdvanceMut(_, _)
AdvanceMut(d, cnt) ==
  CASE d.k \in {"slice", "vec"} -> [d EXCEPT !.pos = d.pos + cnt]
    [] d.k = "limit" -> Limit(AdvanceMut(d.inner, cnt), RoomLeft(d.limit, cnt))
    [] d.k = "chain" -> LET a_rem == RemainingMut(d.a)
                        IN IF a_rem # 0 /\ a_rem >= cnt
                           THEN Chain(AdvanceMut(d.a, cnt), d.b)
                           ELSE Chain(AdvanceMut(d.a, a_rem), AdvanceMut(d.b, CarryOver(cnt, a_rem)))

-----------------------------------------------------------------------------
(* Integers.  Encoding and decoding are those of to_be_bytes and           *)
(* from_be_bytes (to_le_bytes, from_le_bytes when ~be).                     *)

Digit(v, i) == (v \div 2 ^ (ByteBits * i)) % 2 ^ ByteBits

ToBytes(v, n, be) == [i \in 1 .. n |-> Digit(v, IF be THEN n - i ELSE i - 1)]

RECURSIVE FromBe(_)
FromBe(s) == IF s = <<>> THEN 0 ELSE FromBe(Prefix(s, Len(s) - 1)) * 2 ^ ByteBits + s[Len(s)]

FromBytes(s, be) == FromBe(IF be THEN s ELSE [i \in 1 .. Len(s) |-> s[Len(s) + 1 - i]])

\* Mutant of Encoded: the wrong end of a big-endian encoding.
EncodedFront(v, nbytes, be) == Prefix(ToBytes(v, IntBytes, be), nbytes)

\* put_uint / put_uint_le / put_int / put_int_le: nbytes of the encoding.
Encoded(v, nbytes, be) ==
  LET bytes == ToBytes(v, IntBytes, be)
  IN IF be THEN Suffix(bytes, IntBytes - nbytes) ELSE Prefix(bytes, nbytes)

\* copy_to_slice run to its end.
RECURSIVE CopyToSlice(_, _)
CopyToSlice(b, n) ==
  IF n = 0 THEN [bytes |-> <<>>, rest |-> b]
  ELSE LET c   == Chunk(b)
           cnt == Least(Len(c), n)
           r   == CopyToSlice(Advance(b, cnt), n - cnt)
       IN [bytes |-> Prefix(c, cnt) \o r.bytes, rest |-> r.rest]

\* buf_get_impl!(be => ..) and (le => ..): zeroes around nbytes of the source.
get_uint(b, nbytes, be) ==
  LET r    == CopyToSlice(b, nbytes)
      zero == [i \in 1 .. IntBytes - nbytes |-> 0]
  IN [v |-> FromBytes(IF be THEN zero \o r.bytes ELSE r.bytes \o zero, be), rest |-> r.rest]

\* buf_get_impl!(this, typ::conv): from the chunk when it holds the whole value.
get_fixed(b, size, be) ==
  LET c == Chunk(b)
      r == IF size <= Len(c) THEN [bytes |-> Prefix(c, size), rest |-> Advance(b, size)]
           ELSE CopyToSlice(b, size)
  IN [v |-> FromBytes(r.bytes, be), rest |-> r.rest]

-----------------------------------------------------------------------------
Idle == [m |-> "idle"]
Panicked == [m |-> "panicked"]

\* What is left to come out of a source.
RECURSIVE Content(_)
Content(b) ==
  CASE b.k = "slice"  -> b.s
    [] b.k = "cursor" -> Suffix(b.s, Least(b.pos, Len(b.s)))
    [] b.k = "deque"  -> b.s1 \o b.s2
    [] b.k = "take"   -> LET c == Content(b.inner) IN Prefix(c, Least(Len(c), b.limit))
    [] b.k = "chain"  -> Content(b.a) \o Content(b.b)

\* What was written to a sink.
RECURSIVE Written(_)
Written(d) ==
  CASE d.k \in {"slice", "vec"} -> Prefix(d.cells, d.pos)
    [] d.k = "limit" -> Written(d.inner)
    [] d.k = "chain" -> Written(d.a) \o Written(d.b)

Init ==
  /\ src \in Sources
  /\ dst \in Sinks
  /\ op = Idle
  /\ taken = <<>> /\ given = <<>>
  /\ orig = Content(src)

\* Buf::copy_to_slice: the caller's slice has n bytes.
copy_to_slice(n) ==
  /\ op = Idle /\ Remaining(src) >= n
  /\ op' = [m |-> "copy", need |-> n]
  /\ UNCHANGED <<src, dst, taken, given, orig>>

\* Reader::read reads no more than there is.
read(n) == copy_to_slice(Least(Remaining(src), n))

\* One iteration; the last one leaves the loop.
copy_loop ==
  /\ op.m = "copy"
  /\ LET c   == Chunk(src)
         cnt == Least(Len(c), op.need)
     IN IF op.need = 0
        THEN op' = Idle /\ UNCHANGED <<src, taken>>
        ELSE /\ IF CanAdvance(src, cnt)
                THEN src' = Advance(src, cnt) /\ op' = [op EXCEPT !.need = @ - cnt]
                ELSE src' = src /\ op' = Panicked
             /\ taken' = taken \o Prefix(c, cnt)
  /\ UNCHANGED <<dst, given, orig>>

\* get_u8, get_i8, IntoIter::next.
get_u8 ==
  /\ op = Idle /\ HasRemaining(src)
  /\ taken' = taken \o <<Chunk(src)[1]>>
  /\ src' = Advance(src, 1)
  /\ UNCHANGED <<dst, op, given, orig>>

\* Buf::advance, Reader::consume: skipping counts as taking.
advance(n) ==
  /\ op = Idle /\ CanAdvance(src, n)
  /\ src' = Advance(src, n)
  /\ taken' = taken \o Prefix(Content(src), n)
  /\ UNCHANGED <<dst, op, given, orig>>

copy_to_bytes(n) ==
  /\ op = Idle /\ Remaining(src) >= n
  /\ LET r == CopyToBytes(src, n) IN src' = r.rest /\ taken' = taken \o r.bytes
  /\ UNCHANGED <<dst, op, given, orig>>

\* Take::set_limit changes what the source has to give.
set_limit(n) ==
  /\ op = Idle /\ src.k = "take"
  /\ src' = Take(src.inner, n)
  /\ orig' = taken \o Content(src')
  /\ UNCHANGED <<dst, op, taken, given>>

\* Limit::set_limit.
set_limit_mut(n) ==
  /\ op = Idle /\ dst.k = "limit"
  /\ dst' = Limit(dst.inner, n)
  /\ UNCHANGED <<src, op, taken, given, orig>>

\* Mutant of put: the sink's room is not asked for.
put_unchecked(n) ==
  /\ op = Idle
  /\ op' = [m |-> "put", limit |-> n]
  /\ UNCHANGED <<src, dst, taken, given, orig>>

\* BufMut::put of (&mut src).take(n).
put(n) ==
  /\ op = Idle
  /\ Remaining(Take(src, n)) <= RemainingMut(dst)
  /\ op' = [m |-> "put", limit |-> n]
  /\ UNCHANGED <<src, dst, taken, given, orig>>

\* How much one iteration moves.
FittingAll(l, room) == l
Fitting(l, room)    == Least(l, room)

\* Vec overrides put and put_slice: it reserves for all that is to come.
Ready(d, n) == IF d.k = "vec" THEN Reserved(d, n) ELSE Chunked(d)

put_loop ==
  /\ op.m = "put"
  /\ LET s   == Take(src, op.limit)
         d   == Ready(dst, Remaining(s))
         cnt == Fitting(Len(Chunk(s)), ChunkMutLen(d))
         new == Prefix(Chunk(s), cnt)
     IN IF ~HasRemaining(s)
        THEN op' = Idle /\ UNCHANGED <<src, dst, taken, given>>
        ELSE IF CanAdvanceMut(d, cnt) /\ CanAdvance(s, cnt)
        THEN /\ dst' = AdvanceMut(WriteChunk(d, new), cnt)
             /\ src' = Advance(s, cnt).inner
             /\ op' = [op EXCEPT !.limit = Advance(s, cnt).limit]
             /\ taken' = taken \o new /\ given' = given \o new
        ELSE op' = Panicked /\ UNCHANGED <<src, dst, taken, given>>
  /\ UNCHANGED orig

\* put_slice, put_bytes, put_u8 .. put_int_le, Writer::write of a literal.
put_slice(s) ==
  /\ op = Idle
  /\ Len(s) <= RemainingMut(dst)
  /\ op' = [m |-> "put_slice", s |-> s]
  /\ UNCHANGED <<src, dst, taken, given, orig>>

write(s) == put_slice(Prefix(s, Least(RemainingMut(dst), Len(s))))

put_slice_loop ==
  /\ op.m = "put_slice"
  /\ LET d   == Ready(dst, Len(op.s))
         cnt == Fitting(Len(op.s), ChunkMutLen(d))
         new == Prefix(op.s, cnt)
     IN IF op.s = <<>>
        THEN op' = Idle /\ UNCHANGED <<dst, given>>
        ELSE IF CanAdvanceMut(d, cnt)
        THEN /\ dst' = AdvanceMut(WriteChunk(d, new), cnt)
             /\ op' = [op EXCEPT !.s = Suffix(@, cnt)]
             /\ given' = given \o new
        ELSE op' = Panicked /\ UNCHANGED <<dst, given>>
  /\ UNCHANGED <<src, taken, orig>>

Loop == copy_loop \/ put_loop \/ put_slice_loop

Next ==
  \/ \E n \in 0 .. MaxOp :
       copy_to_slice(n) \/ read(n) \/ advance(n) \/ copy_to_bytes(n) \/ set_limit(n)
         \/ set_limit_mut(n) \/ put(n)
  \/ get_u8
  \/ \E s \in Literals : put_slice(s) \/ write(s)
  \/ Loop

Spec == Init /\ [][Next]_vars /\ WF_vars(Loop)

-----------------------------------------------------------------------------
\* Whatever the nesting and the calls, a source gives its bytes once and in order
\* (chain.rs: "a continuous view across both buffers").
StreamIntact == orig = taken \o Content(src)

\* A sink holds exactly what put, put_slice and write (buf_mut.rs:34-97,
\* writer.rs:36-51) accepted, in order.
SinkIntact == given = Written(dst)

\* A transfer that passed the check at its start (buf_impl.rs:108,
\* buf_mut.rs:38) never panics in the middle in some adapter's advance.
NoMidwayPanic == op # Panicked

\* remaining_mut() goes down by what was accepted, through every adapter, when
\* advance_mut (limit.rs:57, chain.rs:135) is what moved the sink.
RoomAccounted ==
  [][given' # given => RemainingMut(dst') = RemainingMut(dst) - (Len(given') - Len(given))]_vars

\* Every copy_to_slice, put and put_slice returns (buf_impl.rs:112,
\* buf_mut.rs:42): no iteration finds an empty chunk while bytes remain.
Terminates == op # Idle ~> op = Idle
=============================================================================
