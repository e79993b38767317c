------------------------------ MODULE BufInts ------------------------------
(***************************************************************************)
(* Integers sent through a BufMut and read back from a Buf: put_uint and   *)
(* put_int write nbytes of an integer into dst, the bytes are handed over, *)
(* cut anywhere, and get_uint reads them again.                            *)
(***************************************************************************)
EXTENDS Buf

CONSTANTS
  MaxSent,  \* bound: integers sent in one behaviour
  Ints      \* the integers sent, as unsigned words

VARIABLE sent  \* the integers put, with their width and byte order

intVars == <<vars, sent>>

IntInit == Init /\ sent = <<>>

\* put_uint, put_int and their _le forms; nbytes beyond the type panics.
put_uint(v, nbytes, be) ==
  /\ Len(sent) < MaxSent /\ nbytes <= IntBytes
  /\ put_slice(Encoded(v, nbytes, be))
  /\ sent' = Append(sent, [v |-> v, nbytes |-> nbytes, be |-> be])

\* Integers go to a sink of their own, when there is no source to read.
IntNext ==
  \/ sent = <<>> /\ Next /\ UNCHANGED sent
  \/ /\ sent # <<>> \/ (taken = <<>> /\ given = <<>> /\ ~HasRemaining(src))
     /\ \E v \in Ints, nbytes \in 1 .. IntBytes, be \in BOOLEAN : put_uint(v, nbytes, be)
  \/ sent # <<>> /\ put_slice_loop /\ UNCHANGED sent

IntSpec == IntInit /\ [][IntNext]_intVars /\ WF_intVars(Loop /\ UNCHANGED sent)

Modulus(m) == 2 ^ (ByteBits * m.nbytes)
Unsigned(m) == m.v % Modulus(m)

\* b's reader, using get_fixed or get_uint, finds the integers of msgs.
RECURSIVE Reads(_, _, _)
Reads(b, msgs, getter) ==
  \/ msgs = <<>>
  \/ LET m == Head(msgs)
         r == IF getter = "fixed" THEN get_fixed(b, m.nbytes, m.be)
              ELSE get_uint(b, m.nbytes, m.be)
     IN /\ r.v = Unsigned(m)
        /\ Reads(r.rest, Tail(msgs), getter)

\* The ways the bytes can reach the reader: one slice, or cut in two.
Arrivals == {Chain(Slice(Prefix(given, i)), Slice(Suffix(given, i))) : i \in 0 .. Len(given)}

\* "Gets an unsigned n-byte integer" (buf_impl.rs:263): whatever the widths, the
\* byte orders and the place where the stream is cut, the integers put are the
\* integers got; the direct and the copying path of buf_get_impl! (buf_impl.rs:20-34)
\* read the same ones.
IntegersArrive ==
  op = Idle => \A b \in Arrivals :
    /\ Reads(b, sent, "uint")
    /\ (\A i \in DOMAIN sent : sent[i].nbytes = IntBytes) => Reads(b, sent, "fixed")
=============================================================================
