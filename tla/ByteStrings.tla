----------------------------- MODULE ByteStrings ----------------------------
(***************************************************************************)
(* What the bytes crate promises: its handles are byte strings with value  *)
(* semantics.  An operation changes the strings of the handles it is       *)
(* called on and no other, and the halves of a split, a frozen buffer and  *)
(* the result of a conversion hold exactly the bytes they came from.       *)
(* Nothing is said of allocations, capacities, sharing or counting.        *)
(***************************************************************************)
EXTENDS Integers, Sequences

CONSTANTS Handles, Byte

VARIABLE obj    \* [ty, s]: the type of each handle and the bytes in it

Absent == [ty |-> "none", s |-> << >>]

Init == obj = [h \in Handles |-> Absent]

Becomes(h, ty, w) == obj' = [obj EXCEPT ![h] = [ty |-> ty, s |-> w]]

New(h) ==
  /\ obj[h] = Absent
  /\ obj'[h].s \in Seq(Byte)
  /\ Becomes(h, "mut", obj'[h].s)

Copy(h, o) ==
  /\ obj[o] = Absent /\ obj[h].ty = "mut"
  /\ Becomes(o, "mut", obj[h].s)

\* split_off and split_to, of either type: one keeps the front, one the back.
SplitAt(h, o, at) ==
  LET ty    == obj[h].ty
      front == [ty |-> ty, s |-> SubSeq(obj[h].s, 1, at)]
      back  == [ty |-> ty, s |-> SubSeq(obj[h].s, at + 1, Len(obj[h].s))]
  IN /\ ty \in {"mut", "bytes"} /\ obj[o] = Absent
     /\ \/ obj' = [obj EXCEPT ![h] = front, ![o] = back]
        \/ obj' = [obj EXCEPT ![h] = back, ![o] = front]

SliceOf(h, o, i, j) ==
  /\ obj[h].ty = "bytes" /\ obj[o] = Absent
  /\ Becomes(o, "bytes", SubSeq(obj[h].s, i, j))

Narrow(h, i, j) ==
  /\ obj[h].ty \in {"mut", "bytes"}
  /\ Becomes(h, obj[h].ty, SubSeq(obj[h].s, i, j))

Extend(h) ==
  /\ obj[h].ty = "mut"
  /\ Len(obj[h].s) <= Len(obj'[h].s) /\ SubSeq(obj'[h].s, 1, Len(obj[h].s)) = obj[h].s
  /\ obj'[h].s \in Seq(Byte)
  /\ Becomes(h, "mut", obj'[h].s)

Store(h, i, v) ==
  /\ obj[h].ty = "mut"
  /\ Becomes(h, "mut", [obj[h].s EXCEPT ![i] = v])

Join(h, o) ==
  /\ h # o /\ obj[h].ty = "mut" /\ obj[o].ty = "mut"
  /\ obj' = [obj EXCEPT ![h] = [ty |-> "mut", s |-> obj[h].s \o obj[o].s], ![o] = Absent]

Convert(h) ==
  \/ obj[h].ty = "mut" /\ Becomes(h, "bytes", obj[h].s)
  \/ obj[h].ty = "bytes" /\ Becomes(h, "mut", obj[h].s)
  \/ obj[h].ty \in {"mut", "bytes"} /\ Becomes(h, "vec", obj[h].s)

Drop(h) == obj[h] # Absent /\ obj' = [obj EXCEPT ![h] = Absent]

Next ==
  \E h \in Handles :
    \/ New(h) \/ Extend(h) \/ Convert(h) \/ Drop(h)
    \/ \E o \in Handles : Copy(h, o) \/ Join(h, o)
    \/ \E i \in DOMAIN obj[h].s, v \in Byte : Store(h, i, v)
    \/ \E i \in 1 .. Len(obj[h].s) + 1, j \in 0 .. Len(obj[h].s) :
         Narrow(h, i, j) \/ \E o \in Handles : SliceOf(h, o, i, j)
    \/ \E o \in Handles, at \in 0 .. Len(obj[h].s) : SplitAt(h, o, at)

Spec == Init /\ [][Next]_obj
=============================================================================
