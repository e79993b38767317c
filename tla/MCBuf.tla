-------------------------------- MODULE MCBuf --------------------------------
(* The instance of BufInts that TLC checks: nested sources and sinks.      *)
EXTENDS BufInts

Msg == <<1, 2, 3>>

\* The ways to hold s in one leaf.
Leaves(s) == {Slice(s), Cursor(<<0>> \o s, 1), Deque(Prefix(s, Least(1, Len(s))), Suffix(s, 1))}

Chains ==
  UNION {{Chain(a, Slice(Suffix(Msg, i))) : a \in Leaves(Prefix(Msg, i))}
           \cup {Chain(Slice(Prefix(Msg, i)), b) : b \in Leaves(Suffix(Msg, i))} : i \in 0 .. 2}

MCSources ==
  Chains
    \cup {Take(c, n) : c \in {Chain(Slice(<<1>>), Slice(<<2, 3>>)), Slice(Msg)}, n \in {0, 2, UsizeMax}}
    \cup {Chain(Take(Slice(<<1, 2>>), 1), Chain(Cursor(<<1>>, 2), Slice(<<3>>)))}

MCLiterals == {<<0, 0>>}

One == SliceMut(<<0>>, 0)

MCSinks ==
  {SliceMut(<<0, 0>>, 0), Vec(<<>>, 0), Limit(Vec(<<>>, 0), 2), Chain(One, Limit(Vec(<<0>>, 0), 1)),
   Limit(Chain(One, One), 1), Chain(Limit(One, 0), Chain(One, One))}
=============================================================================
