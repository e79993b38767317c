----------------------------- MODULE MCBytesMut -----------------------------
(* Model-checking instances of BytesMut.                                   *)
EXTENDS BytesMutRefinement, TLC

Symmetry == Permutations(Handles) \cup Permutations(Bufs) \cup Permutations(Shareds)
=============================================================================
