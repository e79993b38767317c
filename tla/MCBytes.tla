------------------------------ MODULE MCBytes ------------------------------
(* The instances of Bytes that TLC checks.                                 *)
EXTENDS Bytes, TLC

MCStatic == <<7>>
Symmetry == Permutations(Handles) \cup Permutations(Bufs) \cup Permutations(Shareds) \cup Permutations(Threads)

\* Bound: once a count is lost, TLC follows the handles of one allocation only.
OneAllocationLost == lost => Cardinality({b \in Bufs : heap[b].live}) <= 1
=============================================================================
