---------------------------- MODULE MCAtomicCell ----------------------------
(* The instance of AtomicCell that TLC checks.                             *)
EXTENDS AtomicCell, TLC

CONSTANTS t1, t2, v1, v2

\* A token each; take and swap move them on.
Owners == v1 :> t1 @@ v2 :> t2

\* u32, and a struct of three words.
MCLayouts == {[size |-> 4, align |-> 4], [size |-> 12, align |-> 4]}
\* Two wide cells on one lock.
OneLock == [c \in Cells |-> CHOOSE l \in Locks : TRUE]
=============================================================================
