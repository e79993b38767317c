----------------------------- MODULE AtomicOps ------------------------------
(***************************************************************************)
(* What the fetch operations of AtomicCell leave in the cell               *)
(* (src/coroutine/src/sync/atomic_macro.rs, the same for every unsigned    *)
(* width), and which types have an atomic instruction.                     *)
(***************************************************************************)
EXTENDS Naturals, Bitwise

CONSTANT Size     \* the values of the type are 0 .. Size - 1, Size a power of 2

FetchOps == {"add", "sub", "and", "nand", "or", "xor", "max", "min"}

\* wrapping_add, wrapping_sub, &, !(old & val), |, ^, cmp::max, cmp::min
Fetched(op, old, val) ==
  CASE op = "add"  -> (old + val) % Size
    [] op = "sub"  -> (old + Size - val) % Size
    [] op = "and"  -> old & val
    [] op = "nand" -> (Size - 1) - (old & val)
    [] op = "or"   -> old | val
    [] op = "xor"  -> old ^^ val
    [] op = "max"  -> IF old >= val THEN old ELSE val
    [] op = "min"  -> IF old <= val THEN old ELSE val

-----------------------------------------------------------------------------
\* AtomicUnit, AtomicU8, AtomicU16, AtomicU32, AtomicU64: their size and alignment.
Atomics == {[size |-> n, align |-> IF n = 0 THEN 1 ELSE n] : n \in {0, 1, 2, 4, 8}}

can_transmute(a, b) == a.size = b.size /\ a.size >= b.size

\* The atomic type the atomic! macro picks for a type of layout l, if there is one.
Instructions(l) == {b \in Atomics : can_transmute(l, b)}
atomic_is_lock_free(l) == Instructions(l) # {}
=============================================================================
