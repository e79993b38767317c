------------------------------- MODULE Stack --------------------------------
(***************************************************************************)
(* src/coroutine/src/stack: Stack::new asks for whole pages with a guard   *)
(* page below, marks words at the bottom with a magic pattern, and         *)
(* get_used_size looks for the first word that lost it.  Addresses are     *)
(* words of an address space of Pages pages; usize wraps at Usize.  mmap   *)
(* and mprotect may fail, and mmap may choose any free run of pages.  What *)
(* is not a stack's may be other memory of the process or nothing at all.  *)
(***************************************************************************)
EXTENDS Integers, FiniteSets, FiniteSetsExt

CONSTANTS
  Ids,         \* the stacks a program allocates
  Pages,       \* bound: pages of the address space
  PageWords,   \* page_size, in words
  WordBytes,   \* size_of::<usize>()
  Usize,       \* 2 ^ usize::BITS: bytes are counted modulo Usize
  MaxSize,     \* max_stack_size, in bytes
  Foot,        \* the words marked on a stack whose size is even
  Sizes        \* the sizes asked for, in words

ASSUME StackAssumption ==
  /\ Pages \in Nat /\ PageWords \in Nat /\ Foot \in Nat /\ MaxSize \in Nat
  /\ Foot < PageWords /\ MaxSize < Usize /\ Usize % (PageWords * WordBytes) = 0
  /\ \E k \in 0 .. PageWords : PageWords = 2 ^ k

VARIABLES
  mapped,     \* the pages mmap has given and munmap has not taken back
  leaked,     \* the pages of mappings that could not be protected
  stacks,     \* the live stacks: the size asked for, bottom and top (words)
  magic,      \* the words of every stack that hold the pattern
  touched,    \* the words of every stack its user has written
  killed      \* the process died of a segmentation fault

vars == <<mapped, leaked, stacks, magic, touched, killed>>

PageBytes == PageWords * WordBytes
NoStack == [size |-> -1, bottom |-> 0, top |-> 0]
Live == {i \in Ids : stacks[i] # NoStack}
Words(s) == s.bottom .. s.top - 1
PagesOf(s) == s.bottom \div PageWords - 1 .. s.top \div PageWords - 1
cap(s) == s.top - s.bottom

Init ==
  /\ mapped = {} /\ leaked = {}
  /\ stacks = [i \in Ids |-> NoStack]
  /\ magic = [i \in Ids |-> {}]
  /\ touched = [i \in Ids |-> {}]
  /\ killed = FALSE

-----------------------------------------------------------------------------
\* Stack::new: the bytes it asks for.  The multiplication wraps without overflow checks.
Asked(size) == Max({(size * WordBytes) % Usize, PageBytes})

\* Mutant of PagesFor: a size of whole pages is rounded up too.
PagesFor_up(bytes) == bytes \div PageBytes + 2

\* SysStack::allocate(_, true): (size - 1) & !(page_size - 1), and two pages.
PagesFor(bytes) == (bytes - 1) \div PageBytes + 2

Exceeds(n) == n * PageBytes >= Usize \/ n * PageBytes > MaxSize

\* Mutant of Marked: a tracked stack is marked like the others.
Marked_foot(size, s) == s.bottom .. s.bottom + Foot - 1

\* What write_bytes marks: everything when the size is odd.
Marked(size, s) == IF size % 2 = 1 THEN Words(s) ELSE s.bottom .. s.bottom + Foot - 1

\* Whether a write to a page that is not the writer's is a fault: the guard page of a
\* stack is, a mapping that could not be protected is not, other memory may be.
Faults(page) ==
  CASE page \in {s.bottom \div PageWords - 1 : s \in {stacks[i] : i \in Live}} -> {TRUE}
    [] page \in leaked                                                        -> {FALSE}
    [] page \notin mapped                                                     -> BOOLEAN

\* mmap, mprotect of the lowest page, the marks; a size beyond the limit and a failing
\* mmap end in a panic before anything is mapped.  Then new writes 1 to get_offset, the
\* second word above the mapping.
new(i, size, page) ==
  LET n == PagesFor(Asked(size))
      run == page .. page + n - 1
      s == [size |-> size, bottom |-> (page + 1) * PageWords, top |-> (page + n) * PageWords]
      get_offset == s.top + 1
  IN /\ stacks[i] = NoStack /\ ~Exceeds(n)
     /\ run \subseteq 0 .. Pages - 1 /\ run \cap mapped = {}
     /\ mapped' = mapped \cup run
     /\ stacks' = [stacks EXCEPT ![i] = s]
     /\ magic' = [magic EXCEPT ![i] = Marked(size, s)]
     /\ touched' = [touched EXCEPT ![i] = {}]
     /\ killed' \in Faults(get_offset \div PageWords)
     /\ UNCHANGED leaked

\* mprotect fails: Err, and nobody knows the mapping any more.
protect_fails(size, page) ==
  LET n == PagesFor(Asked(size))
      run == page .. page + n - 1
  IN /\ ~Exceeds(n)
     /\ run \subseteq 0 .. Pages - 1 /\ run \cap mapped = {}
     /\ mapped' = mapped \cup run
     /\ leaked' = leaked \cup run
     /\ UNCHANGED <<stacks, magic, touched, killed>>

\* The coroutine runs: it pushes words from the top down to the word w, some of which
\* it may leave unwritten.
uses(i, w) ==
  /\ i \in Live /\ w \in Words(stacks[i])
  /\ \E holes \in {{}, w + 1 .. stacks[i].top - 1} :
       LET written == (w .. stacks[i].top - 1) \ holes
       IN /\ touched' = [touched EXCEPT ![i] = @ \cup written]
          /\ magic' = [magic EXCEPT ![i] = @ \ written]
  /\ UNCHANGED <<mapped, leaked, stacks, killed>>

\* Mutant of drop_stack: the guard page is forgotten.
drop_stack_keeps(i) ==
  /\ i \in Live
  /\ mapped' = mapped \ (PagesOf(stacks[i]) \ {stacks[i].bottom \div PageWords - 1})
  /\ stacks' = [stacks EXCEPT ![i] = NoStack]
  /\ magic' = [magic EXCEPT ![i] = {}]
  /\ touched' = [touched EXCEPT ![i] = {}]
  /\ UNCHANGED <<leaked, killed>>

\* munmap from one page below the bottom, one page more than the length.
drop_stack(i) ==
  /\ i \in Live
  /\ cap(stacks[i]) # 0
  /\ mapped' = mapped \ PagesOf(stacks[i])
  /\ stacks' = [stacks EXCEPT ![i] = NoStack]
  /\ magic' = [magic EXCEPT ![i] = {}]
  /\ touched' = [touched EXCEPT ![i] = {}]
  /\ UNCHANGED <<leaked, killed>>

\* get_used_size: the capacity less the marked words at the bottom.  Nothing stops the
\* scan at the top: Beyond when it reads on above the mapping.
Beyond == -1
get_used_size(i) ==
  LET s == stacks[i]
      lost == Words(s) \ magic[i]
  IN IF lost = {} THEN Beyond ELSE cap(s) - (Min(lost) - s.bottom)

Next == ~killed /\
  \/ \E i \in Ids, size \in Sizes, page \in 0 .. Pages - 1 : new(i, size, page)
  \/ \E size \in Sizes, page \in 0 .. Pages - 1 : protect_fails(size, page)
  \/ \E i \in Ids, w \in 0 .. Pages * PageWords - 1 : uses(i, w)
  \/ \E i \in Ids : drop_stack(i)

Spec == Init /\ [][Next]_vars

-----------------------------------------------------------------------------
(* Properties.                                                             *)

\* What is mapped belongs to exactly one live stack, guard page included, or to a
\* mapping that could not be protected: nothing leaks, and no stack is unmapped with
\* another one (stack/mod.rs:96-106, sys_stack.rs:57-69).
MappedIsOwned ==
  /\ mapped = leaked \cup UNION {PagesOf(stacks[i]) : i \in Live}
  /\ \A i, j \in Live : i # j => PagesOf(stacks[i]) \cap PagesOf(stacks[j]) = {}
  /\ \A i \in Live : PagesOf(stacks[i]) \cap leaked = {}

\* A stack has less than the room asked for exactly when its size in bytes wrapped, and
\* otherwise less than one page more than asked for or than the smallest stack: (size - 1)
\* rounded down plus two pages is a round up plus the guard (stack/mod.rs:23,
\* sys_stack.rs:51-59).
EnoughRoom ==
  \A i \in Live :
    LET s == stacks[i]
    IN /\ cap(s) >= s.size <=> s.size * WordBytes < Usize
       /\ cap(s) < Max({s.size, PageWords}) + PageWords

\* The scan of get_used_size stays within the stack exactly unless the stack is tracked
\* and unused.  It then finds the deepest use of a tracked stack exactly, and of any
\* stack not below it; it is the whole capacity, which Done takes for an overflow
\* (done.rs:15), exactly when the lowest word was used (stack/mod.rs:28-33, :60-69).
UsedSize ==
  \A i \in Live :
    LET s == stacks[i]
        depth == s.top - Min(touched[i])
    IN /\ get_used_size(i) = Beyond <=> s.size % 2 = 1 /\ touched[i] = {}
       /\ touched[i] # {} =>
            /\ s.size % 2 = 1 => get_used_size(i) = depth
            /\ get_used_size(i) >= depth
            /\ get_used_size(i) = cap(s) <=> depth = cap(s)
=============================================================================
