----------------------------- MODULE DateCache ------------------------------
(***************************************************************************)
(* src/date/src/lib.rs: the date that append_date copies.  The first use   *)
(* of CURRENT_DATE makes a Date of zero bytes and a thread that sleeps     *)
(* once and then writes the date over and over; readers copy the bytes     *)
(* with no synchronisation, so both copies go byte by byte, in any order.  *)
(* A byte is the number of the update that wrote it, 0 for a zero byte.    *)
(***************************************************************************)
EXTENDS Naturals, FiniteSets

CONSTANTS
  Cells,        \* the positions of Date.bytes, DATE_VALUE_LENGTH of them
  Readers,      \* threads that call append_date
  MaxUpdates    \* bound: how often the date is written

ASSUME DateCacheAssumption == MaxUpdates \in Nat

VARIABLES
  bytes,      \* Date.bytes
  updater,    \* the thread: "unborn", "asleep", "idle", "writing", "dead"
  updates,    \* how many updates have begun
  written,    \* the cells the current one has written
  rd          \* per reader: what it has copied, and the complete date it began with

vars == <<bytes, updater, updates, written, rd>>

Copying(b, since) == [busy |-> b, seen |-> {}, got |-> [i \in Cells |-> 0], since |-> since]

Init ==
  /\ bytes = [i \in Cells |-> 0]
  /\ updater = "unborn" /\ updates = 0 /\ written = {}
  /\ rd = [r \in Readers |-> Copying(FALSE, 0)]

\* The last update that was written in full.
Complete == IF updater = "writing" THEN updates - 1 ELSE updates

-----------------------------------------------------------------------------
\* append_date: LazyLock runs the initialiser at its first use.
append_date(r) ==
  /\ ~rd[r].busy
  /\ rd' = [rd EXCEPT ![r] = Copying(TRUE, Complete)]
  /\ updater' = IF updater = "unborn" THEN "asleep" ELSE updater
  /\ UNCHANGED <<bytes, updates, written>>

\* The copy c with the byte i added.
Took(c, i) == [busy |-> c.busy, seen |-> c.seen \cup {i}, got |-> [c.got EXCEPT ![i] = bytes[i]], since |-> c.since]

\* extend_from_slice(date.as_bytes()), one byte of it.
as_bytes(r, i) ==
  /\ rd[r].busy /\ i \in Cells \ rd[r].seen
  /\ rd' = [rd EXCEPT ![r] = Took(@, i)]
  /\ UNCHANGED <<bytes, updater, updates, written>>

appended(r) ==
  /\ rd[r].busy /\ rd[r].seen = Cells
  /\ rd' = [rd EXCEPT ![r].busy = FALSE]
  /\ UNCHANGED <<bytes, updater, updates, written>>

\* thread::sleep, once, before the loop.
sleep ==
  /\ updater = "asleep" /\ updater' = "idle"
  /\ UNCHANGED <<bytes, updates, written, rd>>

\* Mutant of update: the date is cleared before it is written.
update_clears ==
  /\ updater = "idle" /\ updates < MaxUpdates
  /\ updater' = "writing" /\ updates' = updates + 1 /\ written' = {}
  /\ bytes' = [i \in Cells |-> 0]
  /\ UNCHANGED rd

\* update: the time is converted and printed into a buffer of its own.
update ==
  /\ updater = "idle" /\ updates < MaxUpdates
  /\ updater' = "writing" /\ updates' = updates + 1 /\ written' = {}
  /\ UNCHANGED <<bytes, rd>>

\* DateTime::from panics on a clock it cannot express: the thread ends.
update_panics ==
  /\ updater = "idle" /\ updater' = "dead"
  /\ UNCHANGED <<bytes, updates, written, rd>>

\* Mutant of copy_byte: the loop ends one byte early.
copy_byte_short(i) ==
  /\ updater = "writing" /\ i \in Cells \ written
  /\ bytes' = [bytes EXCEPT ![i] = updates]
  /\ written' = written \cup {i}
  /\ updater' = IF Cardinality(Cells \ written') <= 1 THEN "idle" ELSE "writing"
  /\ UNCHANGED <<updates, rd>>

\* write_str: copy_from_slice, one byte of it; the loop goes on after the last.
copy_byte(i) ==
  /\ updater = "writing" /\ i \in Cells \ written
  /\ bytes' = [bytes EXCEPT ![i] = updates]
  /\ written' = written \cup {i}
  /\ updater' = IF written' = Cells THEN "idle" ELSE "writing"
  /\ UNCHANGED <<updates, rd>>

Writer == sleep \/ update \/ \E i \in Cells : copy_byte(i)
Reader(r) == (\E i \in Cells : as_bytes(r, i)) \/ appended(r)

Next == Writer \/ update_panics \/ \E r \in Readers : append_date(r) \/ Reader(r)

\* Threads are scheduled; nobody has to ask for the date.
Spec == Init /\ [][Next]_vars /\ WF_vars(Writer) /\ \A r \in Readers : WF_vars(Reader(r))

-----------------------------------------------------------------------------
(* Properties.                                                             *)

TypeOK ==
  /\ bytes \in [Cells -> 0 .. MaxUpdates] /\ updates \in 0 .. MaxUpdates /\ written \subseteq Cells
  /\ updater \in {"unborn", "asleep", "idle", "writing", "dead"}
  /\ rd \in [Readers -> [busy : BOOLEAN, seen : SUBSET Cells, got : [Cells -> 0 .. MaxUpdates], since : 0 .. MaxUpdates]]

\* Although nothing synchronises the copies, no byte that append_date takes is
\* older than the date that was complete when it began (lib.rs:40-44, 73-77).
NoStaleByte == \A r \in Readers : \A i \in rd[r].seen : rd[r].got[i] >= rd[r].since

\* What the proof carries through a step.
IInv ==
  /\ TypeOK /\ NoStaleByte
  /\ updater = "writing" => updates > 0
  /\ updater \in {"unborn", "asleep"} => updates = 0
  /\ \A i \in Cells : bytes[i] >= Complete
  /\ updater = "writing" => \A i \in written : bytes[i] = updates
  /\ \A r \in Readers : rd[r].since <= Complete

\* Once the date was asked for its zero bytes are replaced, unless the clock
\* stops the thread (lib.rs:23-29).
CacheFills == updater # "unborn" ~> (updater = "dead" \/ \A i \in Cells : bytes[i] > 0)
=============================================================================
