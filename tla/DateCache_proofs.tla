-------------------------- MODULE DateCache_proofs ---------------------------
(* For any number of bytes, readers and updates: no appended byte is older   *)
(* than the last date complete when the append began.                        *)
EXTENDS DateCache, TLAPS

\* The time a leaf may take, in seconds.
USE SMTT(60)

\* The number of dates completely written never exceeds the bound.
LEMMA CompleteNat == TypeOK /\ (updater = "writing" => updates > 0) => Complete \in 0 .. MaxUpdates
  BY DateCacheAssumption DEF TypeOK, Complete

\* The invariant holds when the cache is made.
LEMMA InitInv == Init => IInv
  BY DateCacheAssumption DEF Init, Copying, IInv, TypeOK, NoStaleByte, Complete

\* The writer's steps leave the readers alone and Complete never goes down.
LEMMA WriterInv == IInv /\ (Writer \/ update_panics) => IInv'
<1> SUFFICES ASSUME IInv, Writer \/ update_panics PROVE IInv'
  OBVIOUS
<1> USE DateCacheAssumption DEF IInv, TypeOK, NoStaleByte, Complete
<1>1. CASE sleep
  BY <1>1 DEF sleep
<1>2. CASE update
  BY <1>2 DEF update
<1>3. CASE update_panics
  BY <1>3 DEF update_panics
<1>4. ASSUME NEW i \in Cells, copy_byte(i) PROVE IInv'
  <2>1. bytes' = [bytes EXCEPT ![i] = updates] /\ written' = written \cup {i} /\ UNCHANGED <<updates, rd>>
    BY <1>4 DEF copy_byte
  <2>2. \A j \in written' : bytes'[j] = updates'
    BY <1>4, <2>1 DEF copy_byte
  <2>3. \A j \in Cells : bytes'[j] >= Complete'
    <3>1. CASE written' = Cells
      BY <1>4, <2>1, <2>2, <3>1 DEF copy_byte
    <3>2. CASE written' # Cells
      BY <1>4, <2>1, <3>2 DEF copy_byte
    <3> QED BY <3>1, <3>2
  <2>4. TypeOK'
    BY <1>4, <2>1 DEF copy_byte
  <2>5. updater' \in {"idle", "writing"} /\ updates > 0 /\ Complete' >= Complete
    BY <1>4, <2>1 DEF copy_byte
  <2>6. \A r \in Readers : rd'[r].since <= Complete'
    BY <2>1, <2>4, <2>5, CompleteNat
  <2>7. NoStaleByte'
    BY <2>1
  <2> QED BY <2>1, <2>2, <2>3, <2>4, <2>5, <2>6, <2>7
<1> QED BY <1>1, <1>2, <1>3, <1>4 DEF Writer

\* Reading the date, step by step, keeps the invariant.
LEMMA ReaderInv == ASSUME NEW r \in Readers, IInv, append_date(r) \/ Reader(r) PROVE IInv'
<1> USE DateCacheAssumption DEF IInv, TypeOK, NoStaleByte, Complete
<1>1. CASE append_date(r)
  BY <1>1, CompleteNat DEF append_date, Copying
<1>2. ASSUME NEW i \in Cells, as_bytes(r, i) PROVE IInv'
  <2>1. bytes[i] >= rd[r].since
    BY CompleteNat
  <2>2. rd' = [rd EXCEPT ![r] = Took(rd[r], i)] /\ UNCHANGED <<bytes, updater, updates, written>>
    BY <1>2 DEF as_bytes
  <2>3. Took(rd[r], i) \in [busy : BOOLEAN, seen : SUBSET Cells, got : [Cells -> 0 .. MaxUpdates], since : 0 .. MaxUpdates]
    BY DEF Took
  <2>4. TypeOK'
    BY <2>2, <2>3
  <2>5. \A j \in Took(rd[r], i).seen : Took(rd[r], i).got[j] >= Took(rd[r], i).since
    BY <2>1 DEF Took
  <2>6. Took(rd[r], i).since = rd[r].since
    BY DEF Took
  <2>7. NoStaleByte' /\ \A q \in Readers : rd'[q].since <= Complete'
    BY <2>2, <2>5, <2>6
  <2> QED BY <2>2, <2>4, <2>7
<1>3. CASE appended(r)
  BY Zenon, <1>3 DEF appended
<1> QED BY <1>1, <1>2, <1>3 DEF Reader

\* Every step of the updater and of the readers keeps the invariant.
LEMMA NextInv == IInv /\ [Next]_vars => IInv'
<1>1. IInv /\ UNCHANGED vars => IInv'
  BY DEF vars, IInv, TypeOK, NoStaleByte, Complete
<1> QED BY <1>1, WriterInv, ReaderInv DEF Next

\* No append takes a byte older than the date complete when it began
\* (src/date/src/lib.rs:40-44, 73-77).
THEOREM NeverStale == Spec => []NoStaleByte
<1>1. IInv => NoStaleByte
  BY DEF IInv
<1> QED BY <1>1, InitInv, NextInv, PTL DEF Spec
=============================================================================
