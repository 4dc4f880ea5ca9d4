------------------------------- MODULE Memtable -------------------------------
(***************************************************************************)
(* The memtable of src/src/memtable.rs: a map, and a running count of its  *)
(* bytes in saturating arithmetic, which decides when it is flushed.       *)
(***************************************************************************)
EXTENDS KeyMaps, Integers

CONSTANTS
  KeyLen,      \* the length of each key
  ValLen,      \* the length of each value
  Overhead,    \* ENTRY_OVERHEAD_BYTES
  MaxSize      \* usize::MAX

ASSUME MemtableAssumption ==
  /\ KeyLen \in [Keys -> Nat]
  /\ ValLen \in [Vals -> Nat]
  /\ Overhead \in Nat /\ MaxSize \in Nat

VARIABLES
  map,         \* for each key its value, a tombstone or nothing
  approxSize   \* approx_size_bytes

memVars == <<map, approxSize>>

SaturatingAdd(a, b) == Min({a + b, MaxSize})
SaturatingSub(a, b) == Max({a - b, 0})

EntrySize(k, cell) ==
  SaturatingAdd(SaturatingAdd(KeyLen[k], IF cell = Tomb THEN 0 ELSE ValLen[cell]),
                Overhead)

MemInit ==
  /\ map = EmptyMap
  /\ approxSize = 0

(* The old entry is not taken off the count.                               *)
Put_bug(k, cell) ==
  /\ map' = [map EXCEPT ![k] = cell]
  /\ approxSize' = SaturatingAdd(approxSize, EntrySize(k, cell))

(* What set and delete share: the old entry, a tombstone too, goes off the *)
(* count before the new one goes on it.                                    *)
Put(k, cell) ==
  /\ map' = [map EXCEPT ![k] = cell]
  /\ approxSize' =
       SaturatingAdd(IF map[k] = Absent
                     THEN approxSize
                     ELSE SaturatingSub(approxSize, EntrySize(k, map[k])),
                     EntrySize(k, cell))

Set(k, v) == Put(k, v)
Delete(k) == Put(k, Tomb)

Clear ==
  /\ map' = EmptyMap
  /\ approxSize' = 0

MemNext ==
  \/ \E k \in Keys, v \in Vals : Set(k, v)
  \/ \E k \in Keys : Delete(k)
  \/ Clear

MemSpec == MemInit /\ [][MemNext]_memVars

-----------------------------------------------------------------------------
Entries == {k \in Keys : map[k] # Absent}
TotalSize == MapThenSumSet(LAMBDA k : EntrySize(k, map[k]), Entries)

(* After any sequence of sets, overwrites, deletes and clears the count is *)
(* that of the entries there are: overwriting one key for ever never       *)
(* reaches the threshold, and a delete counts although it stores no value. *)
SizeMatchesEntries == approxSize = TotalSize

=============================================================================
