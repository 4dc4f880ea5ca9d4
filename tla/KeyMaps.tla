-------------------------------- MODULE KeyMaps --------------------------------
(***************************************************************************)
(* What a memtable, a segment or a merge says of each key: a value, a      *)
(* tombstone, or nothing.                                                  *)
(***************************************************************************)
EXTENDS Sequences, FiniteSetsExt

CONSTANTS
  Keys,    \* the keys a client uses
  Vals,    \* the values a client uses
  Tomb,    \* the tombstone a delete leaves
  Absent   \* a map says nothing about the key; also "no value"

Cells == Vals \cup {Tomb}
Maps == [Keys -> Cells \cup {Absent}]
EmptyMap == [k \in Keys |-> Absent]

ASSUME ValuesAssumption ==
  /\ Tomb \notin Vals
  /\ Absent \notin Cells

Live(cell) == IF cell = Tomb THEN Absent ELSE cell

(* What the first of a sequence of maps that mentions k says of it.        *)
FirstCell(maps, k) ==
  LET hits == {i \in DOMAIN maps : maps[i][k] # Absent}
  IN IF hits = {} THEN Absent ELSE maps[Min(hits)][k]

=============================================================================
