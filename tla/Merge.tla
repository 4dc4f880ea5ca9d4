-------------------------------- MODULE Merge --------------------------------
(***************************************************************************)
(* compact_all of src/src/compaction.rs: the segments are read from the    *)
(* oldest to the newest into one map, tombstones are dropped, and the rest *)
(* becomes the output segment. An input that cannot be read ends the call. *)
(***************************************************************************)
EXTENDS KeyMaps

CONSTANT MaxInputs    \* bound: segments to merge

ASSUME MaxInputsAssumption == MaxInputs \in Nat

VARIABLES
  inputs,   \* the segments, oldest first
  read,     \* how many have been read
  merged,   \* the map they are merged into
  output,   \* the segment written, or EmptyMap
  phase     \* "reading", "retaining", "writing", "done" or "failed"

vars == <<inputs, read, merged, output, phase>>

(* What Store::get finds in these segments: it asks the newest first.      *)
Newest(segments, k) ==
  FirstCell([i \in DOMAIN segments |-> segments[Len(segments) + 1 - i]], k)

Init ==
  /\ \E n \in 0..MaxInputs : inputs \in [1..n -> Maps]
  /\ read = 0
  /\ merged = EmptyMap
  /\ output = EmptyMap
  /\ phase = "reading"

(* An older cell is not replaced.                                          *)
Insert_bug(cells) ==
  [k \in Keys |-> IF merged[k] # Absent THEN merged[k] ELSE cells[k]]

(* BTreeMap::insert of every record of a segment, tombstones too.          *)
Insert(cells) ==
  [k \in Keys |-> IF cells[k] # Absent THEN cells[k] ELSE merged[k]]

ReadSegment ==
  /\ phase = "reading" /\ read < Len(inputs)
  /\ read' = read + 1
  /\ merged' = Insert(inputs[read + 1])
  /\ UNCHANGED <<inputs, output, phase>>

ReadFails ==
  /\ phase = "reading" /\ read < Len(inputs)
  /\ phase' = "failed"
  /\ UNCHANGED <<inputs, read, merged, output>>

(* The newest segment is left out.                                         *)
AllRead_bug ==
  /\ phase = "reading" /\ read + 1 >= Len(inputs)
  /\ phase' = "retaining"
  /\ UNCHANGED <<inputs, read, merged, output>>

AllRead ==
  /\ phase = "reading" /\ read = Len(inputs)
  /\ phase' = "retaining"
  /\ UNCHANGED <<inputs, read, merged, output>>

Retain ==
  /\ phase = "retaining"
  /\ merged' = [k \in Keys |-> Live(merged[k])]
  /\ phase' = "writing"
  /\ UNCHANGED <<inputs, read, output>>

WriteOutput ==
  /\ phase = "writing"
  /\ output' = merged
  /\ phase' = "done"
  /\ UNCHANGED <<inputs, read, merged>>

Next == ReadSegment \/ ReadFails \/ AllRead \/ Retain \/ WriteOutput

Spec == Init /\ [][Next]_vars

-----------------------------------------------------------------------------
(* After every segment, the map holds what a reader of the segments so far *)
(* would find: "Newer segments overwrite older values in the map."         *)
MergedSoFar ==
  phase \in {"reading", "retaining"} =>
    \A k \in Keys : merged[k] = Newest(SubSeq(inputs, 1, read), k)

(* The output answers every Store::get as the segments it replaces did,    *)
(* and by itself: it has no tombstone left to hide anything.               *)
OutputReplacesInputs ==
  phase = "done" =>
    \A k \in Keys : output[k] = Live(Newest(inputs, k))

=============================================================================
