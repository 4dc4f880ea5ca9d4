------------------------------ MODULE SegmentFile ------------------------------
(***************************************************************************)
(* SegmentWriter and SegmentReader of src/src/segment.rs: records in key   *)
(* order, a sparse index of every Interval-th of them, and the lookup that *)
(* starts at an indexed record and scans from there.                       *)
(*                                                                         *)
(* Keys are numbers (only their order matters), a record is what it holds, *)
(* where it begins and how many bytes it takes.                            *)
(***************************************************************************)
EXTENDS Sequences, FiniteSetsExt, Integers

CONSTANTS
  Keys,         \* the keys a caller writes and looks up
  Cells,        \* what a record may hold: a value, or the tombstone
  NotFound,     \* get: the segment says nothing of the key
  Invalid,      \* get: the offset read is not that of a record
  Sizes,        \* encoded lengths of records
  Interval,     \* SPARSE_INDEX_INTERVAL
  HeaderSize    \* SEGMENT_HEADER_SIZE

ASSUME SegmentAssumption ==
  /\ Keys \subseteq Nat
  /\ NotFound \notin Cells /\ Invalid \notin Cells \cup {NotFound}
  /\ Sizes \subseteq Nat \ {0}
  /\ Interval \in Nat \ {0}
  /\ HeaderSize \in Nat

VARIABLES
  records,         \* the record area of the file
  sparseIndex,     \* sparse_index, later the index area of the file
  currentOffset,   \* current_offset, later index_offset
  phase            \* "writing", "finished", or "failed"

vars == <<records, sparseIndex, currentOffset, phase>>

RecordType == [key : Keys, cell : Cells, at : Nat, size : Sizes]
IndexEntries == [key : Keys, at : Nat]

-----------------------------------------------------------------------------
(* SegmentWriter *)

Init ==
  /\ records = <<>>
  /\ sparseIndex = <<>>
  /\ currentOffset = HeaderSize
  /\ phase = "writing"

(* A key may be written twice.                                             *)
Ordered_bug(k) == records # <<>> => records[Len(records)].key <= k
Ordered(k) == records # <<>> => records[Len(records)].key < k

(* The last record of every interval is indexed, not the first.            *)
Indexed_bug == (Len(records) + 1) % Interval = 0
Indexed == Len(records) % Interval = 0

(* One turn of the loop in SegmentWriter::write_all.                       *)
WriteRecord(k, c, n) ==
  /\ phase = "writing" /\ Ordered(k)
  /\ sparseIndex' = IF Indexed
                    THEN Append(sparseIndex, [key |-> k, at |-> currentOffset])
                    ELSE sparseIndex
  /\ records' = Append(records, [key |-> k, cell |-> c, at |-> currentOffset, size |-> n])
  /\ currentOffset' = currentOffset + n
  /\ UNCHANGED phase

(* Keys out of order, a record that encode refuses, or a failed write.     *)
Fail ==
  /\ phase = "writing"
  /\ phase' = "failed"
  /\ UNCHANGED <<records, sparseIndex, currentOffset>>

Finish ==
  /\ phase = "writing"
  /\ phase' = "finished"
  /\ UNCHANGED <<records, sparseIndex, currentOffset>>

Next ==
  \/ \E k \in Keys, c \in Cells, n \in Sizes : WriteRecord(k, c, n)
  \/ Fail
  \/ Finish

Spec == Init /\ [][Next]_vars

-----------------------------------------------------------------------------
(* SegmentReader *)

(* What SegmentReader::open and read_sparse_index check of a whole file.   *)
OpenAccepts ==
  /\ \A i \in DOMAIN sparseIndex :
       sparseIndex[i].at >= HeaderSize /\ sparseIndex[i].at < currentOffset
  /\ \A i, j \in DOMAIN sparseIndex :
       i < j => /\ sparseIndex[i].key < sparseIndex[j].key
                /\ sparseIndex[i].at < sparseIndex[j].at
  /\ IF currentOffset = HeaderSize
     THEN sparseIndex = <<>>
     ELSE sparseIndex # <<>> /\ sparseIndex[1].at = HeaderSize

(* The search stops at the first entry that is not less, not before it.    *)
StartOffset_bug(k) ==
  LET after == {i \in DOMAIN sparseIndex : sparseIndex[i].key >= k}
  IN IF after = {} THEN HeaderSize ELSE sparseIndex[Min(after)].at

(* Where get starts: at the last entry before the first greater key.       *)
StartOffset(k) ==
  LET before == {i \in DOMAIN sparseIndex :
                   \A j \in 1..i : sparseIndex[j].key <= k}
  IN IF before = {} THEN HeaderSize ELSE sparseIndex[Max(before)].at

(* SegmentReader::get scans from there to the first key that is not less.  *)
Get(k) ==
  LET start == StartOffset(k)
      hits  == {i \in DOMAIN records : records[i].at >= start /\ records[i].key >= k}
  IN IF start < currentOffset /\ start \notin {records[i].at : i \in DOMAIN records}
     THEN Invalid
     ELSE IF hits # {} /\ records[Min(hits)].key = k
     THEN records[Min(hits)].cell
     ELSE NotFound

-----------------------------------------------------------------------------
(* The records are in key order and lie end to end from the header to the  *)
(* index: iter_all reads every one of them and ends at index_offset.       *)
RecordArea ==
  /\ \A i, j \in DOMAIN records : i < j => records[i].key < records[j].key
  /\ \A i \in DOMAIN records :
       records[i].at = IF i = 1 THEN HeaderSize
                       ELSE records[i - 1].at + records[i - 1].size
  /\ currentOffset = IF records = <<>> THEN HeaderSize
                     ELSE records[Len(records)].at + records[Len(records)].size

(* A lookup finds what was written for the key, whichever index entry it   *)
(* starts from, and finds nothing for a key that was not written.          *)
GetFindsRecord ==
  phase = "finished" =>
    \A k \in Keys :
      /\ \A i \in DOMAIN records : records[i].key = k => Get(k) = records[i].cell
      /\ (\A i \in DOMAIN records : records[i].key # k) => Get(k) = NotFound

(* A segment the writer has finished is one the reader opens: a flush does *)
(* not fail on its own output.                                             *)
FinishedOpens == phase = "finished" => OpenAccepts

=============================================================================
