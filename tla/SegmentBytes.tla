----------------------------- MODULE SegmentBytes ------------------------------
(***************************************************************************)
(* A segment file of src/src/segment.rs byte by byte: header, records,     *)
(* sparse index and footer as SegmentWriter writes them, and the checks    *)
(* with which SegmentReader reads them back, of a file in which one stored *)
(* byte may have been damaged.                                             *)
(***************************************************************************)
EXTENDS RecordCodec

CONSTANTS
  Magic,        \* SEGMENT_MAGIC
  Version,      \* SEGMENT_VERSION
  OffSize,      \* bytes of a file offset
  Interval,     \* SPARSE_INDEX_INTERVAL
  NotFound,     \* get: the segment says nothing of the key
  MaxRecords    \* bound: records in the file

ASSUME LayoutAssumption ==
  /\ Magic \in Seq(Bytes) /\ Version \in Bytes
  /\ OffSize \in Nat \ {0} /\ Interval \in Nat \ {0}
  /\ \A r \in DataRecords : NotFound # r
  /\ MaxRecords \in Nat

HeaderSize == Len(Magic) + 1
FooterSize == OffSize + Len(Magic)

VARIABLES
  written,       \* the records given to write_all, a history
  sparseIndex,   \* sparse_index
  bytes,         \* the file
  hit,           \* the position of the damaged byte, or 0
  phase          \* "writing", "failed", "finished" or "damaged"

vars == <<written, sparseIndex, bytes, hit, phase>>

(* The order of keys as sequences of bytes.                                *)
Less(a, b) ==
  \/ IsStrictPrefix(a, b)
  \/ \E i \in DOMAIN a \cap DOMAIN b :
       a[i] < b[i] /\ \A j \in 1..(i - 1) : a[j] = b[j]

AtMost(a, b) == a = b \/ Less(a, b)

-----------------------------------------------------------------------------
(* SegmentWriter *)

Init ==
  /\ written = <<>>
  /\ sparseIndex = <<>>
  /\ bytes = PlainSeq(Magic) \o <<Plain(Version)>>
  /\ hit = 0
  /\ phase = "writing"

(* A key may be written twice.                                             *)
Ordered_bug(k) == written # <<>> => AtMost(Last(written).key, k)

Ordered(k) == written # <<>> => Less(Last(written).key, k)

(* One turn of the loop in SegmentWriter::write_all.                       *)
WriteRecord(r) ==
  /\ phase = "writing" /\ Len(written) < MaxRecords
  /\ Ordered(r.key) /\ Encodable(r)
  /\ sparseIndex' = IF Len(written) % Interval = 0
                    THEN Append(sparseIndex, [key |-> r.key, at |-> Len(bytes)])
                    ELSE sparseIndex
  /\ bytes' = bytes \o Encode(r)
  /\ written' = Append(written, r)
  /\ UNCHANGED <<hit, phase>>

(* Keys out of order, or a record that encode refuses.                     *)
RefuseRecord(r) ==
  /\ phase = "writing"
  /\ ~Ordered(r.key) \/ ~Encodable(r)
  /\ phase' = "failed"
  /\ UNCHANGED <<written, sparseIndex, bytes, hit>>

EncodeIndex(index) ==
  FlattenSeq([i \in DOMAIN index |->
                ToBytes(Len(index[i].key), LenSize) \o PlainSeq(index[i].key)
                  \o ToBytes(index[i].at, OffSize)])

(* The footer says where the index ends, not where it begins.              *)
Finish_bug ==
  /\ phase = "writing"
  /\ bytes' = bytes \o EncodeIndex(sparseIndex)
                \o ToBytes(Len(bytes) + Len(EncodeIndex(sparseIndex)), OffSize)
                \o PlainSeq(Magic)
  /\ phase' = "finished"
  /\ UNCHANGED <<written, sparseIndex, hit>>

Finish ==
  /\ phase = "writing"
  /\ bytes' = bytes \o EncodeIndex(sparseIndex)
                \o ToBytes(Len(bytes), OffSize) \o PlainSeq(Magic)
  /\ phase' = "finished"
  /\ UNCHANGED <<written, sparseIndex, hit>>

(* A stored byte is read back as another one.                              *)
Damage ==
  /\ phase = "finished"
  /\ \E i \in DOMAIN bytes, n \in Bytes :
       /\ Plain(n) # bytes[i]
       /\ bytes' = [bytes EXCEPT ![i] = Plain(n)]
       /\ hit' = i
  /\ phase' = "damaged"
  /\ UNCHANGED <<written, sparseIndex>>

Next ==
  \/ \E r \in DataRecords : WriteRecord(r) \/ RefuseRecord(r)
  \/ Finish
  \/ Damage

Spec == Init /\ [][Next]_vars

-----------------------------------------------------------------------------
(* SegmentReader: every error of it is Invalid *)

Invalid == [ok |-> FALSE]

(* The bytes from one file offset up to another.                           *)
Slice(b, from, to) == SubSeq(b, from + 1, to)

(* The loop of read_sparse_index.                                          *)
ReadEntries(b, indexOffset, footerStart) ==
  LET From[o \in Nat] ==
        LET keyStart == o + LenSize
            keyEnd   == keyStart + FromBytes(Slice(b, o, keyStart))
            end      == keyEnd + OffSize
        IN IF o = footerStart THEN [ok |-> TRUE, entries |-> <<>>]
           ELSE IF keyStart > footerStart THEN Invalid
           ELSE IF end > footerStart \/ ~From[end].ok THEN Invalid
           ELSE [ok |-> TRUE,
                 entries |-> <<[key |-> Numbers(Slice(b, keyStart, keyEnd)),
                                at  |-> FromBytes(Slice(b, keyEnd, end))]>>
                               \o From[end].entries]
  IN From[indexOffset]

(* What read_sparse_index and open ask of the entries.                     *)
IndexFits(index, indexOffset) ==
  /\ \A i \in DOMAIN index :
       HeaderSize <= index[i].at /\ index[i].at < indexOffset
  /\ \A i \in DOMAIN index \ {1} :
       Less(index[i - 1].key, index[i].key) /\ index[i - 1].at < index[i].at
  /\ IF indexOffset = HeaderSize
     THEN index = <<>>
     ELSE index # <<>> /\ index[1].at = HeaderSize

(* SegmentReader::open: the index and where it begins, or an error.        *)
Open(b) ==
  LET footerStart == Len(b) - FooterSize
      indexOffset == FromBytes(Slice(b, footerStart, footerStart + OffSize))
      read        == ReadEntries(b, indexOffset, footerStart)
  IN IF /\ Len(b) >= HeaderSize + FooterSize
        /\ Numbers(Slice(b, 0, HeaderSize)) = Append(Magic, Version)
        /\ Numbers(Slice(b, footerStart + OffSize, Len(b))) = Magic
        /\ HeaderSize <= indexOffset /\ indexOffset <= footerStart
        /\ read.ok
        /\ IndexFits(read.entries, indexOffset)
     THEN [ok |-> TRUE, index |-> read.entries, indexOffset |-> indexOffset]
     ELSE Invalid

(* Where a field ends whose length stands at o.                            *)
FieldEnd(b, o) == o + LenSize + FromBytes(Slice(b, o, o + LenSize))

(* A decoded record, if it is as long as its fields say.                   *)
Sized(d, n) ==
  IF d.kind = "ok" /\ d.size = n
  THEN [ok |-> TRUE, record |-> d.record, size |-> n]
  ELSE Invalid

(* read_record_at: both lengths are read and bounded before the decoder    *)
(* sees exactly the bytes that they span.                                  *)
ReadRecordAt(b, indexOffset, o) ==
  LET keyEnd == FieldEnd(b, o + 1)
      end    == FieldEnd(b, keyEnd) + CrcSize
  IN IF \/ o < HeaderSize \/ o >= indexOffset
        \/ o + 1 + LenSize > indexOffset
        \/ keyEnd + LenSize > indexOffset
        \/ end > indexOffset
     THEN Invalid
     ELSE Sized(Decode(Slice(b, o, end)), end - o)

(* A record, before those that follow it.                                  *)
Before(record, rest) ==
  IF rest.ok THEN [ok |-> TRUE, records |-> <<record>> \o rest.records] ELSE rest

(* The loop of iter_all.                                                   *)
ReadAll(b, indexOffset) ==
  LET From[o \in Nat] ==
        LET r == ReadRecordAt(b, indexOffset, o)
        IN IF o = indexOffset THEN [ok |-> TRUE, records |-> <<>>]
           ELSE IF r.ok THEN Before(r.record, From[o + r.size])
           ELSE Invalid
  IN From[HeaderSize]

(* iter_all, which verify and compact_all use.                             *)
IterAll(b) == IF Open(b).ok THEN ReadAll(b, Open(b).indexOffset) ELSE Invalid

(* A record that cannot be read ends the search as the last one does.      *)
Search_bug(b, opened, k) ==
  LET before == {i \in DOMAIN opened.index : \A j \in 1..i : AtMost(opened.index[j].key, k)}
      From[o \in Nat] ==
        LET r == ReadRecordAt(b, opened.indexOffset, o)
        IN IF o >= opened.indexOffset \/ ~r.ok THEN NotFound
           ELSE IF r.record.key = k THEN r.record
           ELSE IF Less(k, r.record.key) THEN NotFound
           ELSE From[o + r.size]
  IN From[IF before = {} THEN HeaderSize ELSE opened.index[Max(before)].at]

(* The search from the last indexed key that is not above k.               *)
Search(b, opened, k) ==
  LET before == {i \in DOMAIN opened.index : \A j \in 1..i : AtMost(opened.index[j].key, k)}
      From[o \in Nat] ==
        LET r == ReadRecordAt(b, opened.indexOffset, o)
        IN IF o >= opened.indexOffset THEN NotFound
           ELSE IF ~r.ok THEN Invalid
           ELSE IF r.record.key = k THEN r.record
           ELSE IF Less(k, r.record.key) THEN NotFound
           ELSE From[o + r.size]
  IN From[IF before = {} THEN HeaderSize ELSE opened.index[Max(before)].at]

(* get: the record of the key, NotFound or an error.                       *)
Get(b, k) == IF Open(b).ok THEN Search(b, Open(b), k) ELSE Invalid

-----------------------------------------------------------------------------
(* SegmentFile is this file seen as records: keys by their rank, a cell    *)
(* for each record, what it says of its key.                               *)

Rank(k) == Cardinality({x \in KeyBytes : Less(x, k)})
Cell(r) == [op |-> r.op, val |-> r.val]
(* The offset that the first n records end at.                             *)
EndOf(n) == HeaderSize + MapThenSumSet(LAMBDA j : Len(Encode(written[j])), 1..n)

SF == INSTANCE SegmentFile WITH
  Keys <- {Rank(k) : k \in KeyBytes},
  Cells <- {Cell(r) : r \in DataRecords},
  Sizes <- {Len(Encode(r)) : r \in DataRecords},
  records <- [i \in DOMAIN written |->
                [key |-> Rank(written[i].key), cell |-> Cell(written[i]),
                 at |-> EndOf(i - 1), size |-> Len(Encode(written[i]))]],
  sparseIndex <- [i \in DOMAIN sparseIndex |->
                    [key |-> Rank(sparseIndex[i].key), at |-> sparseIndex[i].at]],
  currentOffset <- EndOf(Len(written)),
  phase <- IF phase = "damaged" THEN "finished" ELSE phase

(* The writer implements that of SegmentFile, whose theorems so hold of it. *)
ImplementsSegmentFile == SF!Spec

(* The value of Get that is right.                                         *)
Expected(k) ==
  LET hits == {i \in DOMAIN written : written[i].key = k}
  IN IF hits = {} THEN NotFound ELSE written[Max(hits)]

(* What is finished can be opened, and holds what was written: for         *)
(* iter_all, record by record, and for get, whatever the key.              *)
FinishedReadsBack ==
  phase = "finished" =>
    /\ Open(bytes).ok
    /\ IterAll(bytes) = [ok |-> TRUE, records |-> written]
    /\ \A k \in KeyBytes : Get(bytes, k) = Expected(k)

(* The bytes of the footer that say where the index begins.                *)
OffsetBytes(b) == (Len(b) - FooterSize + 1)..(Len(b) - FooterSize + OffSize)

(* One damaged byte never makes iter_all return other records, unless it   *)
(* is one of the index offset: a compaction of the segment fails, and does *)
(* not replace it by less than it held.                                    *)
DamageNeverMisleadsCompaction ==
  phase = "damaged" /\ hit \notin OffsetBytes(bytes) =>
    IterAll(bytes) \in {Invalid, [ok |-> TRUE, records |-> written]}

(* Verification checks the footer: with a byte of the index offset changed *)
(* iter_all, which it calls, fails. It does not where the new offset is    *)
(* that of a record, and what follows reads as entries of an index.        *)
FooterIsChecked ==
  phase = "damaged" /\ hit \in OffsetBytes(bytes) =>
    IterAll(bytes) \in {Invalid, [ok |-> TRUE, records |-> written]}

(* A damaged byte that changes an answer of get is one of the sparse index *)
(* or the footer, which no checksum covers.                                *)
RecordDamageIsNoticed ==
  phase = "damaged" /\ hit <= EndOf(Len(written)) =>
    \A k \in KeyBytes : Get(bytes, k) \in {Invalid, Expected(k)}

=============================================================================
