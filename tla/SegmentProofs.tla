----------------------------- MODULE SegmentProofs -----------------------------
(***************************************************************************)
(* Lookups in a segment are right, for every set of keys, every record     *)
(* length and every index interval.                                        *)
(***************************************************************************)
EXTENDS SegmentFile, OrderLemmas

SegmentType ==
  /\ records \in Seq(RecordType)
  /\ sparseIndex \in Seq(IndexEntries)
  /\ currentOffset \in Nat
  /\ phase \in {"writing", "finished", "failed"}

(* Keys and offsets of the records both increase, and end at the index.    *)
Increasing ==
  /\ \A i, j \in DOMAIN records :
       i < j => records[i].key < records[j].key /\ records[i].at < records[j].at
  /\ \A i \in DOMAIN records :
       HeaderSize <= records[i].at /\ records[i].at < currentOffset

(* Every index entry is that of a record; the first record has one.        *)
IndexInv ==
  /\ \A e \in DOMAIN sparseIndex : \E i \in DOMAIN records :
       sparseIndex[e].key = records[i].key /\ sparseIndex[e].at = records[i].at
  /\ \A e, f \in DOMAIN sparseIndex :
       e < f => /\ sparseIndex[e].key < sparseIndex[f].key
                /\ sparseIndex[e].at < sparseIndex[f].at
  /\ records = <<>> => sparseIndex = <<>> /\ currentOffset = HeaderSize
  /\ records # <<>> => /\ sparseIndex # <<>>
                       /\ sparseIndex[1].at = HeaderSize
                       /\ records[1].at = HeaderSize

SInv == SegmentType /\ RecordArea /\ Increasing /\ IndexInv

-----------------------------------------------------------------------------
LEMMA AppendFacts ==
  ASSUME NEW S, NEW s \in Seq(S), NEW x \in S
  PROVE  /\ Append(s, x) \in Seq(S) /\ Append(s, x) # <<>>
         /\ Len(s) \in Nat
         /\ DOMAIN s = 1..Len(s)
         /\ DOMAIN Append(s, x) = 1..(Len(s) + 1)
         /\ Append(s, x)[Len(s) + 1] = x
         /\ \A i \in 1..Len(s) : s[i] \in S /\ Append(s, x)[i] = s[i]
OBVIOUS

LEMMA NonEmpty ==
  ASSUME NEW S, NEW s \in Seq(S)
  PROVE  /\ Len(s) \in Nat /\ DOMAIN s = 1..Len(s)
         /\ \A i \in 1..Len(s) : s[i] \in S
         /\ s = <<>> <=> Len(s) = 0
OBVIOUS

LEMMA RecordFields ==
  ASSUME SegmentType
  PROVE  \A i \in DOMAIN records : records[i].key \in Nat /\ records[i].at \in Nat
<1>1. SUFFICES ASSUME NEW i \in DOMAIN records
               PROVE  records[i].key \in Nat /\ records[i].at \in Nat
  OBVIOUS
<1>2. records \in Seq(RecordType)
  BY DEF SegmentType
<1>3. records[i] \in RecordType
  BY <1>2, NonEmpty
<1>4. records[i].key \in Keys /\ records[i].at \in Nat
  BY <1>3 DEF RecordType
<1> QED
  BY <1>4, SegmentAssumption

(* What the writer's check of the last key alone buys.                     *)
LEMMA NewKeyIsGreatest ==
  ASSUME SInv, NEW k \in Keys, Ordered(k)
  PROVE  \A i \in DOMAIN records : records[i].key < k
<1>1. SUFFICES ASSUME NEW i \in DOMAIN records
               PROVE  records[i].key < k
  OBVIOUS
<1>2. /\ records \in Seq(RecordType) /\ Len(records) \in Nat
      /\ i \in 1..Len(records) /\ Len(records) \in DOMAIN records
      /\ records # <<>>
  BY <1>1, NonEmpty DEF SInv, SegmentType
<1>3. \A j \in DOMAIN records : records[j].key \in Nat
  BY RecordFields DEF SInv
<1>4. k \in Nat /\ records[Len(records)].key < k
  BY <1>2, SegmentAssumption DEF Ordered
<1>5. i = Len(records) \/ records[i].key < records[Len(records)].key
  BY <1>1, <1>2 DEF SInv, Increasing
<1> QED
  BY <1>1, <1>2, <1>3, <1>4, <1>5

LEMMA WriteRecordStep ==
  ASSUME SInv, NEW k \in Keys, NEW c \in Cells, NEW n \in Sizes,
         WriteRecord(k, c, n)
  PROVE  SInv'
<1> DEFINE r == [key |-> k, cell |-> c, at |-> currentOffset, size |-> n]
           e == [key |-> k, at |-> currentOffset]
<1>1. /\ records \in Seq(RecordType) /\ sparseIndex \in Seq(IndexEntries)
      /\ currentOffset \in Nat /\ n \in Nat /\ n > 0 /\ k \in Nat
      /\ HeaderSize \in Nat
  BY SegmentAssumption DEF SInv, SegmentType
<1>2. /\ records' = Append(records, r)
      /\ currentOffset' = currentOffset + n
      /\ phase' = phase
      /\ Ordered(k)
      /\ \/ sparseIndex' = Append(sparseIndex, e)
         \/ sparseIndex' = sparseIndex /\ ~Indexed
  BY DEF WriteRecord
<1>3. r \in RecordType /\ e \in IndexEntries
  BY <1>1 DEF RecordType, IndexEntries
<1>4. /\ r.key = k /\ r.at = currentOffset /\ r.size = n
      /\ e.key = k /\ e.at = currentOffset
  OBVIOUS
<1> HIDE DEF r, e
<1> DEFINE m == Len(records)
<1>5. /\ records' \in Seq(RecordType) /\ records' # <<>>
      /\ m \in Nat
      /\ DOMAIN records = 1..m /\ DOMAIN records' = 1..(m + 1)
      /\ records'[m + 1] = r
      /\ \A i \in 1..m : records[i] \in RecordType /\ records'[i] = records[i]
  BY <1>1, <1>2, <1>3, AppendFacts
<1>6. \A i \in DOMAIN records : /\ records[i].key < k
                                /\ records[i].key \in Nat
                                /\ records[i].at \in Nat /\ records[i].size \in Nat
                                /\ HeaderSize <= records[i].at
                                /\ records[i].at < currentOffset
  BY <1>2, <1>5, NewKeyIsGreatest, SegmentAssumption DEF SInv, Increasing, RecordType
<1>7. records = <<>> <=> m = 0
  BY <1>1, NonEmpty
<1>8. SegmentType'
  <2>1. sparseIndex' \in Seq(IndexEntries)
    BY <1>1, <1>2, <1>3, AppendFacts
  <2>2. currentOffset' \in Nat
    BY <1>1, <1>2
  <2> QED
    BY <1>2, <1>5, <2>1, <2>2 DEF SInv, SegmentType
<1>9. HeaderSize <= currentOffset
  <2>1. CASE m = 0
    BY <1>1, <1>7, <2>1 DEF SInv, IndexInv
  <2>2. CASE m # 0
    BY <1>1, <1>5, <1>6, <2>2
  <2> QED
    BY <2>1, <2>2
<1>10. Increasing'
  <2>1. \A i, j \in DOMAIN records' :
          i < j => /\ records'[i].key < records'[j].key
                   /\ records'[i].at < records'[j].at
    <3> SUFFICES ASSUME NEW i \in DOMAIN records', NEW j \in DOMAIN records', i < j
                 PROVE  /\ records'[i].key < records'[j].key
                        /\ records'[i].at < records'[j].at
      OBVIOUS
    <3>1. i \in 1..m /\ records'[i] = records[i]
      BY <1>5
    <3>2. CASE j \in 1..m
      BY <1>5, <3>1, <3>2 DEF SInv, Increasing
    <3>3. CASE j = m + 1
      BY <1>4, <1>5, <1>6, <3>1, <3>3
    <3> QED
      BY <1>5, <3>2, <3>3
  <2>2. \A i \in DOMAIN records' :
          HeaderSize <= records'[i].at /\ records'[i].at < currentOffset'
    <3> TAKE i \in DOMAIN records'
    <3>1. CASE i \in 1..m
      BY <1>1, <1>2, <1>5, <1>6, <3>1
    <3>2. CASE i = m + 1
      BY <1>1, <1>2, <1>4, <1>5, <1>9, <3>2
    <3> QED
      BY <1>5, <3>1, <3>2
  <2> QED
    BY <2>1, <2>2 DEF Increasing
<1>11. RecordArea'
  <2>1. \A i \in DOMAIN records' :
          records'[i].at = IF i = 1 THEN HeaderSize
                           ELSE records'[i - 1].at + records'[i - 1].size
    <3> TAKE i \in DOMAIN records'
    <3>1. CASE i \in 1..m
      <4>1. i # 1 => i - 1 \in 1..m
        BY <1>5, <3>1
      <4> QED
        BY <1>5, <3>1, <4>1 DEF SInv, RecordArea
    <3>2. CASE i = m + 1
      <4>1. CASE m = 0
        BY <1>4, <1>5, <1>7, <3>2, <4>1 DEF SInv, IndexInv
      <4>2. CASE m # 0
        <5>1. i # 1 /\ i - 1 = m /\ m \in 1..m
          BY <1>5, <3>2, <4>2
        <5>2. currentOffset = records[m].at + records[m].size
          BY <1>7, <4>2 DEF SInv, RecordArea
        <5> QED
          BY <1>4, <1>5, <3>2, <5>1, <5>2
      <4> QED
        BY <4>1, <4>2
    <3> QED
      BY <1>5, <3>1, <3>2
  <2>2. Len(records') = m + 1
    BY <1>5, NonEmpty
  <2>3. currentOffset' = records'[Len(records')].at + records'[Len(records')].size
    BY <1>2, <1>4, <1>5, <2>2
  <2> QED
    BY <1>5, <1>10, <2>1, <2>3 DEF RecordArea, Increasing
<1>12. \A f \in DOMAIN sparseIndex : \E i \in DOMAIN records :
         sparseIndex[f].key = records[i].key /\ sparseIndex[f].at = records[i].at
  BY DEF SInv, IndexInv
<1>13. records'[1].at = HeaderSize
  BY <1>5, <1>11 DEF RecordArea
<1>14. IndexInv'
  <2>1. CASE sparseIndex' = Append(sparseIndex, e)
    <3> DEFINE q == Len(sparseIndex)
    <3>1. /\ q \in Nat /\ DOMAIN sparseIndex = 1..q
          /\ DOMAIN sparseIndex' = 1..(q + 1) /\ sparseIndex' # <<>>
          /\ sparseIndex'[q + 1] = e
          /\ \A f \in 1..q : sparseIndex'[f] = sparseIndex[f]
      BY <1>1, <1>3, <2>1, AppendFacts
    <3>2. \A f \in 1..q : /\ sparseIndex[f].key < k
                          /\ sparseIndex[f].at < currentOffset
      BY <1>6, <1>12, <3>1
    <3>3. \A f \in DOMAIN sparseIndex' : \E i \in DOMAIN records' :
            /\ sparseIndex'[f].key = records'[i].key
            /\ sparseIndex'[f].at = records'[i].at
      <4> TAKE f \in DOMAIN sparseIndex'
      <4>1. CASE f \in 1..q
        <5>1. PICK i \in DOMAIN records : /\ sparseIndex[f].key = records[i].key
                                          /\ sparseIndex[f].at = records[i].at
          BY <1>12, <3>1, <4>1
        <5>2. i \in DOMAIN records' /\ records'[i] = records[i]
          BY <1>5
        <5> QED
          BY <3>1, <4>1, <5>1, <5>2
      <4>2. CASE f = q + 1
        <5>1. m + 1 \in DOMAIN records'
          BY <1>5
        <5> QED
          BY <1>4, <1>5, <3>1, <4>2, <5>1
      <4> QED
        BY <3>1, <4>1, <4>2
    <3>4. \A f, g \in DOMAIN sparseIndex' :
            f < g => /\ sparseIndex'[f].key < sparseIndex'[g].key
                     /\ sparseIndex'[f].at < sparseIndex'[g].at
      <4> SUFFICES ASSUME NEW f \in DOMAIN sparseIndex', NEW g \in DOMAIN sparseIndex',
                          f < g
                   PROVE  /\ sparseIndex'[f].key < sparseIndex'[g].key
                          /\ sparseIndex'[f].at < sparseIndex'[g].at
        OBVIOUS
      <4>1. f \in 1..q /\ sparseIndex'[f] = sparseIndex[f]
        BY <3>1
      <4>2. CASE g \in 1..q
        BY <3>1, <4>1, <4>2 DEF SInv, IndexInv
      <4>3. CASE g = q + 1
        BY <1>4, <3>1, <3>2, <4>1, <4>3
      <4> QED
        BY <3>1, <4>2, <4>3
    <3>5. sparseIndex'[1].at = HeaderSize
      <4>1. CASE m = 0
        <5>1. q = 0 /\ currentOffset = HeaderSize
          BY <1>1, <1>7, <4>1, NonEmpty DEF SInv, IndexInv
        <5> QED
          BY <1>4, <3>1, <5>1
      <4>2. CASE m # 0
        <5>1. q # 0 /\ sparseIndex[1].at = HeaderSize
          BY <1>1, <1>7, <4>2, NonEmpty DEF SInv, IndexInv
        <5>2. 1 \in 1..q
          BY <3>1, <5>1
        <5> QED
          BY <3>1, <5>1, <5>2
      <4> QED
        BY <4>1, <4>2
    <3> QED
      BY <1>5, <1>13, <3>1, <3>3, <3>4, <3>5 DEF IndexInv
  <2>2. CASE sparseIndex' = sparseIndex /\ ~Indexed
    <3>1. m # 0
      <4>1. 0 % Interval = 0
        BY SegmentAssumption
      <4> QED
        BY <2>2, <4>1 DEF Indexed
    <3>2. \A f \in DOMAIN sparseIndex' : \E i \in DOMAIN records' :
            /\ sparseIndex'[f].key = records'[i].key
            /\ sparseIndex'[f].at = records'[i].at
      BY <1>5, <1>12, <2>2
    <3> QED
      BY <1>5, <1>7, <1>13, <2>2, <3>1, <3>2 DEF SInv, IndexInv
  <2> QED
    BY <1>2, <2>1, <2>2
<1> QED
  BY <1>8, <1>10, <1>11, <1>14 DEF SInv

LEMMA InitSInv == Init => SInv
<1> SUFFICES ASSUME Init PROVE SInv
  OBVIOUS
<1> QED
  BY SegmentAssumption
     DEF Init, SInv, SegmentType, RecordArea, Increasing, IndexInv

LEMMA StepSInv == SInv /\ [Next]_vars => SInv'
<1> SUFFICES ASSUME SInv, [Next]_vars PROVE SInv'
  OBVIOUS
<1>1. CASE \E k \in Keys, c \in Cells, n \in Sizes : WriteRecord(k, c, n)
  BY <1>1, WriteRecordStep
<1>2. CASE Fail \/ Finish \/ UNCHANGED vars
  <2>1. UNCHANGED <<records, sparseIndex, currentOffset>>
    BY <1>2 DEF Fail, Finish, vars
  <2>2. phase' \in {phase, "failed", "finished"}
    BY <1>2 DEF Fail, Finish, vars
  <2> QED
    BY <2>1, <2>2 DEF SInv, SegmentType, RecordArea, Increasing, IndexInv
<1> QED
  BY <1>1, <1>2 DEF Next

(* The place a lookup starts is at or before every record of its key.      *)
LEMMA StartIsEarly ==
  ASSUME SInv, NEW k \in Keys
  PROVE  /\ \/ StartOffset(k) = HeaderSize
            \/ StartOffset(k) \in {records[i].at : i \in DOMAIN records}
         /\ StartOffset(k) \in Nat
         /\ \A i \in DOMAIN records : records[i].key = k => StartOffset(k) <= records[i].at
<1> DEFINE before == {i \in DOMAIN sparseIndex :
                        \A j \in 1..i : sparseIndex[j].key <= k}
<1>1. /\ Len(sparseIndex) \in Nat /\ DOMAIN sparseIndex = 1..Len(sparseIndex)
      /\ records \in Seq(RecordType) /\ HeaderSize \in Nat /\ k \in Nat
  BY NonEmpty, SegmentAssumption DEF SInv, SegmentType
<1>2. \A i \in DOMAIN records : records[i].key \in Nat /\ records[i].at \in Nat
  BY RecordFields DEF SInv
<1>3. CASE before = {}
  <2>1. StartOffset(k) = HeaderSize
    BY <1>3 DEF StartOffset
  <2> QED
    BY <1>1, <2>1 DEF SInv, Increasing
<1>4. CASE before # {}
  <2>1. /\ before \subseteq Nat
        /\ \A i \in before : i <= Len(sparseIndex)
    BY <1>1
  <2>2. Max(before) \in before
    <3> HIDE DEF before
    <3> QED BY <1>1, <1>4, <2>1, MaxIsGreatest
  <2>3. PICK e \in DOMAIN sparseIndex : e = Max(before) /\ sparseIndex[e].key <= k
    <3>1. Max(before) \in DOMAIN sparseIndex
          /\ \A j \in 1..Max(before) : sparseIndex[j].key <= k
      BY <2>2
    <3>2. Max(before) \in 1..Max(before)
      BY <1>1, <3>1
    <3> HIDE DEF before
    <3> QED
      BY <3>1, <3>2
  <2>4. StartOffset(k) = sparseIndex[e].at
    BY <1>4, <2>3 DEF StartOffset
  <2>5. PICK r \in DOMAIN records : /\ sparseIndex[e].key = records[r].key
                                    /\ sparseIndex[e].at = records[r].at
    BY DEF SInv, IndexInv
  <2>6. \A i \in DOMAIN records : records[i].key = k => records[r].at <= records[i].at
    <3> SUFFICES ASSUME NEW i \in DOMAIN records, records[i].key = k
                 PROVE  records[r].at <= records[i].at
      OBVIOUS
    <3>1. i \in Nat /\ r \in Nat
      BY <1>1, NonEmpty
    <3>2. ~(i < r)
      BY <1>1, <1>2, <2>3, <2>5 DEF SInv, Increasing
    <3>3. i = r \/ r < i
      BY <3>1, <3>2
    <3> QED
      BY <1>2, <3>3 DEF SInv, Increasing
  <2> QED
    BY <1>2, <2>4, <2>5, <2>6
<1> QED
  BY <1>3, <1>4

LEMMA LookupIsRight ==
  ASSUME SInv
  PROVE  GetFindsRecord
<1> SUFFICES ASSUME NEW k \in Keys
             PROVE  /\ \A i \in DOMAIN records :
                         records[i].key = k => Get(k) = records[i].cell
                    /\ (\A i \in DOMAIN records : records[i].key # k) => Get(k) = NotFound
  BY DEF GetFindsRecord
<1> DEFINE start == StartOffset(k)
           hits  == {i \in DOMAIN records : records[i].at >= start /\ records[i].key >= k}
<1>1. /\ records \in Seq(RecordType) /\ Len(records) \in Nat /\ k \in Nat
      /\ DOMAIN records = 1..Len(records)
  BY NonEmpty, SegmentAssumption DEF SInv, SegmentType
<1>2. \A i \in DOMAIN records : records[i].key \in Nat /\ records[i].at \in Nat
  BY RecordFields DEF SInv
<1>3. start < currentOffset => start \in {records[i].at : i \in DOMAIN records}
  <2>1. CASE start = HeaderSize /\ records # <<>>
    <3>1. 1 \in DOMAIN records /\ records[1].at = start
      BY <1>1, <2>1, NonEmpty DEF SInv, IndexInv
    <3> QED
      BY <3>1
  <2>2. CASE start = HeaderSize /\ records = <<>>
    BY <2>2, SegmentAssumption DEF SInv, IndexInv
  <2> QED
    BY <2>1, <2>2, StartIsEarly
<1>4. Get(k) = IF hits # {} /\ records[Min(hits)].key = k
               THEN records[Min(hits)].cell
               ELSE NotFound
  BY <1>3 DEF Get
<1>5. hits \subseteq Nat /\ hits \subseteq DOMAIN records
  BY <1>1
<1>6. hits # {} => Min(hits) \in hits /\ \A i \in hits : Min(hits) <= i
  <2> HIDE DEF hits
  <2> QED BY <1>5, MinIsLeast
<1>7. ASSUME NEW i \in DOMAIN records, records[i].key = k
      PROVE  Get(k) = records[i].cell
  <2>1. i \in hits
    BY <1>2, <1>7, StartIsEarly
  <2>2. Min(hits) \in DOMAIN records /\ records[Min(hits)].key >= k /\ Min(hits) <= i
    BY <1>6, <2>1
  <2>3. Min(hits) = i
    <3>1. Min(hits) \in Nat /\ i \in Nat
      BY <1>5, <1>6, <2>1
    <3>2. ~(Min(hits) < i)
      BY <1>2, <1>7, <2>2 DEF SInv, Increasing
    <3> QED
      BY <2>2, <3>1, <3>2
  <2> HIDE DEF hits
  <2> QED
    BY <1>4, <1>7, <2>1, <2>3
<1>8. ASSUME \A i \in DOMAIN records : records[i].key # k
      PROVE  Get(k) = NotFound
  <2> HIDE DEF hits
  <2> QED
    BY <1>4, <1>5, <1>6, <1>8
<1> QED
  BY <1>7, <1>8

LEMMA FinishedFileIsAccepted ==
  ASSUME SInv
  PROVE  OpenAccepts
<1>1. \A i \in DOMAIN sparseIndex :
        sparseIndex[i].at >= HeaderSize /\ sparseIndex[i].at < currentOffset
  <2> SUFFICES ASSUME NEW e \in DOMAIN sparseIndex
               PROVE  sparseIndex[e].at >= HeaderSize /\ sparseIndex[e].at < currentOffset
    OBVIOUS
  <2>1. PICK i \in DOMAIN records : sparseIndex[e].at = records[i].at
    BY DEF SInv, IndexInv
  <2> QED
    BY <2>1 DEF SInv, Increasing
<1>2. currentOffset = HeaderSize => sparseIndex = <<>>
  <2>1. records # <<>> => 1 \in DOMAIN records
    BY NonEmpty DEF SInv, SegmentType
  <2>2. records # <<>> => HeaderSize < currentOffset
    BY <2>1 DEF SInv, Increasing, IndexInv
  <2> QED
    BY <2>2, SegmentAssumption DEF SInv, IndexInv
<1>3. currentOffset # HeaderSize => sparseIndex # <<>> /\ sparseIndex[1].at = HeaderSize
  BY DEF SInv, IndexInv
<1> QED
  BY <1>1, <1>2, <1>3 DEF OpenAccepts, SInv, IndexInv

(* SegmentReader::get returns what SegmentWriter was given for the key, and *)
(* nothing for other keys, whatever the record lengths and the interval.   *)
THEOREM LookupsAreRight == Spec => []GetFindsRecord
<1>1. SInv => GetFindsRecord
  BY LookupIsRight
<1> QED
  BY <1>1, InitSInv, StepSInv, PTL DEF Spec

(* SegmentReader::open accepts every file that SegmentWriter::finish made. *)
THEOREM FinishedSegmentsOpen == Spec => []FinishedOpens
<1>1. SInv => FinishedOpens
  BY FinishedFileIsAccepted DEF FinishedOpens
<1> QED
  BY <1>1, InitSInv, StepSInv, PTL DEF Spec

(* The records of a file are in key order and lie end to end.              *)
THEOREM RecordsLieEndToEnd == Spec => []RecordArea
<1>1. SInv => RecordArea
  BY DEF SInv
<1> QED
  BY <1>1, InitSInv, StepSInv, PTL DEF Spec

=============================================================================
