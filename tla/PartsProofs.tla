------------------------------ MODULE PartsProofs ------------------------------
(***************************************************************************)
(* The parts that MCParts runs: the merge is right for every number of     *)
(* segments and every content; no burst of up to four bytes leaves the     *)
(* checksum as it was, for every polynomial with its top bit set, every    *)
(* alphabet and every length; a marker is read as its form says, whatever  *)
(* its lines; and the memtable's count is exact for all entries that fit   *)
(* in memory.                                                              *)
(***************************************************************************)
EXTENDS Merge, Crc32, MarkerFile, Memtable, OrderLemmas, SequenceTheorems

(***************************************************************************)
(* The merge                                                               *)
(***************************************************************************)

MergeType ==
  /\ inputs \in Seq(Maps)
  /\ read \in 0..Len(inputs)
  /\ merged \in [Keys -> Cells \cup {Absent}]
  /\ phase \in {"reading", "retaining", "writing", "done", "failed"}

(* The merge loop's invariant, and what the later phases make of it.       *)
MInv ==
  /\ MergeType
  /\ MergedSoFar
  /\ phase = "retaining" => read = Len(inputs)
  /\ phase = "writing" => \A k \in Keys : merged[k] = Live(Newest(inputs, k))
  /\ OutputReplacesInputs

-----------------------------------------------------------------------------
LEMMA SeqFacts ==
  ASSUME NEW S, NEW s \in Seq(S)
  PROVE  /\ Len(s) \in Nat /\ DOMAIN s = 1..Len(s)
         /\ \A i \in 1..Len(s) : s[i] \in S
         /\ \A n \in 0..Len(s) :
              /\ SubSeq(s, 1, n) \in Seq(S)
              /\ Len(SubSeq(s, 1, n)) = n
              /\ \A i \in 1..n : SubSeq(s, 1, n)[i] = s[i]
         /\ SubSeq(s, 1, Len(s)) = s
OBVIOUS

(* The newest cell of k is in the last segment that mentions it.           *)
LEMMA NewestIsLast ==
  ASSUME NEW s \in Seq(Maps), NEW k, NEW i \in 1..Len(s),
         s[i][k] # Absent,
         \A j \in 1..Len(s) : i < j => s[j][k] = Absent
  PROVE  Newest(s, k) = s[i][k]
<1> DEFINE n == Len(s)
           rev == [j \in DOMAIN s |-> s[n + 1 - j]]
           hits == {j \in DOMAIN rev : rev[j][k] # Absent}
<1>1. n \in Nat /\ DOMAIN s = 1..n /\ DOMAIN rev = 1..n
  BY SeqFacts
<1>2. n + 1 - i \in 1..n /\ rev[n + 1 - i] = s[i]
  <2>1. n + 1 - i \in 1..n /\ n + 1 - (n + 1 - i) = i
    BY <1>1
  <2> QED
    BY <1>1, <2>1
<1>3. n + 1 - i \in hits
  BY <1>1, <1>2
<1>4. \A j \in hits : n + 1 - i <= j
  <2> SUFFICES ASSUME NEW j \in hits PROVE n + 1 - i <= j
    OBVIOUS
  <2>1. j \in 1..n /\ rev[j] = s[n + 1 - j] /\ s[n + 1 - j][k] # Absent
    BY <1>1
  <2>2. n + 1 - j \in 1..n
    BY <1>1, <2>1
  <2>3. ~(i < n + 1 - j)
    BY <2>1, <2>2
  <2> QED
    BY <1>1, <2>1, <2>3
<1>5. hits \subseteq Nat
  BY <1>1
<1>6. Min(hits) = n + 1 - i
  <2>1. Min(hits) \in hits /\ \A j \in hits : Min(hits) <= j
    <3> HIDE DEF hits
    <3> QED BY <1>3, <1>5, MinIsLeast
  <2> HIDE DEF hits
  <2> QED
    <3>1. Min(hits) \in Nat /\ n + 1 - i \in Nat
      BY <1>3, <1>5, <2>1
    <3>2. Min(hits) <= n + 1 - i /\ n + 1 - i <= Min(hits)
      BY <1>3, <1>4, <2>1
    <3> QED
      BY <3>1, <3>2
<1>7. Newest(s, k) = IF hits = {} THEN Absent ELSE rev[Min(hits)][k]
  BY DEF Newest, FirstCell
<1> HIDE DEF hits, rev
<1> QED
  BY <1>2, <1>3, <1>6, <1>7

(* No segment mentions k.                                                  *)
LEMMA NewestIsAbsent ==
  ASSUME NEW s \in Seq(Maps), NEW k, \A j \in 1..Len(s) : s[j][k] = Absent
  PROVE  Newest(s, k) = Absent
<1> DEFINE rev == [j \in DOMAIN s |-> s[Len(s) + 1 - j]]
           hits == {j \in DOMAIN rev : rev[j][k] # Absent}
<1>1. Len(s) \in Nat /\ DOMAIN s = 1..Len(s)
  BY SeqFacts
<1>2. hits = {}
  <2> SUFFICES ASSUME NEW j \in hits PROVE FALSE
    OBVIOUS
  <2>1. j \in 1..Len(s) /\ s[Len(s) + 1 - j][k] # Absent
    BY <1>1
  <2>2. Len(s) + 1 - j \in 1..Len(s)
    BY <1>1, <2>1
  <2> QED
    BY <2>1, <2>2
<1> QED
  BY <1>2 DEF Newest, FirstCell

(* One more segment: its cells win, the others stay.                       *)
LEMMA NewestStep ==
  ASSUME NEW s \in Seq(Maps), NEW n \in 0..Len(s), n < Len(s), NEW k \in Keys
  PROVE  Newest(SubSeq(s, 1, n + 1), k) =
           IF s[n + 1][k] # Absent THEN s[n + 1][k] ELSE Newest(SubSeq(s, 1, n), k)
<1> DEFINE a == SubSeq(s, 1, n)
           b == SubSeq(s, 1, n + 1)
<1>1. /\ a \in Seq(Maps) /\ b \in Seq(Maps) /\ Len(a) = n /\ Len(b) = n + 1
      /\ n \in Nat /\ \A i \in 1..n : a[i] = s[i]
      /\ \A i \in 1..(n + 1) : b[i] = s[i]
  <2>1. n + 1 \in 0..Len(s) /\ n \in Nat
    BY SeqFacts
  <2> QED
    BY <2>1, SeqFacts
<1> HIDE DEF a, b
<1>2. n + 1 \in 1..(n + 1)
  BY <1>1
<1>3. CASE s[n + 1][k] # Absent
  <2>1. Newest(b, k) = b[n + 1][k]
    BY <1>1, <1>2, <1>3, NewestIsLast
  <2> QED
    BY <1>1, <1>2, <1>3, <2>1 DEF b
<1>4. CASE s[n + 1][k] = Absent
  <2> DEFINE hits == {i \in 1..n : s[i][k] # Absent}
  <2>1. CASE hits = {}
    <3>1. \A i \in 1..(n + 1) : b[i][k] = Absent
      <4> TAKE i \in 1..(n + 1)
      <4>1. i = n + 1 \/ i \in 1..n
        BY <1>1
      <4> QED
        BY <1>1, <1>4, <2>1, <4>1
    <3>2. \A i \in 1..n : a[i][k] = Absent
      BY <1>1, <2>1
    <3> QED
      BY <1>1, <1>4, <3>1, <3>2, NewestIsAbsent DEF a, b
  <2>2. CASE hits # {}
    <3>1. hits \subseteq Nat /\ \A i \in hits : i <= n
      BY <1>1
    <3>2. Max(hits) \in hits /\ \A i \in hits : i <= Max(hits)
      <4> HIDE DEF hits
      <4> QED BY <1>1, <2>2, <3>1, MaxIsGreatest
    <3>3. PICK m \in hits : \A i \in hits : i <= m
      BY <3>2
    <3>4. m \in 1..n /\ m \in 1..(n + 1) /\ s[m][k] # Absent
      BY <1>1, <3>3
    <3>5. \A j \in 1..n : m < j => s[j][k] = Absent
      BY <3>3, <3>4
    <3>6. \A j \in 1..(n + 1) : m < j => s[j][k] = Absent
      <4> TAKE j \in 1..(n + 1)
      <4>1. j = n + 1 \/ j \in 1..n
        BY <1>1
      <4> QED
        BY <1>4, <3>5, <4>1
    <3> HIDE DEF hits
    <3>7. Newest(b, k) = b[m][k]
      BY <1>1, <3>4, <3>6, NewestIsLast
    <3>8. Newest(a, k) = a[m][k]
      <4>1. m \in 1..Len(a) /\ a[m][k] # Absent
        BY <1>1, <3>4
      <4>2. \A j \in 1..Len(a) : m < j => a[j][k] = Absent
        BY <1>1, <3>5
      <4> QED
        BY <1>1, <4>1, <4>2, NewestIsLast
    <3> QED
      BY <1>1, <1>4, <3>4, <3>7, <3>8 DEF a, b
  <2> QED
    BY <2>1, <2>2
<1> QED
  BY <1>3, <1>4

-----------------------------------------------------------------------------
LEMMA InitMInv == Init => MInv
<1> SUFFICES ASSUME Init PROVE MInv
  OBVIOUS
<1>1. PICK n \in 0..MaxInputs : inputs \in [1..n -> Maps]
  BY DEF Init
<1>2. n \in Nat
  BY MaxInputsAssumption
<1>3. inputs \in Seq(Maps)
  BY <1>1, <1>2
<1>4. MergeType
  BY <1>3, SeqFacts DEF Init, MergeType, EmptyMap
<1>5. ASSUME NEW k \in Keys
      PROVE  merged[k] = Newest(SubSeq(inputs, 1, 0), k)
  <2>1. SubSeq(inputs, 1, 0) \in Seq(Maps) /\ Len(SubSeq(inputs, 1, 0)) = 0
    <3>1. 0 \in 0..Len(inputs)
      BY <1>3, SeqFacts
    <3> QED
      BY <1>3, <3>1, SeqFacts
  <2>2. Newest(SubSeq(inputs, 1, 0), k) = Absent
    <3> DEFINE none == SubSeq(inputs, 1, 0)
    <3>1. \A j \in 1..Len(none) : none[j][k] = Absent
      BY <2>1
    <3> HIDE DEF none
    <3> QED
      BY <2>1, <3>1, NewestIsAbsent DEF none
  <2> QED
    BY <2>2 DEF Init, EmptyMap
<1> QED
  BY <1>4, <1>5 DEF MInv, MergedSoFar, OutputReplacesInputs, Init

LEMMA StepMInv == MInv /\ [Next]_vars => MInv'
<1> SUFFICES ASSUME MInv, [Next]_vars PROVE MInv'
  OBVIOUS
<1>1. /\ inputs \in Seq(Maps) /\ Len(inputs) \in Nat /\ read \in 0..Len(inputs)
      /\ merged \in [Keys -> Cells \cup {Absent}]
  BY SeqFacts DEF MInv, MergeType
<1>2. CASE ReadSegment
  <2>1. /\ read < Len(inputs) /\ read' = read + 1 /\ inputs' = inputs
        /\ merged' = Insert(inputs[read + 1]) /\ phase = "reading" /\ phase' = phase
    BY <1>2 DEF ReadSegment
  <2>2. read + 1 \in 1..Len(inputs) /\ inputs[read + 1] \in Maps
    BY <1>1, <2>1, SeqFacts
  <2>3. merged' \in [Keys -> Cells \cup {Absent}]
    BY <1>1, <2>1, <2>2 DEF Insert, Maps
  <2>4. MergeType'
    BY <1>1, <2>1, <2>2, <2>3 DEF MergeType
  <2>5. MergedSoFar'
    <3>1. \A k \in Keys : merged[k] = Newest(SubSeq(inputs, 1, read), k)
      BY <2>1 DEF MInv, MergedSoFar
    <3>2. \A k \in Keys : merged'[k] = Newest(SubSeq(inputs, 1, read + 1), k)
      BY <1>1, <2>1, <3>1, NewestStep DEF Insert
    <3> QED
      BY <2>1, <3>2 DEF MergedSoFar
  <2> QED
    BY <2>1, <2>4, <2>5 DEF MInv, OutputReplacesInputs
<1>3. CASE ReadFails
  BY <1>3 DEF ReadFails, MInv, MergeType, MergedSoFar, OutputReplacesInputs
<1>4. CASE AllRead
  BY <1>4 DEF AllRead, MInv, MergeType, MergedSoFar, OutputReplacesInputs
<1>5. CASE Retain
  <2>1. \A k \in Keys : merged[k] = Newest(inputs, k)
    BY <1>1, <1>5, SeqFacts DEF Retain, MInv, MergedSoFar
  <2>2. \A k \in Keys : merged'[k] = Live(merged[k])
    BY <1>5 DEF Retain
  <2>3. merged' \in [Keys -> Cells \cup {Absent}]
    BY <1>1, <1>5 DEF Retain, Live
  <2> QED
    BY <1>1, <1>5, <2>1, <2>2, <2>3
       DEF Retain, MInv, MergeType, MergedSoFar, OutputReplacesInputs
<1>6. CASE WriteOutput
  BY <1>6 DEF WriteOutput, MInv, MergeType, MergedSoFar, OutputReplacesInputs
<1>7. CASE UNCHANGED vars
  BY <1>7 DEF vars, MInv, MergeType, MergedSoFar, OutputReplacesInputs
<1> QED
  BY <1>2, <1>3, <1>4, <1>5, <1>6, <1>7 DEF Next

(* Reading the segments from the oldest to the newest, each over the last, *)
(* compact_all builds at every step what Store::get would find in them.    *)
THEOREM MergeFollowsReads == Spec => []MergedSoFar
<1>1. MInv => MergedSoFar
  BY DEF MInv
<1> QED
  BY <1>1, InitMInv, StepMInv, PTL DEF Spec

(* A full compaction's output answers every read as its inputs did.        *)
THEOREM CompactionKeepsReads == Spec => []OutputReplacesInputs
<1>1. MInv => OutputReplacesInputs
  BY DEF MInv
<1> QED
  BY <1>1, InitMInv, StepMInv, PTL DEF Spec

-----------------------------------------------------------------------------
(***************************************************************************)
(* The checksum                                                            *)
(***************************************************************************)

(* The n highest bits.                                                     *)
Top(n) == {i \in Bits : i >= 32 - n}

(* Exclusive or is commutative and associative, and 0 its only neutral.    *)
LEMMA XorFacts ==
  ASSUME NEW a, NEW b, NEW c
  PROVE  /\ Xor(a, b) = Xor(b, a)
         /\ Xor(Xor(a, b), c) = Xor(a, Xor(b, c))
         /\ Xor(a, a) = {} /\ Xor(a, {}) = a
         /\ Xor(a, b) = {} => a = b
  BY DEF Xor

(* Shift distributes over exclusive or, and shifts add up.                 *)
LEMMA ShiftFacts ==
  ASSUME NEW a \in Words, NEW b, NEW m \in Nat, NEW n \in Nat
  PROVE  /\ Shift(a, n) \in Words
         /\ Shift(Xor(a, b), n) = Xor(Shift(a, n), Shift(b, n))
         /\ Shift(Shift(a, m), n) = Shift(a, m + n)
  <1>1. Shift(a, n) \in Words
    BY DEF Shift, Words
  <1>2. Shift(Xor(a, b), n) = Xor(Shift(a, n), Shift(b, n))
    BY DEF Shift, Xor
  <1>3. ASSUME NEW i
        PROVE  i \in Shift(Shift(a, m), n) <=> i \in Shift(a, m + n)
    <2>1. i \in Bits => (i + n) + m = i + (m + n)
      BY DEF Bits
    <2>2. i \in Shift(Shift(a, m), n) <=> i \in Bits /\ i + n \in Bits /\ (i + n) + m \in a
      BY DEF Shift
    <2>3. i \in Shift(a, m + n) <=> i \in Bits /\ i + (m + n) \in a
      BY DEF Shift
    <2>4. i \in Bits /\ i + (m + n) \in a => i + n \in Bits
      BY DEF Bits, Words
    <2> QED  BY <2>1, <2>2, <2>3, <2>4
  <1> QED  BY <1>1, <1>2, <1>3

(* One round is linear.                                                    *)
LEMMA HalfLinear ==
  ASSUME NEW a \in Words, NEW b \in Words
  PROVE  Half(a) \in Words /\ Half(Xor(a, b)) = Xor(Half(a), Half(b))
  <1>1. Half(a) \in Words
    <2>1. Shift(a, 1) \in Words /\ Poly \in Words
      BY CrcAssumption, ShiftFacts
    <2>2. Xor(Shift(a, 1), Poly) \in Words
      BY <2>1 DEF Xor, Words
    <2> QED  BY <2>1, <2>2 DEF Half
  <1>2. Shift(Xor(a, b), 1) = Xor(Shift(a, 1), Shift(b, 1))
    BY ShiftFacts
  <1>3. 0 \in Xor(a, b) <=> ~(0 \in a <=> 0 \in b)
    BY DEF Xor
  <1>4. Half(Xor(a, b)) = Xor(Half(a), Half(b))
    <2> DEFINE x == Shift(a, 1)
               y == Shift(b, 1)
    <2>1. /\ Xor(Xor(x, Poly), y) = Xor(Xor(x, y), Poly)
          /\ Xor(x, Xor(y, Poly)) = Xor(Xor(x, y), Poly)
          /\ Xor(Xor(x, Poly), Xor(y, Poly)) = Xor(x, y)
      <3> HIDE DEF x, y
      <3> QED  BY DEF Xor
    <2>2. /\ Half(a) = IF 0 \in a THEN Xor(x, Poly) ELSE x
          /\ Half(b) = IF 0 \in b THEN Xor(y, Poly) ELSE y
          /\ Half(Xor(a, b)) = IF 0 \in Xor(a, b) THEN Xor(Xor(x, y), Poly) ELSE Xor(x, y)
      BY <1>2 DEF Half
    <2> HIDE DEF x, y
    <2> QED  BY <1>3, <2>1, <2>2
  <1> QED  BY <1>1, <1>4

(* Eight rounds are linear.                                                *)
LEMMA TableLinear ==
  ASSUME NEW a \in Words, NEW b \in Words
  PROVE  Table(a) \in Words /\ Table(Xor(a, b)) = Xor(Table(a), Table(b))
  <1> DEFINE P(x, y, z) == x \in Words /\ y \in Words /\ z = Xor(x, y)
  <1>1. \A x, y, z : P(x, y, z) => P(Half(x), Half(y), Half(z))
    BY HalfLinear
  <1>2. P(a, b, Xor(a, b))
    OBVIOUS
  <1> HIDE DEF P
  <1>3. P(Half(Half(Half(Half(a)))), Half(Half(Half(Half(b)))),
          Half(Half(Half(Half(Xor(a, b))))))
    BY <1>1, <1>2
  <1>4. P(Table(a), Table(b), Table(Xor(a, b)))
    BY <1>1, <1>3 DEF Table
  <1> QED  BY <1>4 DEF P

(* The entry of the byte 0.                                                *)
LEMMA TableOfZero == Table({}) = {}
  <1>1. Half({}) = {}
    BY DEF Half, Shift
  <1> QED  BY <1>1 DEF Table

(* A round that clears the top has had no bit to shift in: its word was    *)
(* clear at the bottom.                                                    *)
LEMMA HalfClears ==
  ASSUME NEW w \in Words, NEW m \in 0..7, NEW n \in 0..7,
         Half(w) \cap Top(n + 1) = {}, Half(w) \cap (0..(m - 1)) = {}
  PROVE  w \cap Top(n) = {} /\ w \cap (0..m) = {}
  <1>1. 31 \in Top(n + 1) /\ 31 \notin Shift(w, 1)
    BY DEF Top, Bits, Shift, Words
  <1>2. 0 \notin w
    <2> SUFFICES ASSUME 0 \in w
                 PROVE  FALSE
      OBVIOUS
    <2>1. Half(w) = Xor(Shift(w, 1), Poly)
      BY DEF Half
    <2>2. 31 \in Half(w)
      BY <1>1, <2>1, CrcAssumption DEF Xor
    <2> QED  BY <1>1, <2>2
  <1>3. Half(w) = Shift(w, 1)
    BY <1>2 DEF Half
  <1>4. ASSUME NEW i \in w, i \in Top(n) \/ i \in 0..m
        PROVE  FALSE
    <2>1. i \in Bits /\ i # 0
      BY <1>2, <1>4 DEF Words
    <2>2. i - 1 \in Bits /\ (i - 1) + 1 = i
      BY <2>1 DEF Bits
    <2>3. i - 1 \in Half(w)
      BY <1>3, <2>2, <1>4 DEF Shift
    <2>4. i - 1 \in Top(n + 1) \/ i - 1 \in 0..(m - 1)
      BY <2>1, <2>2, <1>4 DEF Top, Bits
    <2> QED  BY <2>3, <2>4
  <1> QED  BY <1>4

(* The entry of a byte other than 0 has a bit among its eight highest.     *)
LEMMA TableTop ==
  ASSUME NEW b \in ByteWords, b # {}
  PROVE  Table(b) \cap Top(8) # {}
  <1> DEFINE Bare(w, n, m) == w \cap Top(n) = {} /\ w \cap (0..(m - 1)) = {}
  <1> SUFFICES ASSUME Table(b) \cap Top(8) = {}
               PROVE  FALSE
    OBVIOUS
  <1>1. \A w \in Words, n, m \in 0..7 :
          Bare(Half(w), n + 1, m) => Bare(w, n, m + 1)
    BY HalfClears
  <1>2. \A w \in Words : Half(w) \in Words
    BY HalfLinear
  <1>3. b \in Words
    BY DEF ByteWords, Words, Low, Bits
  <1>4. Bare(Table(b), 8, 0)
    OBVIOUS
  <1> HIDE DEF Bare
  <1>5. Bare(Half(Half(Half(Half(b)))), 4, 4)
    <2> DEFINE h == Half(Half(Half(Half(b))))
    <2>1. h \in Words
      BY <1>2, <1>3
    <2>2. Bare(Half(Half(Half(Half(h)))), 8, 0)
      BY <1>4 DEF Table
    <2> HIDE DEF h
    <2>3. Bare(Half(Half(Half(h))), 7, 1)
      BY <1>1, <1>2, <2>1, <2>2
    <2>4. Bare(Half(Half(h)), 6, 2)
      BY <1>1, <1>2, <2>1, <2>3
    <2>5. Bare(Half(h), 5, 3)
      BY <1>1, <1>2, <2>1, <2>4
    <2>6. Bare(h, 4, 4)
      BY <1>1, <1>2, <2>1, <2>5
    <2> QED  BY <2>6 DEF h
  <1>6. Bare(Half(Half(Half(b))), 3, 5)
    BY <1>1, <1>2, <1>3, <1>5
  <1>7. Bare(Half(Half(b)), 2, 6)
    BY <1>1, <1>2, <1>3, <1>6
  <1>8. Bare(Half(b), 1, 7)
    BY <1>1, <1>2, <1>3, <1>7
  <1>9. Bare(b, 0, 8)
    BY <1>1, <1>2, <1>3, <1>8
  <1>10. b \subseteq 0..(8 - 1)
    BY DEF ByteWords, Low
  <1> QED  BY <1>9, <1>10 DEF Bare

(* What a byte for each register makes of their difference.                *)
LEMMA StepDifference ==
  ASSUME NEW v \in Words, NEW w \in Words, NEW b \in ByteWords, NEW c \in ByteWords
  PROVE  LET d == Xor(v, w)
             t == Xor(d, Xor(b, c)) \cap Low
         IN /\ Step(v, b) \in Words /\ Step(w, c) \in Words
            /\ t \in ByteWords
            /\ Xor(Step(v, b), Step(w, c)) = Xor(Shift(d, 8), Table(t))
  <1> DEFINE d == Xor(v, w)
             t == Xor(d, Xor(b, c)) \cap Low
             s == Xor(v, b) \cap Low
             r == Xor(w, c) \cap Low
  <1>1. s \in Words /\ r \in Words /\ t \in ByteWords
    BY DEF Words, Low, Bits, ByteWords
  <1>2. t = Xor(s, r)
    BY DEF Xor
  <1>3. Table(s) \in Words /\ Table(r) \in Words /\ Table(t) = Xor(Table(s), Table(r))
    BY <1>1, <1>2, TableLinear
  <1>4. Shift(d, 8) = Xor(Shift(v, 8), Shift(w, 8))
    BY ShiftFacts
  <1>5. Shift(v, 8) \in Words /\ Shift(w, 8) \in Words
    BY ShiftFacts
  <1>6. Step(v, b) = Xor(Shift(v, 8), Table(s)) /\ Step(w, c) = Xor(Shift(w, 8), Table(r))
    BY DEF Step
  <1> HIDE DEF d, t, s, r
  <1>7. Step(v, b) \in Words /\ Step(w, c) \in Words
    BY <1>3, <1>5, <1>6 DEF Xor, Words
  <1>8. Xor(Step(v, b), Step(w, c)) = Xor(Shift(d, 8), Table(t))
    BY <1>3, <1>4, <1>6 DEF Xor
  <1> QED  BY <1>1, <1>7, <1>8 DEF d, t

(* A step makes a word of a word.                                          *)
LEMMA StepType ==
  ASSUME NEW v \in Words, NEW b \in ByteWords
  PROVE  Step(v, b) \in Words
  <1>1. Step(v, b) \in Words /\ Step(v, b) \in Words
    BY StepDifference
  <1> QED  BY <1>1

(* Rounds on a word whose lower bits are 0 shift it.                       *)
LEMMA TableOfHigh ==
  ASSUME NEW h \in Words, h \cap Low = {}
  PROVE  Table(h) = Shift(h, 8)
  <1>1. \A n \in 0..7 : Half(Shift(h, n)) = Shift(h, n + 1)
    <2> SUFFICES ASSUME NEW n \in 0..7
                 PROVE  Half(Shift(h, n)) = Shift(h, n + 1)
      OBVIOUS
    <2>1. 0 \notin Shift(h, n)
      BY DEF Shift, Low
    <2>2. Half(Shift(h, n)) = Shift(Shift(h, n), 1)
      BY <2>1 DEF Half
    <2> QED  BY <2>2, ShiftFacts
  <1>2. h = Shift(h, 0)
    <2>1. \A i \in Bits : i + 0 = i
      BY DEF Bits
    <2> QED  BY <2>1 DEF Shift, Words
  <1> HIDE DEF Table
  <1>3. Half(Half(Half(Half(h)))) = Shift(h, 4)
    BY <1>1, <1>2
  <1>4. Half(Half(Half(Half(Shift(h, 4))))) = Shift(h, 8)
    BY <1>1
  <1> QED  BY <1>3, <1>4 DEF Table

(* Step is eight rounds on the register and the byte.                      *)
LEMMA StepIsRounds ==
  ASSUME NEW w \in Words, NEW b \in ByteWords
  PROVE  Step(w, b) = Table(Xor(w, b))
  <1> DEFINE u == Xor(w, b)
             h == u \ Low
             l == u \cap Low
  <1>1. u \in Words /\ h \in Words /\ l \in Words
    BY DEF Xor, Words, ByteWords, Low, Bits
  <1>2. u = Xor(h, l) /\ h \cap Low = {}
    BY DEF Xor
  <1>3. Shift(h, 8) = Shift(w, 8)
    <2>1. \A i \in Bits : i + 8 \notin Low
      BY DEF Bits, Low
    <2>2. \A i \in Bits : i + 8 \in h <=> i + 8 \in w
      BY <2>1 DEF Xor, ByteWords
    <2> HIDE DEF h
    <2> QED  BY <2>2 DEF Shift
  <1>4. Step(w, b) = Xor(Shift(w, 8), Table(l))
    BY DEF Step
  <1> HIDE DEF u, h, l
  <1>5. Table(u) = Xor(Table(h), Table(l)) /\ Table(h) = Shift(h, 8)
    BY <1>1, <1>2, TableLinear, TableOfHigh
  <1> QED  BY <1>3, <1>4, <1>5 DEF u

(* Bringing in the bits of a byte one at a time does the same: x(i) is the *)
(* register with the bits that have still to come in added to it.          *)
LEMMA DivideIsRounds ==
  ASSUME NEW w \in Words, NEW b \in ByteWords
  PROVE  Divide(w, b) = Table(Xor(w, b))
  <1> DEFINE In(v, i) == Half(Xor(v, IF i \in b THEN {0} ELSE {}))
             Q(v, i) == v \in Words
             x(v, i) == Xor(v, Shift(b, i))
  <1>1. ASSUME NEW v \in Words, NEW i \in 0..7
        PROVE  In(v, i) \in Words /\ Half(x(v, i)) = x(In(v, i), i + 1)
    <2> DEFINE bit == IF i \in b THEN {0} ELSE {}
               rest == Shift(b, i) \ {0}
    <2>1. 0 \in Shift(b, i) <=> i \in b
      BY DEF Shift, Bits
    <2>2. x(v, i) = Xor(Xor(v, bit), rest)
      BY <2>1 DEF Xor
    <2>3. Xor(v, bit) \in Words /\ rest \in Words
      BY DEF Xor, Words, Bits, Shift
    <2>4. Half(rest) = Shift(rest, 1)
      BY DEF Half
    <2>5. Shift(rest, 1) = Shift(Shift(b, i), 1)
      BY DEF Shift, Bits
    <2>6. b \in Words
      BY DEF ByteWords, Words, Low, Bits
    <2>7. Shift(Shift(b, i), 1) = Shift(b, i + 1)
      BY <2>6, ShiftFacts
    <2> HIDE DEF bit, rest
    <2>8. Half(x(v, i)) = Xor(Half(Xor(v, bit)), Half(rest)) /\ Half(Xor(v, bit)) \in Words
      BY <2>2, <2>3, HalfLinear
    <2> QED  BY <2>4, <2>5, <2>7, <2>8 DEF bit
  <1>2. b = Shift(b, 0) /\ Shift(b, 8) = {}
    <2>1. \A i \in Bits : i + 0 = i /\ i + 8 \notin Low
      BY DEF Bits, Low
    <2>2. b \subseteq Bits /\ b \subseteq Low
      BY DEF ByteWords, Low, Bits
    <2> QED  BY <2>1, <2>2 DEF Shift
  <1>3. Divide(w, b) = In(In(In(In(In(In(In(In(w, 0), 1), 2), 3), 4), 5), 6), 7)
    BY DEF Divide
  <1>4. Xor(w, b) = x(w, 0) /\ \A v : x(v, 8) = v
    BY <1>2 DEF Xor
  <1> HIDE DEF In, x
  <1> DEFINE v4 == In(In(In(In(w, 0), 1), 2), 3)
  <1>5. v4 \in Words /\ Half(Half(Half(Half(x(w, 0))))) = x(v4, 4)
    BY <1>1
  <1> HIDE DEF v4
  <1>6. Half(Half(Half(Half(x(v4, 4))))) = x(In(In(In(In(v4, 4), 5), 6), 7), 8)
    BY <1>1, <1>5
  <1> QED  BY <1>3, <1>4, <1>5, <1>6 DEF Table, v4

-----------------------------------------------------------------------------
(* The registers are words.                                                *)
Types ==
  /\ crc \in Words /\ other \in Words
  /\ burst \in 0..4 /\ over \in BOOLEAN

(* While a burst of k bytes goes on, the registers differ in one of their  *)
(* 8k highest bits; after it they differ somewhere.                        *)
CInv ==
  /\ Types
  /\ burst = 0 => crc = other /\ ~over
  /\ burst > 0 /\ ~over => Xor(crc, other) \cap Top(8 * burst) # {}
  /\ over => burst > 0 /\ Xor(crc, other) # {}

(* Equal bytes do not make different registers equal.                      *)
LEMMA SameKeepsDifference ==
  ASSUME NEW v \in Words, NEW w \in Words, NEW b \in ByteWords, v # w
  PROVE  Xor(Step(v, b), Step(w, b)) # {}
  <1> DEFINE d == Xor(v, w)
             t == Xor(d, Xor(b, b)) \cap Low
  <1>1. t \in ByteWords /\ Xor(Step(v, b), Step(w, b)) = Xor(Shift(d, 8), Table(t))
    BY StepDifference
  <1>2. d # {} /\ d \subseteq Bits
    BY DEF Xor, Words
  <1>3. t = d \cap Low
    BY DEF Xor
  <1> HIDE DEF d, t
  <1>4. CASE t # {}
    <2>1. PICK i : i \in Table(t) \cap Top(8)
      BY <1>1, <1>4, TableTop
    <2>2. i \notin Shift(d, 8)
      BY <1>2, <2>1 DEF Top, Shift, Bits
    <2> QED  BY <1>1, <2>1, <2>2 DEF Xor
  <1>5. CASE t = {}
    <2>1. PICK i : i \in d /\ i \in Bits /\ i \notin Low
      BY <1>2, <1>3, <1>5
    <2>2. i - 8 \in Shift(d, 8)
      BY <2>1 DEF Bits, Low, Shift
    <2> QED  BY <1>1, <1>5, <2>2, TableOfZero DEF Xor
  <1> QED  BY <1>4, <1>5

(* A burst of at most four bytes keeps the difference in its highest bits. *)
LEMMA BurstKeepsDifference ==
  ASSUME NEW v \in Words, NEW w \in Words, NEW b \in ByteWords, NEW c \in ByteWords,
         NEW k \in 0..3,
         k = 0 => v = w /\ b # c,
         k > 0 => Xor(v, w) \cap Top(8 * k) # {}
  PROVE  Xor(Step(v, b), Step(w, c)) \cap Top(8 * (k + 1)) # {}
  <1> DEFINE d == Xor(v, w)
             t == Xor(d, Xor(b, c)) \cap Low
  <1>1. t \in ByteWords /\ Xor(Step(v, b), Step(w, c)) = Xor(Shift(d, 8), Table(t))
    BY StepDifference
  <1>2. d \subseteq Bits
    BY DEF Xor, Words
  <1>3. k = 0 => t # {}
    BY DEF Xor, ByteWords
  <1> HIDE DEF t
  <1>4. CASE t # {}
    <2>1. PICK i : i \in Table(t) \cap Top(8)
      BY <1>1, <1>4, TableTop
    <2>2. i \notin Shift(d, 8)
      BY <1>2, <2>1 DEF Top, Shift, Bits
    <2>3. i \in Top(8 * (k + 1))
      BY <2>1 DEF Top, Bits
    <2> QED  BY <1>1, <2>1, <2>2, <2>3 DEF Xor
  <1>5. CASE t = {}
    <2>1. k > 0
      BY <1>3, <1>5
    <2>2. PICK i : i \in d \cap Top(8 * k)
      BY <2>1
    <2>3. i \in Bits /\ i >= 32 - 8 * k
      BY <2>2 DEF Top
    <2>4. i - 8 \in Shift(d, 8) /\ i - 8 \in Top(8 * (k + 1))
      BY <2>2, <2>3 DEF Bits, Shift, Top
    <2> QED  BY <1>1, <1>5, <2>4, TableOfZero DEF Xor
  <1> QED  BY <1>4, <1>5

(* CInv is inductive.                                                      *)
LEMMA CInvInductive == CInv /\ [CrcNext]_crcVars => CInv'
  <1> SUFFICES ASSUME CInv, [CrcNext]_crcVars
               PROVE  CInv'
    OBVIOUS
  <1>1. Alphabet \subseteq ByteWords
    BY CrcAssumption
  <1>2. CASE Same
    <2>1. PICK b \in Alphabet : Feed(b, b)
      BY <1>2 DEF Same
    <2>2. /\ crc' = Step(crc, b) /\ other' = Step(other, b)
          /\ burst' = burst /\ over' = (burst > 0)
      BY <1>2, <2>1 DEF Same, Feed
    <2>3. Types'
      BY <1>1, <2>2, StepType DEF CInv, Types
    <2>4. CASE burst = 0
      BY <2>2, <2>3, <2>4 DEF CInv, Types
    <2>5. CASE burst > 0
      <3>1. crc # other
        BY <2>5, XorFacts DEF CInv, Types
      <3>2. Xor(crc', other') # {}
        BY <1>1, <2>2, <3>1, SameKeepsDifference DEF CInv, Types
      <3>3. over' = TRUE /\ burst' > 0
        BY <2>2, <2>5
      <3> QED  BY <2>3, <3>2, <3>3 DEF CInv, Types
    <2> QED  BY <2>4, <2>5 DEF CInv, Types
  <1>3. CASE Differ
    <2>1. PICK b \in Alphabet, c \in Alphabet : (burst = 0 => b # c) /\ Feed(b, c)
      BY <1>3 DEF Differ
    <2>2. /\ crc' = Step(crc, b) /\ other' = Step(other, c)
          /\ burst' = burst + 1 /\ over' = over /\ ~over /\ burst \in 0..3
      BY <1>3, <2>1 DEF Differ, Feed, CInv, Types
    <2>3. Types'
      BY <1>1, <2>2, StepType DEF CInv, Types
    <2>4. Xor(crc', other') \cap Top(8 * (burst + 1)) # {}
      BY <1>1, <2>1, <2>2, BurstKeepsDifference DEF CInv, Types
    <2> QED  BY <2>2, <2>3, <2>4 DEF CInv
  <1>4. CASE UNCHANGED crcVars
    BY <1>4 DEF crcVars, CInv, Types
  <1> QED  BY <1>2, <1>3, <1>4 DEF CrcNext

(* No burst of damaged bytes that spans at most four passes the check,     *)
(* whatever the bytes around it, their number, and the polynomial, as long *)
(* as its top bit is set.                                                  *)
THEOREM ShortBurstsAreSeen == CrcSpec => []BurstIsSeen
  <1>1. CrcInit => CInv
    <2> SUFFICES ASSUME CrcInit
                 PROVE  CInv
      OBVIOUS
    <2>1. Ones \in Words
      BY DEF Ones, Words
    <2>2. crc \in Words /\ other \in Words /\ burst = 0 /\ over = FALSE
      BY <2>1 DEF CrcInit
    <2>3. over \in BOOLEAN
      BY <2>2
    <2>4. burst \in 0..4
      BY <2>2
    <2>5. Types
      BY <2>2, <2>3, <2>4, Zenon DEF Types
    <2> QED  BY <2>2, <2>5 DEF CInv, CrcInit
  <1>2. CInv => BurstIsSeen
    <2> SUFFICES ASSUME CInv, burst > 0
                 PROVE  Final(crc) # Final(other)
      BY DEF BurstIsSeen
    <2>1. crc # other
      BY XorFacts DEF CInv, Types
    <2> QED  BY <2>1 DEF Final, Xor
  <1> QED  BY <1>1, <1>2, CInvInductive, PTL DEF CrcSpec

(* The table computes the division of the stream by the polynomial.        *)
THEOREM TableIsDivision == CrcSpec => []TableIsShortcut
  <1> DEFINE DInv == crc \in Words /\ crc = serial
  <1>1. CrcInit => DInv
    BY DEF CrcInit, Ones, Words
  <1>2. DInv /\ [CrcNext]_crcVars => DInv'
    <2> SUFFICES ASSUME DInv, [CrcNext]_crcVars
                 PROVE  DInv'
      OBVIOUS
    <2>1. ASSUME NEW b \in Alphabet, NEW c \in Alphabet, Feed(b, c)
          PROVE  DInv'
      <3>1. b \in ByteWords
        BY CrcAssumption
      <3>2. crc' = Step(crc, b) /\ serial' = Divide(serial, b)
        BY <2>1 DEF Feed
      <3>3. Step(crc, b) = Divide(crc, b) /\ Step(crc, b) \in Words
        BY <3>1, StepType, StepIsRounds, DivideIsRounds
      <3> QED  BY <3>2, <3>3
    <2>2. CASE UNCHANGED crcVars
      BY <2>2 DEF crcVars
    <2> QED  BY <2>1, <2>2 DEF CrcNext, Same, Differ
  <1>3. DInv => TableIsShortcut
    BY DEF TableIsShortcut
  <1> QED  BY <1>1, <1>2, <1>3, PTL DEF CrcSpec

-----------------------------------------------------------------------------
(***************************************************************************)
(* The text of the marker                                                  *)
(***************************************************************************)

(* The lines up to b that give an output, or an old segment.               *)
LinesUpTo(b, f) == {i \in 2..b : file[i] \in Fields /\ file[i].field = f}

(* What the lines before next have been read as.                           *)
ReadInv ==
  /\ old \in SUBSET Gens
  /\ \A i \in 2..(next - 1) : file[i] \in Fields \cup {Blank}
  /\ outputGen = NoGen => LinesUpTo(next - 1, "output") = {}
  /\ outputGen # NoGen =>
       \E i \in 2..(next - 1) :
         /\ LinesUpTo(next - 1, "output") = {i}
         /\ file[i].gen = outputGen /\ outputGen \in Gens
  /\ \A i \in LinesUpTo(next - 1, "old") : file[i].gen \in old
  /\ \A g \in old : \E i \in LinesUpTo(next - 1, "old") : file[i].gen = g
  /\ \A i, j \in LinesUpTo(next - 1, "old") : file[i].gen = file[j].gen => i = j

(* What the store wrote is one of the texts that denote what it meant.     *)
FileInv ==
  /\ file \in Seq(Lines)
  /\ written # NoMarker => written \in Denoted

TextInv ==
  /\ FileInv
  /\ next \in 1..(Len(file) + 1)
  /\ outcome \in {"reading", "accepted", "refused"}
  /\ outcome = "reading" =>
       IF next = 1
       THEN outputGen = NoGen /\ old = {}
       ELSE file[1] = Magic /\ ReadInv
  /\ ReadsByForm

-----------------------------------------------------------------------------
LEMMA MarkerKinds ==
  /\ Magic \notin Fields /\ Magic # Blank /\ Junk \notin Fields /\ Junk # Blank
  /\ Blank \notin Fields /\ NaN \notin Gens /\ NoGen \notin Gens
BY MarkerAssumption

LEMMA FileIs ==
  ASSUME FileInv
  PROVE  /\ Len(file) \in Nat /\ DOMAIN file = 1..Len(file)
         /\ file # <<>> => Len(file) >= 1
<1>1. file \in Seq(Lines)
  BY DEF FileInv
<1>2. file # <<>> => Len(file) \in Nat \ {0}
  BY <1>1, EmptySeq
<1> QED
  BY <1>1, <1>2, LenProperties

(* The lines of one kind are finitely many, and none is the header.        *)
LEMMA LinesAre ==
  ASSUME FileInv, file # <<>> => file[1] = Magic, NEW f
  PROVE  LinesFor(f) = LinesUpTo(Len(file), f) /\ IsFiniteSet(LinesFor(f))
<1>1. Len(file) \in Nat /\ DOMAIN file = 1..Len(file)
  BY FileIs
<1>2. 1 \in 1..Len(file) => file # <<>>
  <2>1. DOMAIN <<>> = {}
    OBVIOUS
  <2> QED
    BY <1>1, <2>1
<1>3. LinesFor(f) = LinesUpTo(Len(file), f)
  BY <1>1, <1>2, MarkerKinds DEF LinesFor, LinesUpTo
<1>4. IsFiniteSet(1..Len(file))
  BY <1>1, FS_Interval
<1>5. LinesFor(f) \in SUBSET (1..Len(file))
  BY <1>1 DEF LinesFor
<1> QED
  BY <1>3, <1>4, <1>5, FS_Subset

(* What can be told of a text that denotes a marker.                       *)
LEMMA DenotedIs ==
  ASSUME FileInv, NEW m \in Denoted
  PROVE  /\ m \in Markers /\ WellFormed(m)
         /\ file # <<>> /\ file[1] = Magic
         /\ \A i \in 2..Len(file) : file[i] \in Fields \cup {Blank}
         /\ \E i \in 2..Len(file) :
              LinesUpTo(Len(file), "output") = {i} /\ file[i].gen = m.output
         /\ m.old = {file[i].gen : i \in LinesUpTo(Len(file), "old")}
         /\ \A i, j \in LinesUpTo(Len(file), "old") : file[i].gen = file[j].gen => i = j
<1>1. /\ m \in Markers /\ WellFormed(m)
      /\ file # <<>> /\ file[1] = Magic
      /\ \A i \in 2..Len(file) : file[i] \in Fields \cup {Blank}
      /\ Cardinality(LinesFor("output")) = 1
      /\ \A i \in LinesFor("output") : file[i].gen = m.output
      /\ {file[i].gen : i \in LinesFor("old")} = m.old
      /\ Cardinality(LinesFor("old")) = Cardinality(m.old)
  BY DEF Denoted
<1>2. /\ LinesFor("output") = LinesUpTo(Len(file), "output") /\ IsFiniteSet(LinesFor("output"))
      /\ LinesFor("old") = LinesUpTo(Len(file), "old") /\ IsFiniteSet(LinesFor("old"))
  BY <1>1, LinesAre
<1>3. PICK i : LinesFor("output") = {i}
  BY <1>1, <1>2, FS_Singleton
<1>4. i \in 2..Len(file) /\ file[i].gen = m.output
  BY <1>1, <1>2, <1>3 DEF LinesUpTo
<1>5. ASSUME NEW a \in LinesFor("old"), NEW b \in LinesFor("old"),
             file[a].gen = file[b].gen
      PROVE  a = b
  <2> DEFINE L == LinesFor("old")
             h == [x \in L |-> file[x].gen]
  <2>1. h \in Surjection(L, m.old)
    BY <1>1 DEF Surjection
  <2>2. IsFiniteSet(L) /\ Cardinality(m.old) = Cardinality(L)
    BY <1>1, <1>2
  <2> HIDE DEF L
  <2>3. h \in Injection(L, m.old)
    <3> HIDE DEF h
    <3> QED
      BY <2>1, <2>2, FS_Surjection
  <2>4. a \in L /\ b \in L /\ h[a] = h[b]
    BY <1>5 DEF L
  <2> QED
    BY <2>3, <2>4 DEF Injection, IsInjective
<1> QED
  BY <1>1, <1>2, <1>3, <1>4, <1>5

(* And conversely.                                                         *)
LEMMA Denotes ==
  ASSUME Len(file) \in Nat, DOMAIN file = 1..Len(file), NEW m \in Markers, WellFormed(m),
         file # <<>>, file[1] = Magic,
         \A i \in 2..Len(file) : file[i] \in Fields \cup {Blank},
         NEW o \in 2..Len(file), LinesUpTo(Len(file), "output") = {o},
         file[o].gen = m.output,
         {file[i].gen : i \in LinesUpTo(Len(file), "old")} = m.old,
         \A i, j \in LinesUpTo(Len(file), "old") : file[i].gen = file[j].gen => i = j
  PROVE  m \in Denoted
<1> DEFINE L == LinesUpTo(Len(file), "old")
           h == [x \in L |-> file[x].gen]
<1>1. LinesFor("output") = {o} /\ LinesFor("old") = L
  BY MarkerKinds DEF LinesFor, LinesUpTo
<1>2. Cardinality(LinesFor("output")) = 1
  BY <1>1, FS_Singleton
<1>3. IsFiniteSet(L)
  <2>1. IsFiniteSet(1..Len(file)) /\ L \in SUBSET (1..Len(file))
    BY FS_Interval DEF LinesUpTo
  <2> QED
    BY <2>1, FS_Subset
<1>4. h \in Bijection(L, m.old)
  <2>1. h \in [L -> m.old]
    OBVIOUS
  <2>2. \A a, b \in L : h[a] = h[b] => a = b
    OBVIOUS
  <2>3. \A g \in m.old : \E a \in L : h[a] = g
    OBVIOUS
  <2> QED
    BY <2>1, <2>2, <2>3 DEF Bijection, Injection, Surjection, IsInjective
<1>5. Cardinality(m.old) = Cardinality(L)
  <2> HIDE DEF h, L
  <2>1. ExistsBijection(L, m.old)
    BY <1>4 DEF ExistsBijection
  <2> QED
    BY <1>3, <2>1, FS_Bijection
<1> QED
  BY <1>1, <1>2, <1>5 DEF Denoted

LEMMA GensAreNumbers == Gens \subseteq Nat
BY MarkerAssumption

(* The text that the store writes denotes what it meant.                   *)
LEMMA WrittenDenotes ==
  ASSUME NEW m \in Markers, WellFormed(m), file \in Written(m)
  PROVE  file \in Seq(Lines) /\ m \in Denoted
<1> DEFINE c == Cardinality(m.old)
<1>1. m.output \in Gens /\ m.old \subseteq Gens /\ (\A g \in m.old : g < m.output) /\ c >= 2
  BY DEF WellFormed, Markers
<1>2. IsFiniteSet(m.old)
  <2>1. m.old \subseteq Nat /\ m.output \in Nat
    BY <1>1, GensAreNumbers
  <2>2. \A g \in m.old : g <= m.output
    BY <1>1, <2>1
  <2> QED
    BY <2>1, <2>2, FS_BoundedSetOfNaturals
<1>3. c \in Nat
  BY <1>2, FS_CardinalityType
<1>4. PICK l \in [1..c -> m.old] :
         /\ \A i, j \in 1..c : i < j => l[i] > l[j]
         /\ file = <<Magic, Field("output", m.output)>> \o [i \in 1..c |-> Field("old", l[i])]
  <2>1. PICK l \in {s \in [1..c -> m.old] : \A i, j \in DOMAIN s : i < j => s[i] > s[j]} :
           file = <<Magic, Field("output", m.output)>> \o [i \in DOMAIN l |-> Field("old", l[i])]
    BY DEF Written
  <2>2. DOMAIN l = 1..c
    OBVIOUS
  <2> QED
    BY <2>1, <2>2
<1> DEFINE t == [i \in 1..c |-> Field("old", l[i])]
           a == <<Magic, Field("output", m.output)>>
<1>5. /\ a \in Seq(Lines) /\ Len(a) = 2 /\ a[1] = Magic /\ a[2] = Field("output", m.output)
  BY <1>1 DEF Lines, Fields, Field
<1>6. /\ t \in Seq(Lines) /\ Len(t) = c /\ \A i \in 1..c : t[i] = Field("old", l[i])
  <2>1. \A i \in 1..c : Field("old", l[i]) \in Lines
    BY <1>1 DEF Lines, Fields, Field
  <2>2. t \in [1..c -> Lines]
    BY <2>1
  <2> QED
    BY <1>3, <2>2
<1> HIDE DEF a, t, c
<1>7. /\ file \in Seq(Lines) /\ Len(file) = c + 2
      /\ \A i \in 1..(c + 2) : file[i] = IF i <= 2 THEN a[i] ELSE t[i - 2]
  <2>1. /\ a \o t \in Seq(Lines) /\ Len(a \o t) = Len(a) + Len(t)
        /\ \A i \in 1..(Len(a) + Len(t)) : (a \o t)[i] = IF i <= Len(a) THEN a[i] ELSE t[i - Len(a)]
    BY <1>5, <1>6, ConcatProperties
  <2> QED
    BY <1>3, <1>4, <1>5, <1>6, <2>1 DEF a, t
<1>8. /\ file[1] = Magic /\ file[2] = Field("output", m.output)
      /\ \A i \in 3..(c + 2) : i - 2 \in 1..c /\ file[i] = Field("old", l[i - 2])
  BY <1>3, <1>5, <1>6, <1>7
<1>9. /\ Field("output", m.output) \in Fields
      /\ Field("output", m.output).field = "output"
      /\ Field("output", m.output).gen = m.output
      /\ \A i \in 1..c : /\ Field("old", l[i]) \in Fields
                         /\ Field("old", l[i]).field = "old"
                         /\ Field("old", l[i]).gen = l[i]
  BY <1>1 DEF Fields, Field
<1>10. /\ file[2] \in Fields /\ file[2].field = "output" /\ file[2].gen = m.output
       /\ \A i \in 3..(c + 2) : /\ file[i] \in Fields /\ file[i].field = "old"
                               /\ file[i].gen = l[i - 2]
  BY <1>8, <1>9
<1>11. 2..Len(file) = {2} \cup 3..(c + 2) /\ 2 \notin 3..(c + 2)
  BY <1>3, <1>7
<1>12. LinesUpTo(Len(file), "output") = {2} /\ LinesUpTo(Len(file), "old") = 3..(c + 2)
  BY <1>10, <1>11 DEF LinesUpTo
<1>13. \A i, j \in 1..c : l[i] = l[j] => i = j
  <2> SUFFICES ASSUME NEW i \in 1..c, NEW j \in 1..c, l[i] = l[j], i # j
               PROVE  FALSE
    OBVIOUS
  <2>1. l[i] \in Nat /\ l[j] \in Nat
    BY <1>1, GensAreNumbers
  <2>2. i < j \/ j < i
    BY <1>3
  <2>3. l[i] > l[j] \/ l[j] > l[i]
    BY <1>4, <2>2
  <2> QED
    BY <2>1, <2>3
<1>14. \A g \in m.old : \E i \in 1..c : l[i] = g
  <2>1. l \in Injection(1..c, m.old)
    BY <1>13 DEF Injection, IsInjective
  <2>2. IsFiniteSet(1..c) /\ Cardinality(1..c) = c
    BY <1>3, FS_Interval
  <2>3. l \in Surjection(1..c, m.old)
    BY <1>2, <2>1, <2>2, FS_Injection DEF c
  <2> QED
    BY <2>3 DEF Surjection
<1>15. {file[i].gen : i \in LinesUpTo(Len(file), "old")} = m.old
  <2>1. \A i \in 3..(c + 2) : l[i - 2] \in m.old
    BY <1>8
  <2>2. \A i \in 1..c : i + 2 \in 3..(c + 2) /\ (i + 2) - 2 = i
    BY <1>3
  <2> QED
    <3>1. \A i \in 3..(c + 2) : file[i].gen \in m.old
      BY <1>10, <2>1
    <3>2. ASSUME NEW g \in m.old
          PROVE  \E i \in 3..(c + 2) : file[i].gen = g
      <4>1. PICK i \in 1..c : l[i] = g
        BY <1>14
      <4>2. file[i + 2].gen = l[(i + 2) - 2]
        BY <1>10, <2>2
      <4> QED
        BY <2>2, <4>1, <4>2
    <3>3. {file[i].gen : i \in 3..(c + 2)} \subseteq m.old
      BY <3>1
    <3>4. m.old \subseteq {file[i].gen : i \in 3..(c + 2)}
      BY <3>2
    <3>5. {file[i].gen : i \in 3..(c + 2)} = m.old
      BY <3>3, <3>4
    <3> QED
      BY <1>12, <3>5
<1>16. \A i, j \in LinesUpTo(Len(file), "old") : file[i].gen = file[j].gen => i = j
  <2>1. ASSUME NEW i \in 3..(c + 2), NEW j \in 3..(c + 2), file[i].gen = file[j].gen
        PROVE  i = j
    <3>1. l[i - 2] = l[j - 2]
      BY <1>10, <2>1
    <3>2. i - 2 = j - 2
      BY <1>8, <1>13, <3>1
    <3> QED
      BY <1>3, <3>2
  <2> QED
    BY <1>12, <2>1
<1>17. Len(file) \in Nat /\ DOMAIN file = 1..Len(file) /\ file # <<>> /\ 2 \in 2..Len(file)
  BY <1>3, <1>7
<1> QED
  BY <1>7, <1>8, <1>10, <1>11, <1>12, <1>15, <1>16, <1>17, Denotes

-----------------------------------------------------------------------------
(* The steps *)

(* A text whose last line has been read, and is right, denotes what was    *)
(* read and nothing else.                                                  *)
LEMMA ReadToTheEnd ==
  ASSUME TextInv, outcome = "reading", next > 1, next > Len(file), Complete
  PROVE  Denoted = {[output |-> outputGen, old |-> old]}
<1> DEFINE n == Len(file)
           m == [output |-> outputGen, old |-> old]
<1>1. /\ FileInv /\ n \in Nat /\ DOMAIN file = 1..n /\ next = n + 1 /\ n >= 1
      /\ file[1] = Magic /\ ReadInv /\ outputGen # NoGen
  BY FileIs DEF TextInv, Complete
<1>2. /\ old \subseteq Gens /\ next - 1 = n
      /\ \A i \in 2..n : file[i] \in Fields \cup {Blank}
      /\ \A i \in LinesUpTo(n, "old") : file[i].gen \in old
      /\ \A g \in old : \E i \in LinesUpTo(n, "old") : file[i].gen = g
      /\ \A i, j \in LinesUpTo(n, "old") : file[i].gen = file[j].gen => i = j
  BY <1>1 DEF ReadInv
<1>3. PICK o \in 2..n : LinesUpTo(n, "output") = {o} /\ file[o].gen = outputGen
                      /\ outputGen \in Gens
  BY <1>1 DEF ReadInv
<1>4. {file[i].gen : i \in LinesUpTo(n, "old")} = old
  BY <1>2
<1>5. m \in Markers /\ WellFormed(m) /\ m.output = outputGen /\ m.old = old
  BY <1>2, <1>3 DEF Markers, WellFormed, Complete
<1>6. file # <<>>
  BY <1>1
<1>7. m \in Denoted
  BY <1>1, <1>2, <1>3, <1>4, <1>5, <1>6, Denotes
<1>8. ASSUME NEW d \in Denoted
      PROVE  d = m
  <2>1. /\ d \in Markers /\ d.old = {file[i].gen : i \in LinesUpTo(n, "old")}
        /\ \E i \in 2..n : LinesUpTo(n, "output") = {i} /\ file[i].gen = d.output
    BY <1>1, DenotedIs
  <2>2. d.output = outputGen /\ d.old = old
    BY <1>3, <1>4, <2>1
  <2> QED
    BY <2>1, <2>2 DEF Markers
<1> QED
  BY <1>7, <1>8

(* A text that is refused denotes nothing.                                 *)
LEMMA RefusedDenotesNothing ==
  ASSUME TextInv, MarkerNext, outcome' = "refused"
  PROVE  Denoted = {}
<1> DEFINE n == Len(file)
<1> SUFFICES ASSUME NEW d \in Denoted PROVE FALSE
  OBVIOUS
<1>1. outcome = "reading"
  BY DEF MarkerNext, ReadHeader, SkipBlank, ReadOutput, ReadOld, RefuseUnknown, Line, Finish
<1>2. /\ FileInv /\ n \in Nat /\ DOMAIN file = 1..n /\ next \in 1..(n + 1)
      /\ next > 1 => ReadInv
  BY <1>1, FileIs DEF TextInv
<1>3. /\ d \in Markers /\ WellFormed(d)
      /\ file # <<>> /\ file[1] = Magic
      /\ \A i \in 2..n : file[i] \in Fields \cup {Blank}
      /\ d.old = {file[i].gen : i \in LinesUpTo(n, "old")}
      /\ \A i, j \in LinesUpTo(n, "old") : file[i].gen = file[j].gen => i = j
  BY <1>2, DenotedIs
<1>4. PICK o \in 2..n : LinesUpTo(n, "output") = {o} /\ file[o].gen = d.output
  BY <1>2, DenotedIs
<1>5. d.output \in Gens /\ d.old \subseteq Gens /\ d.output # NoGen /\ NaN \notin Gens
  BY <1>3, MarkerKinds DEF WellFormed, Markers
<1>6. CASE ReadHeader
  BY <1>1, <1>3, <1>6 DEF ReadHeader, TakeLine
<1>7. CASE SkipBlank
  BY <1>1, <1>7 DEF SkipBlank, TakeLine
<1>8. CASE ReadOutput
  <2>1. PICK l \in Fields : /\ l.field = "output" /\ Line(l)
                            /\ outputGen # NoGen \/ l.gen = NaN
    BY <1>1, <1>8 DEF ReadOutput, TakeLine
  <2>2. next > 1 /\ next <= n /\ file[next] = l
    BY <2>1 DEF Line
  <2>3. next \in LinesUpTo(n, "output")
    BY <1>2, <2>1, <2>2 DEF LinesUpTo
  <2>4. file[next].gen # NaN
    BY <1>4, <1>5, <2>3
  <2>5. outputGen # NoGen
    BY <2>1, <2>2, <2>4
  <2>6. PICK i \in 2..(next - 1) : LinesUpTo(next - 1, "output") = {i}
    BY <1>2, <2>2, <2>5 DEF ReadInv
  <2>7. i \in LinesUpTo(n, "output") /\ i # next
    BY <1>2, <2>2, <2>6 DEF LinesUpTo
  <2> QED
    BY <1>4, <2>3, <2>7
<1>9. CASE ReadOld
  <2>1. PICK l \in Fields : /\ l.field = "old" /\ Line(l)
                            /\ l.gen = NaN \/ l.gen \in old
    BY <1>1, <1>9 DEF ReadOld, TakeLine
  <2>2. next > 1 /\ next <= n /\ file[next] = l
    BY <2>1 DEF Line
  <2>3. next \in LinesUpTo(n, "old")
    BY <1>2, <2>1, <2>2 DEF LinesUpTo
  <2>4. file[next].gen # NaN
    BY <1>3, <1>5, <2>3
  <2>5. PICK i \in LinesUpTo(next - 1, "old") : file[i].gen = file[next].gen
    BY <1>2, <2>1, <2>2, <2>4 DEF ReadInv
  <2>6. i \in LinesUpTo(n, "old") /\ i # next
    BY <1>2, <2>2, <2>5 DEF LinesUpTo
  <2> QED
    BY <1>3, <2>3, <2>5, <2>6
<1>10. CASE RefuseUnknown
  <2>1. next > 1 /\ next <= n /\ file[next] \in {Junk, Magic}
    BY <1>10 DEF RefuseUnknown, Line
  <2>2. file[next] \in Fields \cup {Blank}
    BY <1>2, <1>3, <2>1
  <2> QED
    BY <2>1, <2>2, MarkerKinds
<1>11. CASE Finish
  <2>1. next > 1 /\ next = n + 1 /\ ~ Complete
    BY <1>1, <1>2, <1>11 DEF Finish
  <2>2. ReadInv /\ next - 1 = n
    BY <1>2, <2>1
  <2>3. outputGen # NoGen
    BY <1>4, <2>2 DEF ReadInv
  <2>4. outputGen = d.output
    BY <1>4, <2>2, <2>3 DEF ReadInv
  <2>5. old = d.old
    BY <1>3, <2>2 DEF ReadInv
  <2> QED
    BY <1>3, <2>1, <2>3, <2>4, <2>5 DEF WellFormed, Complete
<1> QED
  BY <1>6, <1>7, <1>8, <1>9, <1>10, <1>11 DEF MarkerNext

LEMMA InitTextInv == MarkerInit => TextInv
<1> SUFFICES ASSUME MarkerInit PROVE TextInv
  OBVIOUS
<1>1. next = 1 /\ outputGen = NoGen /\ old = {} /\ outcome = "reading"
  BY DEF MarkerInit
<1>2. FileInv
  <2>1. CASE \E m \in Markers :
               WellFormed(m) /\ 0 \notin m.old /\ written = m /\ file \in Written(m)
    BY <2>1, WrittenDenotes DEF FileInv
  <2>2. CASE /\ \E n \in 0..MaxLines : file \in [1..n -> Lines]
             /\ written = NoMarker
    BY <2>2, MarkerAssumption DEF FileInv
  <2> QED
    BY <2>1, <2>2 DEF MarkerInit
<1> QED
  BY <1>1, <1>2, FileIs DEF TextInv, ReadsByForm

(* One more line has been read.                                            *)
LEMMA ReadOneMore ==
  ASSUME FileInv, next \in Nat, next > 1, next <= Len(file), ReadInv,
         SkipBlank \/ ReadOutput \/ ReadOld, outcome' = "reading"
  PROVE  ReadInv' /\ next' = next + 1 /\ UNCHANGED <<file, written>>
<1> DEFINE b == next - 1
<1>1. next' = next + 1 /\ UNCHANGED <<file, written>>
  BY DEF SkipBlank, ReadOutput, ReadOld, TakeLine, Refuse
<1>2. next' - 1 = next /\ 2..next = (2..b) \cup {next} /\ next \notin 2..b
  BY <1>1
<1>3. /\ old \in SUBSET Gens
      /\ \A i \in 2..b : file[i] \in Fields \cup {Blank}
      /\ outputGen = NoGen => LinesUpTo(b, "output") = {}
      /\ outputGen # NoGen =>
           \E i \in 2..b :
             /\ LinesUpTo(b, "output") = {i}
             /\ file[i].gen = outputGen /\ outputGen \in Gens
      /\ \A i \in LinesUpTo(b, "old") : file[i].gen \in old
      /\ \A g \in old : \E i \in LinesUpTo(b, "old") : file[i].gen = g
      /\ \A i, j \in LinesUpTo(b, "old") : file[i].gen = file[j].gen => i = j
  BY DEF ReadInv
<1>4. \A f : LinesUpTo(next, f) =
               IF file[next] \in Fields /\ file[next].field = f
               THEN LinesUpTo(b, f) \cup {next} ELSE LinesUpTo(b, f)
  BY <1>2 DEF LinesUpTo
<1>5. \A f : next \notin LinesUpTo(b, f)
  BY <1>2 DEF LinesUpTo
<1> HIDE DEF b
<1>6. ASSUME /\ old' \in SUBSET Gens
             /\ file[next] \in Fields \cup {Blank}
             /\ outputGen' = NoGen => LinesUpTo(next, "output") = {}
             /\ outputGen' # NoGen =>
                  \E i \in 2..next :
                    /\ LinesUpTo(next, "output") = {i}
                    /\ file[i].gen = outputGen' /\ outputGen' \in Gens
             /\ \A i \in LinesUpTo(next, "old") : file[i].gen \in old'
             /\ \A g \in old' : \E i \in LinesUpTo(next, "old") : file[i].gen = g
             /\ \A i, j \in LinesUpTo(next, "old") : file[i].gen = file[j].gen => i = j
      PROVE  ReadInv'
  <2>1. \A i \in 2..next : file[i] \in Fields \cup {Blank}
    BY <1>2, <1>3, <1>6
  <2>2. file' = file /\ next' - 1 = next
    BY <1>1, <1>2
  <2> QED
    BY <1>6, <2>1, <2>2 DEF ReadInv, LinesUpTo
<1>7. CASE SkipBlank
  <2>1. file[next] = Blank /\ file[next] \notin Fields /\ outputGen' = outputGen /\ old' = old
    BY <1>7, MarkerKinds DEF SkipBlank, Line
  <2>2. \A f : LinesUpTo(next, f) = LinesUpTo(b, f)
    BY <1>4, <2>1
  <2> QED
    BY <1>1, <1>2, <1>3, <1>6, <2>1, <2>2
<1>8. CASE ReadOutput
  <2>1. PICK l \in Fields : /\ l.field = "output" /\ Line(l)
                            /\ outputGen = NoGen /\ l.gen # NaN
                            /\ outputGen' = l.gen /\ old' = old
    BY <1>8 DEF ReadOutput, Refuse
  <2>2. file[next] = l /\ l.gen \in Gens /\ l.gen # NoGen /\ "output" # "old"
    BY <2>1, MarkerKinds DEF Line, Fields
  <2>3. LinesUpTo(next, "output") = {next} /\ LinesUpTo(next, "old") = LinesUpTo(b, "old")
    BY <1>3, <1>4, <2>1, <2>2
  <2>4. next \in 2..next
    BY <1>2
  <2> QED
    BY <1>1, <1>3, <1>6, <2>1, <2>2, <2>3, <2>4
<1>9. CASE ReadOld
  <2>1. PICK l \in Fields : /\ l.field = "old" /\ Line(l)
                            /\ l.gen \notin old /\ l.gen # NaN
                            /\ old' = old \cup {l.gen} /\ outputGen' = outputGen
    BY <1>9 DEF ReadOld, Refuse
  <2>2. file[next] = l /\ l.gen \in Gens /\ "output" # "old"
    BY <2>1, MarkerKinds DEF Line, Fields
  <2>3. /\ LinesUpTo(next, "output") = LinesUpTo(b, "output")
        /\ LinesUpTo(next, "old") = LinesUpTo(b, "old") \cup {next}
    BY <1>4, <2>1, <2>2
  <2>4. \A i \in LinesUpTo(next, "old") : file[i].gen \in old'
    BY <1>3, <2>1, <2>2, <2>3
  <2>5. \A g \in old' : \E i \in LinesUpTo(next, "old") : file[i].gen = g
    BY <1>3, <2>1, <2>2, <2>3
  <2>6. \A i, j \in LinesUpTo(next, "old") : file[i].gen = file[j].gen => i = j
    BY <1>3, <2>1, <2>2, <2>3
  <2>7. outputGen' # NoGen =>
          \E i \in 2..next :
            /\ LinesUpTo(next, "output") = {i}
            /\ file[i].gen = outputGen' /\ outputGen' \in Gens
    BY <1>2, <1>3, <2>1, <2>3
  <2> QED
    BY <1>1, <1>3, <1>6, <2>1, <2>2, <2>3, <2>4, <2>5, <2>6, <2>7
<1> QED
  BY <1>1, <1>7, <1>8, <1>9

LEMMA StepTextInv == TextInv /\ [MarkerNext]_markerVars => TextInv'
<1> SUFFICES ASSUME TextInv, [MarkerNext]_markerVars PROVE TextInv'
  OBVIOUS
<1>1. /\ FileInv /\ Len(file) \in Nat /\ next \in Nat /\ 1 <= next /\ next <= Len(file) + 1
  BY FileIs DEF TextInv
<1>2. UNCHANGED <<file, written>>
  BY DEF MarkerNext, markerVars, ReadHeader, SkipBlank, ReadOutput, ReadOld, RefuseUnknown,
         Finish, TakeLine, Refuse
<1>3. Denoted' = Denoted
  BY <1>2 DEF Denoted, LinesFor
<1>4. FileInv'
  BY <1>1, <1>2, <1>3 DEF FileInv
<1>5. CASE UNCHANGED markerVars
  <2>1. UNCHANGED <<file, next, outputGen, old, outcome, written>>
    BY <1>5 DEF markerVars
  <2>2. ReadInv' <=> ReadInv
    BY <2>1 DEF ReadInv, LinesUpTo
  <2>3. ReadsByForm'
    BY <1>3, <2>1 DEF TextInv, ReadsByForm
  <2> QED
    BY <1>4, <2>1, <2>2, <2>3 DEF TextInv
<1>6. ASSUME MarkerNext, outcome' = "refused"
      PROVE  TextInv'
  <2>1. Denoted = {}
    BY <1>6, RefusedDenotesNothing
  <2>2. next' = next
    BY <1>6 DEF MarkerNext, ReadHeader, SkipBlank, ReadOutput, ReadOld, RefuseUnknown,
         Finish, TakeLine, Refuse, Line
  <2> QED
    BY <1>1, <1>2, <1>3, <1>4, <1>6, <2>1, <2>2 DEF TextInv, ReadsByForm
<1>7. ASSUME Finish, Complete
      PROVE  TextInv'
  <2>1. /\ outcome = "reading" /\ next > 1 /\ next > Len(file) /\ outcome' = "accepted"
        /\ UNCHANGED <<next, outputGen, old>>
    BY <1>7 DEF Finish
  <2>2. Denoted = {[output |-> outputGen, old |-> old]}
    BY <1>7, <2>1, ReadToTheEnd
  <2> QED
    BY <1>1, <1>2, <1>3, <1>4, <2>1, <2>2 DEF TextInv, ReadsByForm
<1>8. ASSUME ReadHeader, outcome' # "refused"
      PROVE  TextInv'
  <2>1. /\ outcome = "reading" /\ next = 1 /\ file # <<>> /\ file[1] = Magic
        /\ next' = 2 /\ outcome' = outcome /\ UNCHANGED <<outputGen, old>>
    BY <1>8 DEF ReadHeader, TakeLine, Refuse
  <2>2. outputGen = NoGen /\ old = {}
    BY <2>1 DEF TextInv
  <2>3. Len(file) >= 1
    BY <1>1, <2>1, FileIs
  <2>4. ReadInv'
    BY <2>1, <2>2 DEF ReadInv, LinesUpTo
  <2> QED
    BY <1>1, <1>2, <1>4, <2>1, <2>3, <2>4 DEF TextInv, ReadsByForm
<1>9. ASSUME SkipBlank \/ ReadOutput \/ ReadOld, outcome' # "refused"
      PROVE  TextInv'
  <2>1. outcome = "reading" /\ next > 1 /\ next <= Len(file) /\ outcome' = "reading"
    BY <1>9 DEF SkipBlank, ReadOutput, ReadOld, Line, TakeLine, Refuse
  <2>2. file[1] = Magic /\ ReadInv
    BY <2>1 DEF TextInv
  <2>3. ReadInv' /\ next' = next + 1
    BY <1>1, <1>9, <2>1, <2>2, ReadOneMore
  <2> QED
    BY <1>1, <1>2, <1>4, <2>1, <2>2, <2>3 DEF TextInv, ReadsByForm
<1>10. ASSUME RefuseUnknown
       PROVE  outcome' = "refused"
  BY <1>10 DEF RefuseUnknown, Refuse
<1>11. ASSUME Finish, ~ Complete
       PROVE  outcome' = "refused"
  BY <1>11 DEF Finish, Refuse
<1> QED
  BY <1>5, <1>6, <1>7, <1>8, <1>9, <1>10, <1>11 DEF MarkerNext

-----------------------------------------------------------------------------
(* read_compaction_marker acts on a text of any length if and only if it   *)
(* has the form of a marker, and then on the one marker that it denotes.   *)
THEOREM MarkersAreReadByForm == MarkerSpec => []ReadsByForm
<1>1. TextInv => ReadsByForm
  BY DEF TextInv
<1> QED
  BY <1>1, InitTextInv, StepTextInv, PTL DEF MarkerSpec

(* What write_compaction_marker wrote is never refused, and reads as what  *)
(* was meant, whatever number of segments it lists.                        *)
THEOREM WrittenMarkersReadBack == MarkerSpec => []WrittenReadsBack
<1>1. TextInv => WrittenReadsBack
  BY DEF TextInv, FileInv, ReadsByForm, WrittenReadsBack
<1> QED
  BY <1>1, InitTextInv, StepTextInv, PTL DEF MarkerSpec

-----------------------------------------------------------------------------
(***************************************************************************)
(* The memtable's count                                                    *)
(***************************************************************************)

(* The sum that TotalSize is, over any entries of a map.                   *)
Total(m, S) == MapThenSumSet(LAMBDA k : EntrySize(k, m[k]), S)

(* The bytes of the entries fit into memory.                               *)
Fits == TotalSize <= MaxSize

(* The count, and what it takes to add it up.                              *)
MemInv ==
  /\ map \in Maps
  /\ IsFiniteSet(Entries)
  /\ approxSize \in Nat
  /\ SizeMatchesEntries

(* Saturating arithmetic is exact where nothing saturates.                 *)
LEMMA Saturating ==
  ASSUME NEW a \in Nat, NEW b \in Nat
  PROVE  /\ SaturatingAdd(a, b) = IF a + b <= MaxSize THEN a + b ELSE MaxSize
         /\ SaturatingSub(a, b) = IF b <= a THEN a - b ELSE 0
<1>1. MaxSize \in Nat
  BY MemtableAssumption
<1>2. a + b <= MaxSize => Min({a + b, MaxSize}) = a + b
  BY <1>1, MinIs
<1>3. MaxSize < a + b => Min({a + b, MaxSize}) = MaxSize
  BY <1>1, MinIs
<1>4. b <= a => Max({a - b, 0}) = a - b
  <2> SUFFICES ASSUME b <= a PROVE Max({a - b, 0}) = a - b
    OBVIOUS
  <2>1. {a - b, 0} \subseteq Nat /\ \A y \in {a - b, 0} : y <= a - b
    OBVIOUS
  <2> QED  BY <2>1, MaxIs
<1>5. a < b => Max({a - b, 0}) = 0
  <2> SUFFICES ASSUME a < b PROVE Max({a - b, 0}) = 0
    OBVIOUS
  <2>1. \A y \in {a - b, 0} : 0 >= y
    OBVIOUS
  <2>2. \A z \in {a - b, 0} : (\A y \in {a - b, 0} : z >= y) => z = 0
    OBVIOUS
  <2> QED  BY <2>1, <2>2 DEF Max
<1> QED  BY <1>1, <1>2, <1>3, <1>4, <1>5 DEF SaturatingAdd, SaturatingSub

(* An entry takes some bytes, a tombstone too.                             *)
LEMMA EntrySizeType ==
  ASSUME NEW k \in Keys, NEW cell \in Cells
  PROVE  EntrySize(k, cell) \in Nat
<1>1. KeyLen[k] \in Nat /\ (IF cell = Tomb THEN 0 ELSE ValLen[cell]) \in Nat
      /\ Overhead \in Nat /\ MaxSize \in Nat
  BY MemtableAssumption DEF Cells
<1> DEFINE l == IF cell = Tomb THEN 0 ELSE ValLen[cell]
<1>2. SaturatingAdd(KeyLen[k], l) \in Nat
  BY <1>1, Saturating
<1>3. SaturatingAdd(SaturatingAdd(KeyLen[k], l), Overhead) \in Nat
  BY <1>1, <1>2, Saturating
<1> QED  BY <1>3 DEF EntrySize

(* The total of some entries: any of them may be taken off.                *)
LEMMA TotalIs ==
  ASSUME NEW m \in Maps, NEW S \in SUBSET {k \in Keys : m[k] # Absent}, IsFiniteSet(S)
  PROVE  LET e == [k \in S |-> EntrySize(k, m[k])]
         IN  /\ e \in [S -> Nat]
             /\ \E f : AddsUp(f, e, S) /\ Total(m, S) = f[S]
<1> DEFINE e == [k \in S |-> EntrySize(k, m[k])]
           Sum == CHOOSE iter : iter = [s \in SUBSET S |->
                     IF s = {} THEN 0
                     ELSE EntrySize(CHOOSE x \in s : TRUE, m[CHOOSE x \in s : TRUE])
                            + iter[s \ {CHOOSE x \in s : TRUE}]]
<1>1. e \in [S -> Nat]
  <2>1. \A k \in S : k \in Keys /\ m[k] \in Cells
    BY DEF Maps
  <2> QED  BY <2>1, EntrySizeType
<1>2. Total(m, S) = Sum[S]
  BY DEF Total, MapThenSumSet, MapThenFoldSet
<1>3. PICK f \in [SUBSET S -> Nat] : AddsUp(f, e, S)
  <2> HIDE DEF e
  <2> QED  BY <1>1, SumExists
<1>4. \A s \in SUBSET S :
        s # {} => e[Pick(s)] = EntrySize(CHOOSE x \in s : TRUE, m[CHOOSE x \in s : TRUE])
  <2> SUFFICES ASSUME NEW s \in SUBSET S, s # {}
               PROVE  e[Pick(s)] = EntrySize(CHOOSE x \in s : TRUE, m[CHOOSE x \in s : TRUE])
    OBVIOUS
  <2>1. Pick(s) \in S
    BY PickIsElement
  <2>2. e[Pick(s)] = EntrySize(Pick(s), m[Pick(s)])
    BY <2>1
  <2> HIDE DEF e
  <2> QED  BY <2>2 DEF Pick
<1> HIDE DEF e
<1>5. f = [s \in SUBSET S |->
             IF s = {} THEN 0
             ELSE EntrySize(CHOOSE x \in s : TRUE, m[CHOOSE x \in s : TRUE])
                    + f[s \ {CHOOSE x \in s : TRUE}]]
  BY <1>3, <1>4 DEF AddsUp, Pick
<1>6. Sum = [s \in SUBSET S |->
               IF s = {} THEN 0
               ELSE EntrySize(CHOOSE x \in s : TRUE, m[CHOOSE x \in s : TRUE])
                      + Sum[s \ {CHOOSE x \in s : TRUE}]]
  BY <1>5
<1> HIDE DEF Sum
<1>7. AddsUp(Sum, e, S)
  BY <1>4, <1>6 DEF AddsUp, Pick
<1> QED  BY <1>1, <1>2, <1>7 DEF e

(* The total as numbers: none, one more, one less.                         *)
LEMMA TotalFacts ==
  ASSUME NEW m \in Maps, NEW S \in SUBSET {k \in Keys : m[k] # Absent}, IsFiniteSet(S)
  PROVE  /\ Total(m, S) \in Nat
         /\ S = {} => Total(m, S) = 0
         /\ \A y \in S : Total(m, S) = EntrySize(y, m[y]) + Total(m, S \ {y})
<1> DEFINE e == [k \in S |-> EntrySize(k, m[k])]
<1>1. PICK f : AddsUp(f, e, S) /\ Total(m, S) = f[S]
  BY TotalIs
<1>2. e \in [S -> Nat]
  BY TotalIs
<1>3. /\ f[{}] = 0 /\ f[S] \in Nat
      /\ \A y \in S : f[S] = e[y] + f[S \ {y}]
  <2> HIDE DEF e
  <2> QED  BY <1>1, <1>2, SumSplits
<1>4. ASSUME NEW y \in S PROVE Total(m, S) = EntrySize(y, m[y]) + Total(m, S \ {y})
  <2> DEFINE U == S \ {y}
             d == [k \in U |-> EntrySize(k, m[k])]
  <2>1. U \in SUBSET S /\ U \in SUBSET {k \in Keys : m[k] # Absent} /\ IsFiniteSet(U)
    BY FS_Subset
  <2>2. PICK h : AddsUp(h, d, U) /\ Total(m, U) = h[U]
    <3> HIDE DEF U
    <3> QED  BY <2>1, TotalIs
  <2>3. d \in [U -> Nat]
    <3> HIDE DEF U
    <3> QED  BY <2>1, TotalIs
  <2>4. \A x \in U : d[x] = e[x]
    OBVIOUS
  <2>5. h[U] = f[U]
    <3> HIDE DEF U, d, e
    <3> QED  BY <1>1, <1>2, <2>1, <2>2, <2>3, <2>4, SumsAgree
  <2>6. e[y] = EntrySize(y, m[y])
    OBVIOUS
  <2> HIDE DEF d, e
  <2> QED  BY <1>1, <1>3, <2>2, <2>5, <2>6
<1> QED  BY <1>1, <1>3, <1>4

(* Only the entries of the set count.                                      *)
LEMMA TotalsAgree ==
  ASSUME NEW m \in Maps, NEW n \in Maps,
         NEW S \in SUBSET {k \in Keys : m[k] # Absent}, IsFiniteSet(S),
         \A k \in S : n[k] = m[k]
  PROVE  Total(n, S) = Total(m, S)
<1> DEFINE e == [k \in S |-> EntrySize(k, m[k])]
           d == [k \in S |-> EntrySize(k, n[k])]
<1>1. PICK f : AddsUp(f, e, S) /\ Total(m, S) = f[S]
  BY TotalIs
<1>2. e \in [S -> Nat]
  BY TotalIs
<1>3. S \in SUBSET {k \in Keys : n[k] # Absent}
  OBVIOUS
<1>4. PICK h : AddsUp(h, d, S) /\ Total(n, S) = h[S]
  BY <1>3, TotalIs
<1>5. e = d
  OBVIOUS
<1>6. S \in SUBSET S /\ \A x \in S : e[x] = e[x]
  OBVIOUS
<1>7. h[S] = f[S]
  <2> HIDE DEF e, d
  <2> QED  BY <1>1, <1>2, <1>4, <1>5, <1>6, SumsAgree
<1> QED  BY <1>1, <1>4, <1>7

LEMMA TotalSizeIs ==
  TotalSize = Total(map, Entries) /\ TotalSize' = Total(map', Entries')
<1>1. TotalSize = Total(map, Entries)
  BY Zenon DEF TotalSize, Total, MapThenSumSet, MapThenFoldSet
<1>2. TotalSize' = Total(map', Entries')
  BY Zenon DEF TotalSize, Total, MapThenSumSet, MapThenFoldSet
<1> QED  BY <1>1, <1>2

(* A new entry and an overwritten one.                                     *)
LEMMA PutStep ==
  ASSUME MemInv, Fits, Fits', NEW k \in Keys, NEW cell \in Cells, Put(k, cell)
  PROVE  MemInv'
<1>1. map \in Maps /\ map' = [map EXCEPT ![k] = cell] /\ map' \in Maps /\ cell # Absent
  BY ValuesAssumption DEF MemInv, Put, Maps
<1> DEFINE R == Entries \ {k}
<1>2. /\ Entries' = Entries \cup {k} /\ k \in Entries' /\ Entries' \ {k} = R
      /\ \A x \in R : map'[x] = map[x]
      /\ map'[k] = cell
  BY <1>1 DEF Entries, Maps
<1>3. IsFiniteSet(Entries) /\ IsFiniteSet(Entries') /\ IsFiniteSet(R)
  <2>1. IsFiniteSet(Entries)
    BY DEF MemInv
  <2>2. IsFiniteSet(Entries')
    BY <2>1, <1>2, FS_AddElement
  <2>3. IsFiniteSet(R)
    BY <2>1, FS_Subset
  <2> QED  BY <2>1, <2>2, <2>3
<1>4. /\ Entries \in SUBSET {x \in Keys : map[x] # Absent}
      /\ R \in SUBSET {x \in Keys : map[x] # Absent}
      /\ Entries' \in SUBSET {x \in Keys : map'[x] # Absent}
  BY DEF Entries
<1>5. TotalSize = Total(map, Entries) /\ TotalSize' = Total(map', Entries')
  BY TotalSizeIs
<1> HIDE DEF R
<1>6. Total(map, R) \in Nat
  BY <1>1, <1>3, <1>4, TotalFacts
<1>7. Total(map', R) = Total(map, R)
  BY <1>1, <1>2, <1>3, <1>4, TotalsAgree
<1>8. Total(map', Entries') = EntrySize(k, cell) + Total(map, R)
  <2>1. Total(map', Entries') = EntrySize(k, map'[k]) + Total(map', Entries' \ {k})
    BY <1>1, <1>2, <1>3, <1>4, TotalFacts
  <2> QED  BY <2>1, <1>2, <1>7
<1>9. EntrySize(k, cell) \in Nat
  BY EntrySizeType
<1>10. approxSize = Total(map, Entries) /\ approxSize \in Nat
  BY <1>5 DEF MemInv, SizeMatchesEntries
<1>11. EntrySize(k, cell) + Total(map, R) <= MaxSize /\ MaxSize \in Nat
  BY <1>5, <1>8, MemtableAssumption DEF Fits
<1>12. (IF map[k] = Absent THEN approxSize
        ELSE SaturatingSub(approxSize, EntrySize(k, map[k]))) = Total(map, R)
  <2>1. CASE map[k] = Absent
    <3>1. R = Entries
      BY <2>1 DEF R, Entries
    <3> QED  BY <2>1, <3>1, <1>10
  <2>2. CASE map[k] # Absent
    <3>1. k \in Entries /\ Entries \ {k} = R
      BY <2>2 DEF R, Entries
    <3>2. Total(map, Entries) = EntrySize(k, map[k]) + Total(map, R)
      BY <1>1, <1>3, <1>4, <3>1, TotalFacts
    <3>3. map[k] \in Cells
      BY <1>1, <2>2 DEF Maps
    <3>4. EntrySize(k, map[k]) \in Nat
      BY <3>3, EntrySizeType
    <3>5. SaturatingSub(approxSize, EntrySize(k, map[k])) = Total(map, R)
      BY <1>6, <1>10, <3>2, <3>4, Saturating
    <3> QED  BY <2>2, <3>5
  <2> QED  BY <2>1, <2>2
<1>13. approxSize' = SaturatingAdd(Total(map, R), EntrySize(k, cell))
  BY <1>12 DEF Put
<1>14. approxSize' = Total(map, R) + EntrySize(k, cell)
  BY <1>6, <1>9, <1>11, <1>13, Saturating
<1>15. approxSize' \in Nat /\ approxSize' = TotalSize'
  BY <1>5, <1>6, <1>8, <1>9, <1>14
<1> QED  BY <1>1, <1>3, <1>15 DEF MemInv, SizeMatchesEntries

LEMMA EmptyInv ==
  ASSUME map = EmptyMap, approxSize = 0 PROVE MemInv
<1>1. map \in Maps /\ Entries = {}
  BY DEF EmptyMap, Maps, Entries
<1>2. IsFiniteSet(Entries) /\ TotalSize = 0
  <2>1. IsFiniteSet({}) /\ {} \in SUBSET {k \in Keys : map[k] # Absent}
    BY FS_EmptySet
  <2>2. Total(map, {}) = 0
    BY <1>1, <2>1, TotalFacts
  <2> QED  BY <1>1, <2>1, <2>2, TotalSizeIs
<1> QED  BY <1>1, <1>2 DEF MemInv, SizeMatchesEntries

LEMMA EmptyInvNext == (map = EmptyMap /\ approxSize = 0 => MemInv)'
<1>1. map = EmptyMap /\ approxSize = 0 => MemInv
  BY EmptyInv
<1> QED  BY <1>1, PTL

(* After any sequence of calls, on any keys and values that fit in memory, *)
(* the running count of Memtable is that of its entries.                   *)
THEOREM CountIsExact == MemSpec /\ []Fits => []SizeMatchesEntries
<1>1. MemInit => MemInv
  BY EmptyInv DEF MemInit
<1>2. MemInv /\ Fits /\ Fits' /\ [MemNext]_memVars => MemInv'
  <2> SUFFICES ASSUME MemInv, Fits, Fits', [MemNext]_memVars PROVE MemInv'
    OBVIOUS
  <2>1. ASSUME NEW k \in Keys, NEW v \in Vals, Set(k, v) PROVE MemInv'
    BY <2>1, PutStep DEF Set, Cells
  <2>2. ASSUME NEW k \in Keys, Delete(k) PROVE MemInv'
    BY <2>2, PutStep DEF Delete, Cells
  <2>3. CASE Clear
    BY <2>3, EmptyInvNext DEF Clear
  <2>4. CASE UNCHANGED memVars
    <3>1. Entries' = Entries /\ map' = map /\ approxSize' = approxSize
      BY <2>4 DEF memVars, Entries
    <3>2. TotalSize' = TotalSize
      BY <3>1, TotalSizeIs
    <3> QED  BY <3>1, <3>2 DEF MemInv, SizeMatchesEntries
  <2> QED  BY <2>1, <2>2, <2>3, <2>4 DEF MemNext
<1>3. MemInv => SizeMatchesEntries
  BY DEF MemInv
<1> QED  BY <1>1, <1>2, <1>3, PTL DEF MemSpec

=============================================================================
