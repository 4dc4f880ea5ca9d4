------------------------------ MODULE FileProofs ------------------------------
(***************************************************************************)
(* The bytes of wal.log and of a segment, for every alphabet, every size   *)
(* of the fields, all records and files of any length. Replay reads the    *)
(* records before the first cut one, a finished segment is read back, and  *)
(* neither reader takes a damaged byte for another record.                 *)
(***************************************************************************)
EXTENDS WalFile, SegmentBytes, OrderLemmas, SequenceTheorems

(***************************************************************************)
(* Numbers                                                                 *)
(***************************************************************************)

LEMMA BaseFacts ==
  /\ Base \in Nat /\ Base > 1 /\ LenSize \in Nat \ {0} /\ CrcSize \in Nat \ {0}
  /\ MaxFieldLen \in Nat /\ MaxFieldLen < Capacity(LenSize)
  /\ Bytes \subseteq Nat /\ CrcByte \in Bytes
BY FormatAssumption DEF Bytes

LEMMA DivideByBase ==
  ASSUME NEW n \in Nat
  PROVE  /\ n \div Base \in Nat /\ n % Base \in Bytes
         /\ n = (n % Base) + Base * (n \div Base)
BY FormatAssumption DEF Bytes

(* The powers, digit by digit.                                             *)
LEMMA CapacityIs ==
  ASSUME NEW size \in Nat
  PROVE  \E power \in [0..size -> Nat] :
           /\ power[0] = 1 /\ power[size] = Capacity(size)
           /\ \A i \in 1..size : power[i] = Base * power[i - 1]
<1> DEFINE Power == CHOOSE power : power = [i \in 0..size |-> IF i = 0 THEN 1 ELSE Base * power[i - 1]]
           g == [i \in 1..size |-> [v \in Nat |-> Base * v]]
<1>1. Capacity(size) = Power[size]
  BY DEF Capacity
<1>2. g \in [1..size -> [Nat -> Nat]]
  BY BaseFacts
<1>3. PICK f \in [0..size -> Nat] : Steps(f, size, 1, g)
  <2> HIDE DEF g
  <2> QED  BY <1>2, DropRecursion
<1>4. \A i \in 1..size : g[i][f[i - 1]] = Base * f[i - 1]
  <2> SUFFICES ASSUME NEW i \in 1..size PROVE g[i][f[i - 1]] = Base * f[i - 1]
    OBVIOUS
  <2>1. i - 1 \in 0..size /\ f[i - 1] \in Nat
    OBVIOUS
  <2> QED  BY <2>1
<1> HIDE DEF g
<1>5. f = [i \in 0..size |-> IF i = 0 THEN 1 ELSE Base * f[i - 1]]
  <2>1. \A i \in 0..size : i # 0 => i \in 1..size
    OBVIOUS
  <2> QED  BY <1>3, <1>4, <2>1 DEF Steps
<1>6. Power = [i \in 0..size |-> IF i = 0 THEN 1 ELSE Base * Power[i - 1]]
  BY <1>5
<1> HIDE DEF Power
<1>7. \A i \in 1..size : Power[i] = Base * Power[i - 1]
  BY <1>6
<1>8. Power[0] = 1
  BY <1>6
<1> DEFINE T == {i \in 0..size : Power[i] \in Nat}
<1>9. \A i \in 0..size : i \in T
  <2>1. 0 \in T
    BY <1>8
  <2>2. \A i \in 0..(size - 1) : i \in T => i + 1 \in T
    <3> SUFFICES ASSUME NEW i \in 0..(size - 1), Power[i] \in Nat PROVE i + 1 \in T
      OBVIOUS
    <3>1. i + 1 \in 1..size /\ (i + 1) - 1 = i
      OBVIOUS
    <3>2. Power[i + 1] = Base * Power[i]
      BY <1>7, <3>1
    <3> QED  BY <3>1, <3>2, BaseFacts
  <2> HIDE DEF T
  <2> QED  BY <2>1, <2>2, UpwardInduction
<1>10. Power \in [0..size -> Nat]
  BY <1>6, <1>9
<1> QED  BY <1>1, <1>7, <1>8, <1>10

(* What is left to write of a number, digit by digit.                      *)
LEMMA ToBytesIs ==
  ASSUME NEW n \in Nat, NEW size \in Nat
  PROVE  \E rest \in [0..size -> Nat] :
           /\ rest[0] = n
           /\ \A i \in 1..size : rest[i] = rest[i - 1] \div Base
           /\ ToBytes(n, size) = [i \in 1..size |-> Plain(rest[i - 1] % Base)]
<1> DEFINE Rest == CHOOSE rest : rest = [i \in 0..size |-> IF i = 0 THEN n ELSE rest[i - 1] \div Base]
           g == [i \in 1..size |-> [v \in Nat |-> v \div Base]]
<1>1. ToBytes(n, size) = [i \in 1..size |-> Plain(Rest[i - 1] % Base)]
  BY DEF ToBytes
<1>2. g \in [1..size -> [Nat -> Nat]]
  BY DivideByBase
<1>3. PICK f \in [0..size -> Nat] : Steps(f, size, n, g)
  <2> HIDE DEF g
  <2> QED  BY <1>2, DropRecursion
<1>4. \A i \in 1..size : g[i][f[i - 1]] = f[i - 1] \div Base
  <2> SUFFICES ASSUME NEW i \in 1..size PROVE g[i][f[i - 1]] = f[i - 1] \div Base
    OBVIOUS
  <2>1. i - 1 \in 0..size /\ f[i - 1] \in Nat
    OBVIOUS
  <2> QED  BY <2>1
<1> HIDE DEF g
<1>5. f = [i \in 0..size |-> IF i = 0 THEN n ELSE f[i - 1] \div Base]
  <2>1. \A i \in 0..size : i # 0 => i \in 1..size
    OBVIOUS
  <2> QED  BY <1>3, <1>4, <2>1 DEF Steps
<1>6. Rest = [i \in 0..size |-> IF i = 0 THEN n ELSE Rest[i - 1] \div Base]
  BY <1>5
<1> HIDE DEF Rest
<1>7. Rest[0] = n /\ \A i \in 1..size : Rest[i] = Rest[i - 1] \div Base
  BY <1>6
<1> DEFINE T == {i \in 0..size : Rest[i] \in Nat}
<1>8. \A i \in 0..size : i \in T
  <2>1. 0 \in T
    BY <1>7
  <2>2. \A i \in 0..(size - 1) : i \in T => i + 1 \in T
    <3> SUFFICES ASSUME NEW i \in 0..(size - 1), Rest[i] \in Nat PROVE i + 1 \in T
      OBVIOUS
    <3>1. i + 1 \in 1..size /\ (i + 1) - 1 = i
      OBVIOUS
    <3>2. Rest[i + 1] = Rest[i] \div Base
      BY <1>7, <3>1
    <3>3. Rest[i] \div Base \in Nat
      BY DivideByBase
    <3> QED  BY <3>1, <3>2, <3>3
  <2> HIDE DEF T
  <2> QED  BY <2>1, <2>2, UpwardInduction
<1>9. Rest \in [0..size -> Nat]
  BY <1>6, <1>8
<1> QED  BY <1>1, <1>7, <1>9

(* What has been read of a number, from the highest digit down.            *)
LEMMA FromBytesIs ==
  ASSUME NEW C, \A c \in C : c.num \in Nat, NEW cells \in Seq(C)
  PROVE  \E value \in [0..Len(cells) -> Nat] :
           /\ value[Len(cells)] = 0 /\ value[0] = FromBytes(cells)
           /\ \A i \in 0..(Len(cells) - 1) :
                value[i] = cells[i + 1].num + Base * value[i + 1]
<1> DEFINE n == Len(cells)
           S == 0..n
           R == 0..(n - 1)
           next == [i \in R |-> i + 1]
           base == [i \in S |-> 0]
           g == [i \in R |-> [v \in Nat |-> cells[i + 1].num + Base * v]]
           Value == CHOOSE value : value = [i \in 0..n |->
                      IF i = n THEN 0 ELSE cells[i + 1].num + Base * value[i + 1]]
<1>1. FromBytes(cells) = Value[0]
  BY DEF FromBytes
<1>2. n \in Nat /\ \A i \in R : i + 1 \in 1..n /\ cells[i + 1].num \in Nat
  <2>1. n \in Nat /\ \A i \in 1..n : cells[i] \in C
    OBVIOUS
  <2> QED  BY <2>1
<1> HIDE DEF n
<1>3. /\ S \subseteq Nat /\ R \subseteq S /\ \A o \in R : o <= n
      /\ next \in [R -> S] /\ \A o \in R : o < next[o]
      /\ base \in [S -> Nat]
  BY <1>2
<1>4. g \in [R -> [Nat -> Nat]]
  BY <1>2, BaseFacts
<1>5. PICK f \in [S -> Nat] : Jumps(f, S, R, next, base, g)
  <2> HIDE DEF S, R, next, base, g
  <2> QED  BY <1>2, <1>3, <1>4, JumpRecursion
<1>6. f = [i \in 0..n |-> IF i = n THEN 0 ELSE cells[i + 1].num + Base * f[i + 1]]
  <2>1. ASSUME NEW i \in R PROVE f[i] = cells[i + 1].num + Base * f[i + 1]
    <3>1. f[i + 1] \in Nat /\ next[i] = i + 1 /\ i \in S
      BY <1>2
    <3>2. g[i][f[i + 1]] = cells[i + 1].num + Base * f[i + 1]
      BY <3>1
    <3>3. f[i] = g[i][f[next[i]]]
      BY <1>5, <3>1 DEF Jumps
    <3> QED  BY <3>1, <3>2, <3>3
  <2>2. f[n] = 0
    <3>1. n \in S /\ n \notin R /\ base[n] = 0
      BY <1>2
    <3> HIDE DEF S, R, next, base, g
    <3> QED  BY <3>1, <1>5 DEF Jumps
  <2>3. \A i \in 0..n : i # n => i \in R
    BY <1>2
  <2> HIDE DEF R, next, base, g
  <2> QED  BY <2>1, <2>2, <2>3
<1> HIDE DEF S, next, base, g
<1>7. Value = [i \in 0..n |-> IF i = n THEN 0 ELSE cells[i + 1].num + Base * Value[i + 1]]
  BY <1>6
<1> HIDE DEF Value
<1>8. Value[n] = 0 /\ \A i \in 0..(n - 1) : Value[i] = cells[i + 1].num + Base * Value[i + 1]
  BY <1>2, <1>7
<1> DEFINE T == {i \in 0..n : Value[i] \in Nat}
<1>9. \A i \in 0..n : i \in T
  <2>1. n \in T
    BY <1>2, <1>8
  <2>2. \A i \in 0..(n - 1) : i + 1 \in T => i \in T
    <3> SUFFICES ASSUME NEW i \in 0..(n - 1), Value[i + 1] \in Nat PROVE i \in T
      OBVIOUS
    <3>1. cells[i + 1].num \in Nat /\ Value[i] = cells[i + 1].num + Base * Value[i + 1]
      BY <1>2, <1>8
    <3>2. cells[i + 1].num + Base * Value[i + 1] \in Nat
      <4> DEFINE a == cells[i + 1].num
                 v == Value[i + 1]
      <4>1. a \in Nat /\ v \in Nat
        BY <3>1
      <4> HIDE DEF a, v
      <4>2. a + Base * v \in Nat
        BY <4>1, BaseFacts
      <4> QED  BY <4>2 DEF a, v
    <3>3. i \in 0..n
      BY <1>2
    <3> QED  BY <3>1, <3>2, <3>3
  <2> HIDE DEF T
  <2> QED  BY <1>2, <2>1, <2>2, DownwardInduction
<1>10. Value \in [0..n -> Nat]
  BY <1>7, <1>9
<1> QED  BY <1>1, <1>8, <1>10 DEF n

LEMMA FromBytesType ==
  ASSUME NEW C, \A c \in C : c.num \in Nat, NEW cells \in Seq(C)
  PROVE  FromBytes(cells) \in Nat
<1>1. PICK value \in [0..Len(cells) -> Nat] : value[0] = FromBytes(cells)
  BY FromBytesIs
<1> QED  BY <1>1

(* A number that fits is read as it was written.                           *)
LEMMA NumbersRoundTrip ==
  ASSUME NEW size \in Nat, NEW n \in Nat, n < Capacity(size)
  PROVE  FromBytes(ToBytes(n, size)) = n
<1>1. PICK power \in [0..size -> Nat] :
         /\ power[0] = 1 /\ power[size] = Capacity(size)
         /\ \A i \in 1..size : power[i] = Base * power[i - 1]
  BY CapacityIs
<1>2. PICK rest \in [0..size -> Nat] :
         /\ rest[0] = n
         /\ \A i \in 1..size : rest[i] = rest[i - 1] \div Base
         /\ ToBytes(n, size) = [i \in 1..size |-> Plain(rest[i - 1] % Base)]
  BY ToBytesIs
<1> DEFINE cells == ToBytes(n, size)
           C == {Plain(b) : b \in Bytes}
<1>3. /\ cells \in Seq(C) /\ Len(cells) = size /\ \A c \in C : c.num \in Nat
      /\ \A i \in 0..(size - 1) : cells[i + 1].num = rest[i] % Base
  <2>1. \A i \in 1..size : rest[i - 1] % Base \in Bytes
    <3> SUFFICES ASSUME NEW i \in 1..size PROVE rest[i - 1] % Base \in Bytes
      OBVIOUS
    <3>1. rest[i - 1] \in Nat
      OBVIOUS
    <3> QED  BY <3>1, DivideByBase
  <2>2. cells \in [1..size -> C]
    BY <1>2, <2>1
  <2>3. \A c \in C : c.num \in Nat
    BY BaseFacts DEF Plain
  <2>4. \A i \in 0..(size - 1) : cells[i + 1].num = rest[i] % Base
    <3> SUFFICES ASSUME NEW i \in 0..(size - 1) PROVE cells[i + 1].num = rest[i] % Base
      OBVIOUS
    <3>1. i + 1 \in 1..size /\ (i + 1) - 1 = i
      OBVIOUS
    <3>2. cells[i + 1] = Plain(rest[i] % Base)
      BY <1>2, <3>1
    <3> QED  BY <3>2 DEF Plain
  <2> HIDE DEF cells
  <2> QED  BY <2>2, <2>3, <2>4
<1> HIDE DEF cells, C
<1>4. PICK value \in [0..size -> Nat] :
         /\ value[size] = 0 /\ value[0] = FromBytes(cells)
         /\ \A i \in 0..(size - 1) : value[i] = cells[i + 1].num + Base * value[i + 1]
  BY <1>3, FromBytesIs
<1> DEFINE Small == {i \in 0..size : rest[i] < power[size - i]}
<1>5. \A i \in 0..size : i \in Small
  <2>1. 0 \in Small
    BY <1>1, <1>2
  <2>2. \A i \in 0..(size - 1) : i \in Small => i + 1 \in Small
    <3> SUFFICES ASSUME NEW i \in 0..(size - 1), rest[i] < power[size - i]
                 PROVE  i + 1 \in Small
      OBVIOUS
    <3> DEFINE p == power[size - (i + 1)]
    <3>1. i + 1 \in 1..size /\ (i + 1) - 1 = i /\ size - i \in 1..size
          /\ (size - i) - 1 = size - (i + 1) /\ size - (i + 1) \in 0..size
      OBVIOUS
    <3>2. rest[i + 1] = rest[i] \div Base /\ power[size - i] = Base * p
      BY <1>1, <1>2, <3>1
    <3>3. rest[i] \in Nat /\ p \in Nat
      BY <3>1
    <3> HIDE DEF p
    <3>4. rest[i] \div Base < p
      <4> DEFINE a == rest[i]
                 q == a \div Base
      <4>1. q \in Nat /\ a % Base \in Nat /\ a = (a % Base) + Base * q
        BY <3>3, DivideByBase, BaseFacts
      <4>2. Base * q < Base * p
        <5>1. a < Base * p /\ a \in Nat
          BY <3>2, <3>3
        <5>2. Base * q <= a
          <6> HIDE DEF q
          <6>1. Base * q \in Nat
            BY <4>1, BaseFacts
          <6> QED  BY <4>1, <5>1, <6>1
        <5> HIDE DEF q, a
        <5>3. Base * q \in Nat /\ Base * p \in Nat
          BY <4>1, <3>3, BaseFacts
        <5> QED  BY <5>1, <5>2, <5>3
      <4> HIDE DEF q
      <4>3. ASSUME p <= q PROVE FALSE
        <5>1. Base * p <= Base * q
          BY <4>3, <4>1, <3>3, BaseFacts
        <5> QED  BY <5>1, <4>2, <4>1, <3>3, BaseFacts
      <4> QED  BY <4>3, <4>1, <3>3 DEF q
    <3> QED  BY <3>1, <3>2, <3>4 DEF p
  <2> HIDE DEF Small
  <2> QED  BY <2>1, <2>2, UpwardInduction
<1> DEFINE Same == {i \in 0..size : value[i] = rest[i]}
<1>6. \A i \in 0..size : i \in Same
  <2>1. size \in Same
    <3>1. rest[size] < 1
      BY <1>1, <1>5
    <3>2. rest[size] \in Nat
      OBVIOUS
    <3> QED  BY <1>4, <3>1, <3>2
  <2>2. \A i \in 0..(size - 1) : i + 1 \in Same => i \in Same
    <3> SUFFICES ASSUME NEW i \in 0..(size - 1), value[i + 1] = rest[i + 1] PROVE i \in Same
      OBVIOUS
    <3>1. i + 1 \in 1..size /\ (i + 1) - 1 = i /\ rest[i] \in Nat
      OBVIOUS
    <3>2. rest[i + 1] = rest[i] \div Base
      BY <1>2, <3>1
    <3>3. value[i] = (rest[i] % Base) + Base * (rest[i] \div Base)
      BY <1>3, <1>4, <3>2
    <3> QED  BY <3>1, <3>3, DivideByBase
  <2> HIDE DEF Same
  <2> QED  BY <2>1, <2>2, DownwardInduction
<1> QED  BY <1>2, <1>4, <1>6 DEF cells

-----------------------------------------------------------------------------
(***************************************************************************)
(* Records                                                                 *)
(***************************************************************************)

PlainCells == {Plain(n) : n \in Bytes}
SumCells == [num : {CrcByte}, of : Seq(PlainCells), part : 1..CrcSize]
StoredCells == PlainCells \cup SumCells

Encodables == {r \in DataRecords : Encodable(r)}

(* What the checksum of a record covers.                                   *)
Body(r) ==
  <<Plain(OpByte(r.op))>>
    \o ToBytes(Len(r.key), LenSize) \o PlainSeq(r.key)
    \o ToBytes(Len(r.val), LenSize) \o PlainSeq(r.val)

(* Where the value of a record begins, and where its checksum.             *)
ValAt(r) == 1 + LenSize + Len(r.key) + LenSize
SumAt(r) == ValAt(r) + Len(r.val)
SizeOf(r) == SumAt(r) + CrcSize

LEMMA CellFacts ==
  /\ \A c \in StoredCells : c.num \in Nat
  /\ \A c \in PlainCells : c.of = <<>> /\ c.part = 0
  /\ \A n : Plain(n).num = n /\ Plain(n).part = 0
BY BaseFacts DEF StoredCells, PlainCells, SumCells, Plain

LEMMA RecordFacts ==
  ASSUME NEW r \in DataRecords
  PROVE  /\ r.key \in Seq(Bytes) /\ r.val \in Seq(Bytes)
         /\ Len(r.key) \in Nat /\ Len(r.val) \in Nat
         /\ r.op \in {"set", "delete"}
         /\ r.op = "delete" => r.val = <<>>
         /\ r = [op |-> r.op, key |-> r.key, val |-> r.val]
         /\ OpByte(r.op) \in {0, 1} /\ OpByte(r.op) \in Bytes
         /\ OpByte(r.op) = 0 <=> r.op = "set"
         /\ ValAt(r) \in Nat /\ SumAt(r) \in Nat /\ SizeOf(r) \in Nat
         /\ 1 + LenSize <= ValAt(r) /\ ValAt(r) <= SumAt(r) /\ SumAt(r) < SizeOf(r)
<1>1. /\ r.key \in KeyBytes /\ (r.val \in ValBytes \/ r.val = <<>>)
      /\ r.op \in {"set", "delete"} /\ (r.op = "delete" => r.val = <<>>)
      /\ r = [op |-> r.op, key |-> r.key, val |-> r.val]
  <2>1. CASE r \in [op : {"set"}, key : KeyBytes, val : ValBytes]
    BY <2>1
  <2>2. CASE r \in [op : {"delete"}, key : KeyBytes, val : {<<>>}]
    BY <2>2
  <2> QED  BY <2>1, <2>2, Zenon DEF DataRecords
<1>2. r.key \in Seq(Bytes) /\ r.val \in Seq(Bytes)
  <2>1. KeyBytes \subseteq Seq(Bytes) /\ ValBytes \subseteq Seq(Bytes)
    BY FormatAssumption, Zenon
  <2>2. <<>> \in Seq(Bytes)
    BY EmptySeq
  <2> QED  BY <1>1, <2>1, <2>2
<1>3. Len(r.key) \in Nat /\ Len(r.val) \in Nat
  BY <1>2
<1>4. OpByte(r.op) \in {0, 1} /\ OpByte(r.op) \in Bytes /\ (OpByte(r.op) = 0 <=> r.op = "set")
  BY <1>1, FormatAssumption DEF OpByte, Bytes
<1>5. /\ ValAt(r) \in Nat /\ SumAt(r) \in Nat /\ SizeOf(r) \in Nat
      /\ 1 + LenSize <= ValAt(r) /\ ValAt(r) <= SumAt(r) /\ SumAt(r) < SizeOf(r)
  <2> DEFINE kl == Len(r.key)
             vl == Len(r.val)
  <2>1. kl \in Nat /\ vl \in Nat
    BY <1>3
  <2> HIDE DEF kl, vl
  <2>2. ValAt(r) = 1 + LenSize + kl + LenSize
    BY DEF ValAt, kl
  <2>3. SumAt(r) = ValAt(r) + vl /\ SizeOf(r) = SumAt(r) + CrcSize
    BY DEF SumAt, SizeOf, vl
  <2> QED  BY <2>1, <2>2, <2>3, BaseFacts
<1> QED  BY <1>1, <1>2, <1>3, <1>4, <1>5

LEMMA ToBytesType ==
  ASSUME NEW n \in Nat, NEW size \in Nat
  PROVE  /\ ToBytes(n, size) \in Seq(PlainCells)
         /\ Len(ToBytes(n, size)) = size
<1>1. PICK rest \in [0..size -> Nat] :
         ToBytes(n, size) = [i \in 1..size |-> Plain(rest[i - 1] % Base)]
  BY ToBytesIs
<1>2. \A i \in 1..size : rest[i - 1] % Base \in Bytes
  <2> SUFFICES ASSUME NEW i \in 1..size PROVE rest[i - 1] % Base \in Bytes
    OBVIOUS
  <2>1. rest[i - 1] \in Nat
    OBVIOUS
  <2> QED  BY <2>1, DivideByBase
<1>3. ToBytes(n, size) \in [1..size -> PlainCells]
  BY <1>1, <1>2 DEF PlainCells
<1> QED  BY <1>3

LEMMA PlainSeqIs ==
  ASSUME NEW s \in Seq(Bytes)
  PROVE  /\ PlainSeq(s) \in Seq(PlainCells) /\ Len(PlainSeq(s)) = Len(s)
         /\ \A i \in 1..Len(s) : PlainSeq(s)[i] = Plain(s[i])
BY DEF PlainSeq, PlainCells

(* Two sequences one behind the other.                                     *)
LEMMA ConcatIs ==
  ASSUME NEW S, NEW s \in Seq(S), NEW t \in Seq(S)
  PROVE  /\ s \o t \in Seq(S) /\ Len(s \o t) = Len(s) + Len(t)
         /\ Len(s) \in Nat /\ Len(t) \in Nat
         /\ \A j \in 1..Len(s) : (s \o t)[j] = s[j] /\ s[j] \in S
         /\ \A j \in 1..Len(t) : (s \o t)[Len(s) + j] = t[j] /\ t[j] \in S
<1>1. Len(s) \in Nat /\ Len(t) \in Nat
  OBVIOUS
<1>2. s \o t \in Seq(S) /\ Len(s \o t) = Len(s) + Len(t)
  BY ConcatProperties
<1>3. \A i \in 1..(Len(s) + Len(t)) :
         (s \o t)[i] = IF i <= Len(s) THEN s[i] ELSE t[i - Len(s)]
  BY ConcatProperties
<1>4. ASSUME NEW j \in 1..Len(s) PROVE (s \o t)[j] = s[j] /\ s[j] \in S
  <2>1. j \in 1..(Len(s) + Len(t)) /\ j <= Len(s)
    BY <1>1
  <2> QED  BY <2>1, <1>3
<1>5. ASSUME NEW j \in 1..Len(t) PROVE (s \o t)[Len(s) + j] = t[j] /\ t[j] \in S
  <2>1. Len(s) + j \in 1..(Len(s) + Len(t)) /\ ~(Len(s) + j <= Len(s)) /\ (Len(s) + j) - Len(s) = j
    BY <1>1
  <2> QED  BY <2>1, <1>3
<1> QED  BY <1>1, <1>2, <1>4, <1>5

(* The parts of a record and where they lie.                               *)
LEMMA BodyIs ==
  ASSUME NEW r \in DataRecords
  PROVE  /\ Body(r) \in Seq(PlainCells) /\ Len(Body(r)) = SumAt(r)
         /\ Body(r)[1] = Plain(OpByte(r.op))
         /\ \A j \in 1..LenSize : Body(r)[1 + j] = ToBytes(Len(r.key), LenSize)[j]
         /\ \A j \in 1..Len(r.key) : Body(r)[1 + LenSize + j] = Plain(r.key[j])
         /\ \A j \in 1..LenSize :
              Body(r)[1 + LenSize + Len(r.key) + j] = ToBytes(Len(r.val), LenSize)[j]
         /\ \A j \in 1..Len(r.val) : Body(r)[ValAt(r) + j] = Plain(r.val[j])
<1> DEFINE kl == Len(r.key)
           vl == Len(r.val)
           a == <<Plain(OpByte(r.op))>>
           b == ToBytes(kl, LenSize)
           c == PlainSeq(r.key)
           d == ToBytes(vl, LenSize)
           e == PlainSeq(r.val)
<1>0. LenSize \in Nat /\ kl \in Nat /\ vl \in Nat
  BY RecordFacts, BaseFacts
<1>1. a \in Seq(PlainCells) /\ Len(a) = 1 /\ a[1] = Plain(OpByte(r.op))
  <2>1. Plain(OpByte(r.op)) \in PlainCells
    BY RecordFacts DEF PlainCells
  <2> QED  BY <2>1
<1>2. /\ b \in Seq(PlainCells) /\ Len(b) = LenSize
      /\ d \in Seq(PlainCells) /\ Len(d) = LenSize
  BY <1>0, ToBytesType
<1>3. /\ c \in Seq(PlainCells) /\ Len(c) = kl
      /\ e \in Seq(PlainCells) /\ Len(e) = vl
      /\ \A j \in 1..kl : c[j] = Plain(r.key[j])
      /\ \A j \in 1..vl : e[j] = Plain(r.val[j])
  BY RecordFacts, PlainSeqIs
<1>4. Body(r) = a \o b \o c \o d \o e
  BY DEF Body
<1>5. ValAt(r) = 1 + LenSize + kl + LenSize /\ SumAt(r) = ValAt(r) + vl
  BY DEF ValAt, SumAt
<1> HIDE DEF a, b, c, d, e
<1> DEFINE ab == a \o b
           abc == ab \o c
           abcd == abc \o d
           all == abcd \o e
<1>6. /\ ab \in Seq(PlainCells) /\ Len(ab) = 1 + LenSize
      /\ ab[1] = a[1] /\ \A j \in 1..LenSize : ab[1 + j] = b[j]
  <2>1. 1 \in 1..1
    OBVIOUS
  <2>2. /\ ab \in Seq(PlainCells) /\ Len(ab) = Len(a) + Len(b)
        /\ \A j \in 1..Len(a) : ab[j] = a[j]
        /\ \A j \in 1..Len(b) : ab[Len(a) + j] = b[j]
    <3>1. a \in Seq(PlainCells) /\ b \in Seq(PlainCells)
      BY <1>1, <1>2
    <3> QED  BY <3>1, ConcatIs
  <2> HIDE DEF ab
  <2> QED  BY <2>1, <2>2, <1>1, <1>2
<1> HIDE DEF ab
<1>7. /\ abc \in Seq(PlainCells) /\ Len(abc) = 1 + LenSize + kl
      /\ \A j \in 1..(1 + LenSize) : abc[j] = ab[j]
      /\ \A j \in 1..kl : abc[1 + LenSize + j] = c[j]
  <2>1. /\ abc \in Seq(PlainCells) /\ Len(abc) = Len(ab) + Len(c)
        /\ \A j \in 1..Len(ab) : abc[j] = ab[j]
        /\ \A j \in 1..Len(c) : abc[Len(ab) + j] = c[j]
    <3>1. ab \in Seq(PlainCells) /\ c \in Seq(PlainCells)
      BY <1>3, <1>6
    <3> QED  BY <3>1, ConcatIs
  <2> HIDE DEF abc, kl
  <2> QED  BY <2>1, <1>3, <1>6
<1> HIDE DEF abc
<1>8. /\ abcd \in Seq(PlainCells) /\ Len(abcd) = ValAt(r)
      /\ \A j \in 1..(1 + LenSize + kl) : abcd[j] = abc[j]
      /\ \A j \in 1..LenSize : abcd[1 + LenSize + kl + j] = d[j]
  <2>1. /\ abcd \in Seq(PlainCells) /\ Len(abcd) = Len(abc) + Len(d)
        /\ \A j \in 1..Len(abc) : abcd[j] = abc[j]
        /\ \A j \in 1..Len(d) : abcd[Len(abc) + j] = d[j]
    <3>1. abc \in Seq(PlainCells) /\ d \in Seq(PlainCells)
      BY <1>2, <1>7
    <3> QED  BY <3>1, ConcatIs
  <2> HIDE DEF abcd, kl
  <2> QED  BY <2>1, <1>2, <1>5, <1>7
<1> HIDE DEF abcd
<1>9. all = Body(r)
  BY <1>4 DEF abcd, abc, ab
<1>10. /\ Body(r) \in Seq(PlainCells) /\ Len(Body(r)) = SumAt(r)
       /\ \A j \in 1..ValAt(r) : Body(r)[j] = abcd[j]
       /\ \A j \in 1..vl : Body(r)[ValAt(r) + j] = e[j]
  <2>1. /\ all \in Seq(PlainCells) /\ Len(all) = Len(abcd) + Len(e)
        /\ \A j \in 1..Len(abcd) : all[j] = abcd[j]
        /\ \A j \in 1..Len(e) : all[Len(abcd) + j] = e[j]
    <3>1. abcd \in Seq(PlainCells) /\ e \in Seq(PlainCells)
      BY <1>3, <1>8
    <3> QED  BY <3>1, ConcatIs
  <2> HIDE DEF all, vl
  <2> QED  BY <2>1, <1>3, <1>5, <1>8, <1>9
<1> HIDE DEF all
<1>11. /\ \A j \in 1..(1 + LenSize + kl) : j \in 1..ValAt(r)
       /\ \A j \in 1..(1 + LenSize) : j \in 1..(1 + LenSize + kl)
       /\ 1 \in 1..(1 + LenSize)
       /\ \A j \in 1..LenSize : 1 + j \in 1..(1 + LenSize) /\ 1 + LenSize + kl + j \in 1..ValAt(r)
       /\ \A j \in 1..kl : 1 + LenSize + j \in 1..(1 + LenSize + kl)
  <2> HIDE DEF kl, vl
  <2> QED  BY <1>0, <1>5
<1> HIDE DEF kl, vl
<1>12. Body(r)[1] = Plain(OpByte(r.op))
  BY <1>1, <1>6, <1>7, <1>8, <1>10, <1>11
<1>13. \A j \in 1..LenSize : Body(r)[1 + j] = b[j]
  BY <1>6, <1>7, <1>8, <1>10, <1>11
<1>14. \A j \in 1..kl : Body(r)[1 + LenSize + j] = Plain(r.key[j])
  BY <1>3, <1>7, <1>8, <1>10, <1>11
<1>15. \A j \in 1..LenSize : Body(r)[1 + LenSize + kl + j] = d[j]
  BY <1>8, <1>10, <1>11
<1> QED  BY <1>3, <1>10, <1>12, <1>13, <1>14, <1>15 DEF b, d, kl, vl

LEMMA EncodeIs ==
  ASSUME NEW r \in DataRecords
  PROVE  /\ Encode(r) \in Seq(StoredCells) /\ Len(Encode(r)) = SizeOf(r)
         /\ SubSeq(Encode(r), 1, SumAt(r)) = Body(r)
         /\ \A j \in 1..SumAt(r) : Encode(r)[j] = Body(r)[j] /\ Encode(r)[j] \in PlainCells
         /\ \A j \in 1..CrcSize :
              /\ Encode(r)[SumAt(r) + j] \in SumCells
              /\ Encode(r)[SumAt(r) + j] = [num |-> CrcByte, of |-> Body(r), part |-> j]
<1> DEFINE s == Checksum(Body(r))
<1>1. Encode(r) = Body(r) \o s
  BY DEF Encode, Body
<1>2. /\ Body(r) \in Seq(PlainCells) /\ Len(Body(r)) = SumAt(r)
      /\ SumAt(r) \in Nat /\ CrcSize \in Nat
  BY BodyIs, RecordFacts, BaseFacts
<1>3. \A j \in 1..CrcSize : s[j] = [num |-> CrcByte, of |-> Body(r), part |-> j] /\ s[j] \in SumCells
  BY <1>2 DEF Checksum, SumCells
<1>4. s \in Seq(SumCells) /\ Len(s) = CrcSize
  <2>1. s = [i \in 1..CrcSize |-> [num |-> CrcByte, of |-> Body(r), part |-> i]]
    BY DEF Checksum
  <2> HIDE DEF s
  <2> QED  BY <1>2, <1>3, <2>1
<1> HIDE DEF s
<1>5. Body(r) \in Seq(StoredCells) /\ s \in Seq(StoredCells)
  BY <1>2, <1>4 DEF StoredCells
<1>6. /\ Encode(r) \in Seq(StoredCells) /\ Len(Encode(r)) = SizeOf(r)
      /\ \A j \in 1..SumAt(r) : Encode(r)[j] = Body(r)[j]
      /\ \A j \in 1..CrcSize : Encode(r)[SumAt(r) + j] = s[j]
  <2> DEFINE B == Body(r)
             all == B \o s
  <2>1. /\ all \in Seq(StoredCells) /\ Len(all) = Len(B) + Len(s)
        /\ \A j \in 1..Len(B) : all[j] = B[j]
        /\ \A j \in 1..Len(s) : all[Len(B) + j] = s[j]
    BY <1>5, ConcatIs
  <2> HIDE DEF all
  <2> QED  BY <2>1, <1>1, <1>2, <1>4 DEF SizeOf, all
<1>7. \A j \in 1..SumAt(r) : Body(r)[j] \in PlainCells
  BY <1>2
<1>8. SubSeq(Encode(r), 1, SumAt(r)) = Body(r)
  <2> DEFINE B == Body(r)
  <2>1. SubSeq(B \o s, 1, Len(B)) = B
    BY <1>5, SubSeqOfConcat1
  <2> QED  BY <1>1, <1>2, <2>1
<1> QED  BY <1>3, <1>6, <1>7, <1>8

-----------------------------------------------------------------------------
(***************************************************************************)
(* Decoding                                                                *)
(***************************************************************************)

(* What decode reads of some bytes: the lengths, and where the parts end.  *)
KeyLen(b) == FromBytes(SubSeq(b, 2, 1 + LenSize))
KeyEnd(b) == 1 + LenSize + KeyLen(b)
ValStart(b) == KeyEnd(b) + LenSize
ValLen(b) == FromBytes(SubSeq(b, KeyEnd(b) + 1, ValStart(b)))
ValEnd(b) == ValStart(b) + ValLen(b)

LEMMA DecodeIs ==
  ASSUME NEW b
  PROVE  Decode(b) =
           IF b = <<>> THEN Truncated
           ELSE IF b[1].num \notin {0, 1} THEN Corrupt
           ELSE IF Len(b) < 1 + LenSize THEN Truncated
           ELSE IF KeyLen(b) > MaxFieldLen THEN Corrupt
           ELSE IF Len(b) < ValStart(b) THEN Truncated
           ELSE IF ValLen(b) > MaxFieldLen THEN Corrupt
           ELSE IF Len(b) < ValEnd(b) + CrcSize THEN Truncated
           ELSE IF b[1].num = 1 /\ ValLen(b) # 0 THEN Corrupt
           ELSE IF SubSeq(b, ValEnd(b) + 1, ValEnd(b) + CrcSize)
                     # Checksum(SubSeq(b, 1, ValEnd(b))) THEN Corrupt
           ELSE [kind |-> "ok", size |-> ValEnd(b) + CrcSize,
                 record |-> [op  |-> IF b[1].num = 0 THEN "set" ELSE "delete",
                             key |-> Numbers(SubSeq(b, 1 + LenSize + 1, KeyEnd(b))),
                             val |-> Numbers(SubSeq(b, ValStart(b) + 1, ValEnd(b)))]]
BY Zenon DEF Decode, KeyLen, KeyEnd, ValStart, ValLen, ValEnd

(* A part of some bytes that lies where a known sequence does.             *)
LEMMA PartIs ==
  ASSUME NEW S, NEW b \in Seq(S), NEW m \in Nat, NEW s \in Seq(S),
         m + Len(s) <= Len(b), \A j \in 1..Len(s) : b[m + j] = s[j]
  PROVE  SubSeq(b, m + 1, m + Len(s)) = s
<1> DEFINE n == Len(s)
           t == SubSeq(b, m + 1, m + n)
<1>1. n \in Nat /\ Len(b) \in Nat
  OBVIOUS
<1>2. t \in Seq(S) /\ Len(t) = n /\ \A j \in 1..n : t[j] = b[m + j]
  <2>1. \A j \in (m + 1)..(m + n) : j \in 1..Len(b) /\ b[j] \in S
    BY <1>1
  <2>2. Len(t) = n /\ t \in Seq(S)
    <3>1. m + 1 <= m + n + 1
      BY <1>1
    <3> QED  BY <1>1, <2>1, SubSeqProperties
  <2>3. ASSUME NEW j \in 1..n PROVE t[j] = b[m + j]
    <3>1. t[j] = b[(m + 1) + j - 1]
      BY <1>1, <2>1, <2>2, SubSeqProperties
    <3> QED  BY <3>1, <1>1
  <2> QED  BY <2>2, <2>3
<1>3. \A j \in 1..n : t[j] = s[j]
  BY <1>2
<1> HIDE DEF t
<1>4. t = s
  BY <1>2, <1>3, SeqEqual DEF n
<1> QED  BY <1>4 DEF t, n

LEMMA SliceIs ==
  ASSUME NEW S, NEW b \in Seq(S), NEW m \in Nat, NEW n \in Nat, m <= n, n <= Len(b)
  PROVE  /\ SubSeq(b, m + 1, n) \in Seq(S) /\ Len(SubSeq(b, m + 1, n)) = n - m
         /\ \A j \in 1..(n - m) : SubSeq(b, m + 1, n)[j] = b[m + j]
<1>1. Len(b) \in Nat
  OBVIOUS
<1>2. \A j \in (m + 1)..n : b[j] \in S
  BY <1>1
<1>3. /\ SubSeq(b, m + 1, n) \in Seq(S)
      /\ Len(SubSeq(b, m + 1, n)) = IF m + 1 <= n THEN n - (m + 1) + 1 ELSE 0
      /\ \A j \in 1..(n - (m + 1) + 1) : SubSeq(b, m + 1, n)[j] = b[(m + 1) + j - 1]
  BY <1>2, SubSeqProperties
<1>4. n - (m + 1) + 1 = n - m /\ (IF m + 1 <= n THEN n - (m + 1) + 1 ELSE 0) = n - m
  OBVIOUS
<1>5. \A j \in 1..(n - m) : (m + 1) + j - 1 = m + j
  OBVIOUS
<1> QED  BY <1>3, <1>4, <1>5

(* Some bytes begin as the record r does.                                  *)
Agrees(b, r, n) == \A j \in 1..n : b[j] = Encode(r)[j]

LEMMA AgreesLess ==
  ASSUME NEW b, NEW r, NEW n \in Nat, Agrees(b, r, n), NEW m \in Nat, m <= n
  PROVE  Agrees(b, r, m)
<1>1. \A j \in 1..m : j \in 1..n
  OBVIOUS
<1> QED  BY <1>1 DEF Agrees

LEMMA EncodableFacts ==
  ASSUME NEW r \in Encodables
  PROVE  /\ r \in DataRecords
         /\ Len(r.key) \in Nat /\ Len(r.key) <= MaxFieldLen
         /\ Len(r.val) \in Nat /\ Len(r.val) <= MaxFieldLen
         /\ FromBytes(ToBytes(Len(r.key), LenSize)) = Len(r.key)
         /\ FromBytes(ToBytes(Len(r.val), LenSize)) = Len(r.val)
<1>1. r \in DataRecords /\ Len(r.key) <= MaxFieldLen /\ Len(r.val) <= MaxFieldLen
  BY DEF Encodables, Encodable
<1>2. Len(r.key) \in Nat /\ Len(r.val) \in Nat
  BY <1>1, RecordFacts
<1>3. Capacity(LenSize) \in Nat
  <2>1. LenSize \in Nat
    BY BaseFacts
  <2>2. PICK power \in [0..LenSize -> Nat] : power[LenSize] = Capacity(LenSize)
    BY <2>1, CapacityIs
  <2> QED  BY <2>1, <2>2
<1>4. \A n \in Nat : n <= MaxFieldLen => FromBytes(ToBytes(n, LenSize)) = n
  <2> SUFFICES ASSUME NEW n \in Nat, n <= MaxFieldLen
               PROVE  FromBytes(ToBytes(n, LenSize)) = n
    OBVIOUS
  <2>1. n < Capacity(LenSize) /\ LenSize \in Nat
    BY <1>3, BaseFacts
  <2> QED  BY <2>1, NumbersRoundTrip
<1> QED  BY <1>1, <1>2, <1>4

(* The lengths are read back as soon as they are there.                    *)
LEMMA KeyLenIsRead ==
  ASSUME NEW b \in Seq(StoredCells), NEW r \in Encodables,
         1 + LenSize <= Len(b), Agrees(b, r, 1 + LenSize)
  PROVE  KeyLen(b) = Len(r.key) /\ KeyEnd(b) = 1 + LenSize + Len(r.key) /\ ValStart(b) = ValAt(r)
<1> DEFINE s == ToBytes(Len(r.key), LenSize)
           kl == Len(r.key)
<1>1. /\ r \in DataRecords /\ kl \in Nat /\ LenSize \in Nat /\ FromBytes(s) = kl
      /\ SumAt(r) \in Nat /\ ValAt(r) = 1 + LenSize + kl + LenSize /\ ValAt(r) <= SumAt(r)
      /\ ValAt(r) \in Nat
  BY EncodableFacts, RecordFacts, BaseFacts DEF ValAt
<1>2. s \in Seq(PlainCells) /\ Len(s) = LenSize
  BY <1>1, ToBytesType
<1>3. s \in Seq(StoredCells)
  BY <1>2 DEF StoredCells
<1>4. ASSUME NEW j \in 1..LenSize PROVE b[1 + j] = s[j]
  <2> HIDE DEF kl
  <2>1. 1 + j \in 1..(1 + LenSize) /\ 1 + j \in 1..SumAt(r)
    BY <1>1
  <2>2. b[1 + j] = Encode(r)[1 + j] /\ Encode(r)[1 + j] = Body(r)[1 + j]
    BY <2>1, <1>1, EncodeIs DEF Agrees
  <2>3. Body(r)[1 + j] = s[j]
    BY <1>1, BodyIs
  <2> QED  BY <2>2, <2>3
<1> HIDE DEF s
<1>5. SubSeq(b, 1 + 1, 1 + Len(s)) = s
  <2>1. 1 \in Nat /\ 1 + Len(s) <= Len(b) /\ \A j \in 1..Len(s) : b[1 + j] = s[j]
    BY <1>2, <1>4
  <2> QED  BY <2>1, <1>3, PartIs
<1>6. KeyLen(b) = kl
  <2>1. 1 + 1 = 2 /\ 1 + Len(s) = 1 + LenSize
    BY <1>2
  <2>2. SubSeq(b, 2, 1 + LenSize) = s
    BY <1>5, <2>1
  <2> QED  BY <1>1, <2>2 DEF KeyLen
<1> QED  BY <1>1, <1>6 DEF KeyEnd, ValStart

LEMMA ValLenIsRead ==
  ASSUME NEW b \in Seq(StoredCells), NEW r \in Encodables,
         ValAt(r) <= Len(b), Agrees(b, r, ValAt(r))
  PROVE  ValLen(b) = Len(r.val) /\ ValEnd(b) = SumAt(r)
<1> DEFINE s == ToBytes(Len(r.val), LenSize)
           kl == Len(r.key)
           vl == Len(r.val)
           m == 1 + LenSize + kl
<1>1. /\ r \in DataRecords /\ kl \in Nat /\ vl \in Nat /\ LenSize \in Nat /\ FromBytes(s) = vl
      /\ SumAt(r) \in Nat /\ ValAt(r) = m + LenSize /\ SumAt(r) = ValAt(r) + vl
      /\ ValAt(r) \in Nat
  BY EncodableFacts, RecordFacts, BaseFacts DEF ValAt, SumAt
<1>2. s \in Seq(PlainCells) /\ Len(s) = LenSize
  BY <1>1, ToBytesType
<1>3. s \in Seq(StoredCells)
  BY <1>2 DEF StoredCells
<1> HIDE DEF kl, vl
<1>4. m \in Nat /\ 1 + LenSize <= ValAt(r) /\ Len(b) \in Nat
  BY <1>1
<1>5. KeyEnd(b) = m /\ ValStart(b) = m + LenSize
  <2>1. 1 + LenSize \in Nat /\ 1 + LenSize <= Len(b)
    BY <1>1, <1>4
  <2>2. Agrees(b, r, 1 + LenSize)
    BY <1>1, <1>4, <2>1, AgreesLess
  <2> QED  BY <2>1, <2>2, <1>1, KeyLenIsRead DEF kl
<1> HIDE DEF m
<1>6. ASSUME NEW j \in 1..LenSize PROVE b[m + j] = s[j]
  <2>1. m + j \in 1..ValAt(r) /\ m + j \in 1..SumAt(r)
    BY <1>1, <1>4
  <2>2. b[m + j] = Encode(r)[m + j] /\ Encode(r)[m + j] = Body(r)[m + j]
    BY <2>1, <1>1, EncodeIs DEF Agrees
  <2>3. Body(r)[m + j] = s[j]
    BY <1>1, BodyIs DEF m, kl
  <2> QED  BY <2>2, <2>3
<1> HIDE DEF s
<1>7. SubSeq(b, m + 1, m + Len(s)) = s
  <2>1. m + Len(s) <= Len(b) /\ \A j \in 1..Len(s) : b[m + j] = s[j]
    BY <1>1, <1>2, <1>6
  <2> QED  BY <2>1, <1>3, <1>4, PartIs
<1>8. ValLen(b) = vl
  BY <1>1, <1>2, <1>5, <1>7 DEF ValLen
<1> QED  BY <1>1, <1>5, <1>8 DEF ValEnd, vl

LEMMA NumbersOfPlain ==
  ASSUME NEW s \in Seq(Bytes)
  PROVE  Numbers(PlainSeq(s)) = s
<1> DEFINE t == PlainSeq(s)
<1>1. t = [i \in DOMAIN s |-> Plain(s[i])]
  BY DEF PlainSeq
<1>2. DOMAIN t = DOMAIN s /\ \A i \in DOMAIN s : t[i].num = s[i]
  BY <1>1 DEF Plain
<1>3. Numbers(t) = [i \in DOMAIN s |-> s[i]]
  BY <1>2 DEF Numbers
<1>4. s = [i \in DOMAIN s |-> s[i]]
  OBVIOUS
<1> QED  BY <1>3, <1>4

(* What was written is what is read, whatever follows it.                  *)
LEMMA RoundTrip ==
  ASSUME NEW b \in Seq(StoredCells), NEW r \in Encodables,
         SizeOf(r) <= Len(b), Agrees(b, r, SizeOf(r))
  PROVE  Decode(b) = [kind |-> "ok", size |-> SizeOf(r), record |-> r]
<1> DEFINE kl == Len(r.key)
           vl == Len(r.val)
           v == ValAt(r)
           q == SumAt(r)
<1>1. /\ r \in DataRecords /\ kl \in Nat /\ vl \in Nat /\ LenSize \in Nat /\ CrcSize \in Nat
      /\ kl <= MaxFieldLen /\ vl <= MaxFieldLen /\ MaxFieldLen \in Nat
      /\ v = 1 + LenSize + kl + LenSize /\ q = v + vl /\ SizeOf(r) = q + CrcSize
      /\ v \in Nat /\ q \in Nat /\ SizeOf(r) \in Nat /\ Len(b) \in Nat
  BY EncodableFacts, RecordFacts, BaseFacts DEF ValAt, SumAt, SizeOf
<1>2. /\ r.op \in {"set", "delete"} /\ (r.op = "delete" => r.val = <<>>)
      /\ r = [op |-> r.op, key |-> r.key, val |-> r.val]
      /\ r.key \in Seq(Bytes) /\ r.val \in Seq(Bytes)
      /\ OpByte(r.op) \in {0, 1} /\ (OpByte(r.op) = 0 <=> r.op = "set")
  BY <1>1, RecordFacts
<1> HIDE DEF kl, vl, v, q
<1>3. /\ 1 + LenSize <= Len(b) /\ v <= Len(b) /\ q + CrcSize <= Len(b)
      /\ 1 + LenSize + kl <= q /\ v <= q /\ 1 \in 1..q
  BY <1>1
<1>4. KeyLen(b) = kl /\ KeyEnd(b) = 1 + LenSize + kl /\ ValStart(b) = v
  <2>1. Agrees(b, r, 1 + LenSize)
    <3>1. 1 + LenSize \in Nat /\ 1 + LenSize <= SizeOf(r)
      BY <1>1
    <3> QED  BY <1>1, <3>1, AgreesLess
  <2> QED  BY <2>1, <1>3, KeyLenIsRead DEF kl, v
<1>5. ValLen(b) = vl /\ ValEnd(b) = q
  <2>1. Agrees(b, r, v)
    <3>1. v <= SizeOf(r)
      BY <1>1
    <3> QED  BY <1>1, <3>1, AgreesLess
  <2> QED  BY <2>1, <1>3, ValLenIsRead DEF vl, v, q
<1>6. \A j \in 1..q : b[j] = Body(r)[j]
  <2> SUFFICES ASSUME NEW j \in 1..q PROVE b[j] = Body(r)[j]
    OBVIOUS
  <2>1. j \in 1..SizeOf(r)
    BY <1>1
  <2> QED  BY <2>1, <1>1, EncodeIs DEF Agrees, q
<1>7. b # <<>> /\ b[1].num = OpByte(r.op)
  <2>1. b[1] = Plain(OpByte(r.op))
    BY <1>1, <1>3, <1>6, BodyIs
  <2>2. b # <<>>
    BY <1>1, <1>3
  <2> QED  BY <2>1, <2>2 DEF Plain
<1>8. b[1].num = 1 => vl = 0
  <2>1. b[1].num = 1 => r.val = <<>>
    BY <1>2, <1>7
  <2>2. Len(<<>>) = 0
    OBVIOUS
  <2> QED  BY <2>1, <2>2 DEF vl
<1>9. SubSeq(b, 1, q) = Body(r)
  <2>1. /\ Body(r) \in Seq(PlainCells) /\ Len(Body(r)) = q
    BY <1>1, BodyIs DEF q
  <2>2. Body(r) \in Seq(StoredCells) /\ 0 \in Nat
    BY <2>1 DEF StoredCells
  <2>3. 0 + Len(Body(r)) <= Len(b) /\ \A j \in 1..Len(Body(r)) : b[0 + j] = Body(r)[j]
    BY <1>1, <1>3, <1>6, <2>1
  <2>4. SubSeq(b, 0 + 1, 0 + Len(Body(r))) = Body(r)
    BY <2>2, <2>3, PartIs
  <2>5. 0 + 1 = 1 /\ 0 + Len(Body(r)) = q
    BY <1>1, <2>1
  <2> QED  BY <2>4, <2>5
<1>10. SubSeq(b, q + 1, q + CrcSize) = Checksum(Body(r))
  <2> DEFINE s == Checksum(Body(r))
  <2>1. s = [i \in 1..CrcSize |-> [num |-> CrcByte, of |-> Body(r), part |-> i]]
    BY DEF Checksum
  <2>2. Body(r) \in Seq(PlainCells)
    BY <1>1, BodyIs
  <2>3. s \in Seq(StoredCells) /\ Len(s) = CrcSize
    <3>1. \A j \in 1..CrcSize : s[j] \in StoredCells
      BY <2>1, <2>2 DEF StoredCells, SumCells
    <3> HIDE DEF s
    <3> QED  BY <1>1, <2>1, <3>1
  <2>4. ASSUME NEW j \in 1..CrcSize PROVE b[q + j] = s[j]
    <3>1. q + j \in 1..SizeOf(r)
      BY <1>1
    <3>2. Encode(r)[q + j] = [num |-> CrcByte, of |-> Body(r), part |-> j]
      BY <1>1, EncodeIs DEF q
    <3> QED  BY <2>1, <3>1, <3>2 DEF Agrees
  <2> HIDE DEF s
  <2>5. q + Len(s) <= Len(b) /\ \A j \in 1..Len(s) : b[q + j] = s[j]
    BY <1>1, <1>3, <2>3, <2>4
  <2>6. SubSeq(b, q + 1, q + Len(s)) = s
    BY <1>1, <2>3, <2>5, PartIs
  <2> QED  BY <2>3, <2>6 DEF s
<1>11. Numbers(SubSeq(b, 1 + LenSize + 1, 1 + LenSize + kl)) = r.key
  <2> DEFINE m == 1 + LenSize
             s == PlainSeq(r.key)
  <2>1. m \in Nat
    BY <1>1
  <2>2. s \in Seq(PlainCells) /\ Len(s) = kl /\ \A j \in 1..kl : s[j] = Plain(r.key[j])
    BY <1>2, PlainSeqIs DEF kl
  <2>3. s \in Seq(StoredCells)
    BY <2>2 DEF StoredCells
  <2>4. \A j \in 1..kl : b[m + j] = s[j]
    <3> SUFFICES ASSUME NEW j \in 1..kl PROVE b[m + j] = s[j]
      OBVIOUS
    <3>1. m + j \in 1..q
      BY <1>1, <1>3
    <3>2. Body(r)[m + j] = Plain(r.key[j])
      BY <1>1, BodyIs DEF kl
    <3> QED  BY <3>1, <3>2, <1>6, <2>2
  <2>5. m + kl <= Len(b)
    BY <1>1, <1>3
  <2> HIDE DEF m, s
  <2>6. SubSeq(b, m + 1, m + Len(s)) = s
    BY <2>1, <2>2, <2>3, <2>4, <2>5, PartIs
  <2>7. Numbers(s) = r.key
    BY <1>1, <1>2, <2>2, NumbersOfPlain DEF kl, s
  <2> QED  BY <2>2, <2>6, <2>7 DEF m
<1>12. Numbers(SubSeq(b, v + 1, q)) = r.val
  <2> DEFINE s == PlainSeq(r.val)
  <2>2. s \in Seq(PlainCells) /\ Len(s) = vl /\ \A j \in 1..vl : s[j] = Plain(r.val[j])
    BY <1>2, PlainSeqIs DEF vl
  <2>3. s \in Seq(StoredCells)
    BY <2>2 DEF StoredCells
  <2>4. \A j \in 1..vl : b[v + j] = s[j]
    <3> SUFFICES ASSUME NEW j \in 1..vl PROVE b[v + j] = s[j]
      OBVIOUS
    <3>1. v + j \in 1..q
      BY <1>1
    <3>2. Body(r)[v + j] = Plain(r.val[j])
      BY <1>1, BodyIs DEF vl, v
    <3> QED  BY <3>1, <3>2, <1>6, <2>2
  <2>5. v + vl <= Len(b) /\ v + vl = q
    BY <1>1, <1>3
  <2> HIDE DEF s
  <2>6. SubSeq(b, v + 1, v + Len(s)) = s
    BY <1>1, <2>2, <2>3, <2>4, <2>5, PartIs
  <2>7. Numbers(s) = r.val
    BY <1>2, NumbersOfPlain DEF s
  <2> QED  BY <2>2, <2>5, <2>6, <2>7
<1>13. [op |-> IF b[1].num = 0 THEN "set" ELSE "delete", key |-> r.key, val |-> r.val] = r
  <2>1. (IF b[1].num = 0 THEN "set" ELSE "delete") = r.op
    BY <1>2, <1>7
  <2> QED  BY <1>2, <2>1
<1> DEFINE ops == IF b[1].num = 0 THEN "set" ELSE "delete"
           ok == [kind |-> "ok", size |-> ValEnd(b) + CrcSize,
                 record |-> [op  |-> ops,
                             key |-> Numbers(SubSeq(b, 1 + LenSize + 1, KeyEnd(b))),
                             val |-> Numbers(SubSeq(b, ValStart(b) + 1, ValEnd(b)))]]
<1>14. ok = [kind |-> "ok", size |-> SizeOf(r), record |-> r]
  <2>1. ValEnd(b) + CrcSize = SizeOf(r)
    BY <1>1, <1>5
  <2>2. Numbers(SubSeq(b, 1 + LenSize + 1, KeyEnd(b))) = r.key
    BY <1>4, <1>11
  <2>3. Numbers(SubSeq(b, ValStart(b) + 1, ValEnd(b))) = r.val
    BY <1>4, <1>5, <1>12
  <2> HIDE DEF ops
  <2>4. [op |-> ops, key |-> r.key, val |-> r.val] = r
    BY <1>13 DEF ops
  <2> QED  BY <2>1, <2>2, <2>3, <2>4
<1>15. Decode(b) = ok
  <2>1. ~(b = <<>>) /\ ~(b[1].num \notin {0, 1})
    BY <1>2, <1>7
  <2>2. ~(Len(b) < 1 + LenSize) /\ ~(Len(b) < ValStart(b)) /\ ~(Len(b) < ValEnd(b) + CrcSize)
    BY <1>1, <1>3, <1>4, <1>5
  <2>3. ~(KeyLen(b) > MaxFieldLen) /\ ~(ValLen(b) > MaxFieldLen)
    BY <1>1, <1>4, <1>5
  <2>4. ~(b[1].num = 1 /\ ValLen(b) # 0)
    BY <1>5, <1>8
  <2>5. ~(SubSeq(b, ValEnd(b) + 1, ValEnd(b) + CrcSize) # Checksum(SubSeq(b, 1, ValEnd(b))))
    BY <1>5, <1>9, <1>10
  <2> QED  BY <2>1, <2>2, <2>3, <2>4, <2>5, DecodeIs, Zenon
<1> QED  BY <1>14, <1>15, Zenon

(* A record of which only the beginning is there is called truncated.      *)
LEMMA CutIsTruncated ==
  ASSUME NEW b \in Seq(StoredCells), NEW r \in Encodables,
         Len(b) < SizeOf(r), Agrees(b, r, Len(b))
  PROVE  Decode(b) = Truncated
<1> DEFINE kl == Len(r.key)
           vl == Len(r.val)
           v == ValAt(r)
           q == SumAt(r)
<1>1. /\ r \in DataRecords /\ kl \in Nat /\ vl \in Nat /\ LenSize \in Nat /\ CrcSize \in Nat
      /\ kl <= MaxFieldLen /\ vl <= MaxFieldLen /\ MaxFieldLen \in Nat
      /\ v = 1 + LenSize + kl + LenSize /\ q = v + vl /\ SizeOf(r) = q + CrcSize
      /\ v \in Nat /\ q \in Nat /\ SizeOf(r) \in Nat /\ Len(b) \in Nat
      /\ OpByte(r.op) \in {0, 1}
  BY EncodableFacts, RecordFacts, BaseFacts DEF ValAt, SumAt, SizeOf
<1> HIDE DEF kl, vl, v, q
<1>2. CASE b = <<>>
  BY <1>2, DecodeIs, Zenon
<1>3. ASSUME b # <<>> PROVE b[1].num \in {0, 1}
  <2>1. 1 \in 1..Len(b) /\ 1 \in 1..q
    <3>1. Len(b) # 0
      BY <1>3
    <3> QED  BY <1>1, <3>1
  <2>2. b[1] = Encode(r)[1]
    BY <2>1 DEF Agrees
  <2>3. Encode(r)[1] = Body(r)[1]
    BY <1>1, <2>1, EncodeIs DEF q
  <2>4. Body(r)[1] = Plain(OpByte(r.op))
    BY <1>1, BodyIs
  <2> QED  BY <1>1, <2>2, <2>3, <2>4 DEF Plain
<1>4. CASE b # <<>> /\ Len(b) < 1 + LenSize
  BY <1>3, <1>4, DecodeIs, Zenon
<1>5. ASSUME 1 + LenSize <= Len(b) PROVE KeyLen(b) = kl /\ ValStart(b) = v
  <2>1. Agrees(b, r, 1 + LenSize)
    <3>1. 1 + LenSize \in Nat /\ 1 + LenSize <= Len(b)
      BY <1>1, <1>5
    <3> QED  BY <1>1, <3>1, AgreesLess
  <2> QED  BY <2>1, <1>5, KeyLenIsRead DEF kl, v
<1>6. CASE b # <<>> /\ 1 + LenSize <= Len(b) /\ Len(b) < v
  <2>1. ~(Len(b) < 1 + LenSize) /\ ~(KeyLen(b) > MaxFieldLen) /\ Len(b) < ValStart(b)
    BY <1>1, <1>5, <1>6
  <2> QED  BY <1>3, <1>6, <2>1, DecodeIs, Zenon
<1>7. CASE b # <<>> /\ v <= Len(b)
  <2>1. 1 + LenSize <= Len(b)
    BY <1>1, <1>7
  <2>2. Agrees(b, r, v)
    BY <1>1, <1>7, AgreesLess
  <2>3. ValLen(b) = vl /\ ValEnd(b) = q
    BY <2>2, <1>7, ValLenIsRead DEF vl, v, q
  <2>4. /\ ~(Len(b) < 1 + LenSize) /\ ~(KeyLen(b) > MaxFieldLen) /\ ~(Len(b) < ValStart(b))
        /\ ~(ValLen(b) > MaxFieldLen) /\ Len(b) < ValEnd(b) + CrcSize
    BY <1>1, <1>5, <1>7, <2>1, <2>3
  <2> QED  BY <1>3, <1>7, <2>4, DecodeIs, Zenon
<1>8. Len(b) < 1 + LenSize \/ (1 + LenSize <= Len(b) /\ Len(b) < v) \/ v <= Len(b)
  BY <1>1
<1> QED  BY <1>2, <1>4, <1>6, <1>7, <1>8

(* All that decode has checked of what it accepts.                         *)
LEMMA AcceptedChecks ==
  ASSUME NEW b \in Seq(StoredCells), Decode(b).kind = "ok"
  PROVE  /\ b # <<>> /\ b[1].num \in {0, 1}
         /\ ~(KeyLen(b) > MaxFieldLen) /\ ~(ValLen(b) > MaxFieldLen)
         /\ ~(b[1].num = 1 /\ ValLen(b) # 0)
         /\ SubSeq(b, ValEnd(b) + 1, ValEnd(b) + CrcSize) = Checksum(SubSeq(b, 1, ValEnd(b)))
         /\ Decode(b).size = ValEnd(b) + CrcSize
         /\ KeyEnd(b) \in Nat /\ ValStart(b) \in Nat /\ ValEnd(b) \in Nat
         /\ 1 + LenSize <= KeyEnd(b) /\ ValStart(b) = KeyEnd(b) + LenSize
         /\ ValStart(b) <= ValEnd(b) /\ ValEnd(b) + CrcSize <= Len(b)
<1> DEFINE q == ValEnd(b)
           rec == [op  |-> IF b[1].num = 0 THEN "set" ELSE "delete",
                   key |-> Numbers(SubSeq(b, 1 + LenSize + 1, KeyEnd(b))),
                   val |-> Numbers(SubSeq(b, ValStart(b) + 1, ValEnd(b)))]
<1>1. Truncated.kind # "ok" /\ Corrupt.kind # "ok"
  BY DEF Truncated, Corrupt
<1> HIDE DEF rec
<1>2. Decode(b) =
           IF b = <<>> THEN Truncated
           ELSE IF b[1].num \notin {0, 1} THEN Corrupt
           ELSE IF Len(b) < 1 + LenSize THEN Truncated
           ELSE IF KeyLen(b) > MaxFieldLen THEN Corrupt
           ELSE IF Len(b) < ValStart(b) THEN Truncated
           ELSE IF ValLen(b) > MaxFieldLen THEN Corrupt
           ELSE IF Len(b) < q + CrcSize THEN Truncated
           ELSE IF b[1].num = 1 /\ ValLen(b) # 0 THEN Corrupt
           ELSE IF SubSeq(b, q + 1, q + CrcSize)
                     # Checksum(SubSeq(b, 1, q)) THEN Corrupt
           ELSE [kind |-> "ok", size |-> q + CrcSize, record |-> rec]
  BY DecodeIs, Zenon DEF rec
<1>3. /\ b # <<>> /\ b[1].num \in {0, 1}
      /\ ~(KeyLen(b) > MaxFieldLen) /\ ~(ValLen(b) > MaxFieldLen)
      /\ ~(b[1].num = 1 /\ ValLen(b) # 0)
      /\ ~(Len(b) < 1 + LenSize) /\ ~(Len(b) < ValStart(b)) /\ ~(Len(b) < q + CrcSize)
      /\ SubSeq(b, q + 1, q + CrcSize) = Checksum(SubSeq(b, 1, q))
      /\ Decode(b) = [kind |-> "ok", size |-> q + CrcSize, record |-> rec]
  BY <1>1, <1>2, Zenon
<1>4. Decode(b).size = q + CrcSize
  BY <1>3
<1>5. \A c \in StoredCells : c.num \in Nat
  BY CellFacts
<1>6. LenSize \in Nat /\ CrcSize \in Nat /\ Len(b) \in Nat
  BY BaseFacts
<1> HIDE DEF q
<1>7. KeyLen(b) \in Nat
  <2>1. 1 + 1 = 2 /\ 1 \in Nat /\ 1 + LenSize \in Nat /\ 1 <= 1 + LenSize /\ 1 + LenSize <= Len(b)
    BY <1>3, <1>6
  <2>2. SubSeq(b, 1 + 1, 1 + LenSize) \in Seq(StoredCells)
    BY <2>1, SliceIs
  <2>3. SubSeq(b, 2, 1 + LenSize) \in Seq(StoredCells)
    BY <2>1, <2>2
  <2> QED  BY <1>5, <2>3, FromBytesType DEF KeyLen
<1>8. /\ KeyEnd(b) \in Nat /\ ValStart(b) \in Nat /\ ValStart(b) = KeyEnd(b) + LenSize
      /\ ValStart(b) <= Len(b) /\ 1 + LenSize <= KeyEnd(b) /\ KeyEnd(b) <= ValStart(b)
  BY <1>3, <1>6, <1>7 DEF KeyEnd, ValStart
<1>9. ValLen(b) \in Nat
  <2>1. SubSeq(b, KeyEnd(b) + 1, ValStart(b)) \in Seq(StoredCells)
    BY <1>8, SliceIs
  <2> QED  BY <1>5, <2>1, FromBytesType DEF ValLen
<1>10. q = ValStart(b) + ValLen(b)
  BY DEF ValEnd, q
<1>11. ~(Len(b) < q + CrcSize)
  BY <1>3
<1>12. q \in Nat /\ ValStart(b) <= q /\ q + CrcSize <= Len(b)
  BY <1>6, <1>8, <1>9, <1>10, <1>11
<1> QED  BY <1>3, <1>4, <1>8, <1>12 DEF q

(* Among it, the checksum behind what was read.                            *)
LEMMA AcceptedIs ==
  ASSUME NEW b \in Seq(StoredCells), Decode(b).kind = "ok"
  PROVE  \E q \in Nat :
           /\ q > 0 /\ q + CrcSize <= Len(b)
           /\ SubSeq(b, q + 1, q + CrcSize) = Checksum(SubSeq(b, 1, q))
           /\ Decode(b).size = q + CrcSize
<1>1. /\ SubSeq(b, ValEnd(b) + 1, ValEnd(b) + CrcSize) = Checksum(SubSeq(b, 1, ValEnd(b)))
      /\ Decode(b).size = ValEnd(b) + CrcSize
      /\ KeyEnd(b) \in Nat /\ ValStart(b) \in Nat /\ ValEnd(b) \in Nat
      /\ 1 + LenSize <= KeyEnd(b) /\ ValStart(b) = KeyEnd(b) + LenSize
      /\ ValStart(b) <= ValEnd(b) /\ ValEnd(b) + CrcSize <= Len(b)
  BY AcceptedChecks
<1>2. ValEnd(b) > 0
  BY <1>1, BaseFacts
<1> QED  BY <1>1, <1>2

(* And then the checksum's cells tell what they were written behind.       *)
LEMMA AcceptedSum ==
  ASSUME NEW b \in Seq(StoredCells), NEW q \in Nat, q > 0, q + CrcSize <= Len(b),
         SubSeq(b, q + 1, q + CrcSize) = Checksum(SubSeq(b, 1, q))
  PROVE  \A j \in 1..CrcSize :
           b[q + j] = [num |-> CrcByte, of |-> SubSeq(b, 1, q), part |-> j]
<1> DEFINE B == SubSeq(b, 1, q)
<1>1. CrcSize \in Nat
  BY BaseFacts
<1>2. \A j \in 1..((q + CrcSize) - q) : SubSeq(b, q + 1, q + CrcSize)[j] = b[q + j]
  <2>1. q + CrcSize \in Nat /\ q <= q + CrcSize
    BY <1>1
  <2> QED  BY <2>1, SliceIs
<1>3. (q + CrcSize) - q = CrcSize
  BY <1>1
<1>4. Checksum(B) = [i \in 1..CrcSize |-> [num |-> CrcByte, of |-> B, part |-> i]]
  BY DEF Checksum
<1> HIDE DEF B
<1> QED  BY <1>2, <1>3, <1>4 DEF B

LEMMA DecodeKinds ==
  ASSUME NEW b
  PROVE  Decode(b).kind \in {"ok", "truncated", "corrupt"}
<1> DEFINE rec == [op  |-> IF b[1].num = 0 THEN "set" ELSE "delete",
                   key |-> Numbers(SubSeq(b, 1 + LenSize + 1, KeyEnd(b))),
                   val |-> Numbers(SubSeq(b, ValStart(b) + 1, ValEnd(b)))]
           ok == [kind |-> "ok", size |-> ValEnd(b) + CrcSize, record |-> rec]
<1>1. ok.kind = "ok" /\ Truncated.kind = "truncated" /\ Corrupt.kind = "corrupt"
  <2> HIDE DEF rec
  <2> QED  BY DEF Truncated, Corrupt
<1>2. Decode(b) \in {ok, Truncated, Corrupt}
  BY DecodeIs, Zenon
<1> QED  BY <1>1, <1>2, Zenon

-----------------------------------------------------------------------------
(***************************************************************************)
(* Scanning                                                                *)
(***************************************************************************)

From(b, o) == SubSeq(b, o + 1, Len(b))

(* A step of the loop.                                                     *)
ScanStep(b, f) ==
  \A o \in 0..Len(b) :
    f[o] = IF o = Len(b)
           THEN [records |-> <<>>, end |-> o, outcome |-> "clean"]
           ELSE IF Decode(From(b, o)).kind = "ok"
           THEN [f[o + Decode(From(b, o)).size]
                   EXCEPT !.records = <<Decode(From(b, o)).record>> \o @]
           ELSE [records |-> <<>>, end |-> o, outcome |-> Decode(From(b, o)).kind]

LEMMA FromIs ==
  ASSUME NEW b \in Seq(StoredCells), NEW o \in 0..Len(b)
  PROVE  /\ From(b, o) \in Seq(StoredCells) /\ Len(From(b, o)) = Len(b) - o
         /\ \A j \in 1..(Len(b) - o) : From(b, o)[j] = b[o + j]
<1>1. o \in Nat /\ Len(b) \in Nat /\ o <= Len(b)
  OBVIOUS
<1> QED  BY <1>1, SliceIs DEF From

LEMMA ScanIs ==
  ASSUME NEW b \in Seq(StoredCells)
  PROVE  \E f : ScanStep(b, f) /\ f[0] = Scan(b)
<1> DEFINE n == Len(b)
           S == 0..n
           R == {o \in S : o # n /\ Decode(From(b, o)).kind = "ok"}
           X == {Decode(From(b, o)).record : o \in R}
           D == [records : Seq(X), end : S, outcome : {"clean", "ok", "truncated", "corrupt"}]
           next == [o \in R |-> o + Decode(From(b, o)).size]
           base == [o \in S |-> [records |-> <<>>, end |-> o,
                                 outcome |-> IF o = n THEN "clean" ELSE Decode(From(b, o)).kind]]
           g == [o \in R |-> [v \in D |->
                   [v EXCEPT !.records = <<Decode(From(b, o)).record>> \o @]]]
           F == CHOOSE f : f = [o \in 0..Len(b) |->
                  IF o = Len(b)
                  THEN [records |-> <<>>, end |-> o, outcome |-> "clean"]
                  ELSE IF Decode(From(b, o)).kind = "ok"
                  THEN [f[o + Decode(From(b, o)).size]
                          EXCEPT !.records = <<Decode(From(b, o)).record>> \o @]
                  ELSE [records |-> <<>>, end |-> o, outcome |-> Decode(From(b, o)).kind]]
<1>1. Scan(b) = F[0]
  BY DEF Scan, From
<1>2. n \in Nat
  OBVIOUS
<1>3. ASSUME NEW o \in R PROVE o + Decode(From(b, o)).size \in S /\ o < o + Decode(From(b, o)).size
  <2>1. From(b, o) \in Seq(StoredCells) /\ Len(From(b, o)) = n - o /\ o \in 0..n
    BY FromIs
  <2>2. PICK q \in Nat : /\ q > 0 /\ q + CrcSize <= Len(From(b, o))
                         /\ Decode(From(b, o)).size = q + CrcSize
    BY <2>1, AcceptedIs
  <2>3. CrcSize \in Nat
    BY BaseFacts
  <2>4. o + (q + CrcSize) \in 0..n /\ o < o + (q + CrcSize)
    BY <1>2, <2>1, <2>2, <2>3
  <2> QED  BY <2>2, <2>4
<1> HIDE DEF F
<1>4. S \subseteq Nat /\ R \subseteq S /\ \A o \in R : o <= n
  BY <1>2
<1>5. next \in [R -> S] /\ \A o \in R : o < next[o]
  BY <1>3
<1>6. base \in [S -> D]
  <2>1. \A o \in S : (IF o = n THEN "clean" ELSE Decode(From(b, o)).kind)
                        \in {"clean", "ok", "truncated", "corrupt"}
    BY DecodeKinds
  <2>2. <<>> \in Seq(X)
    BY EmptySeq
  <2> HIDE DEF X, S
  <2> QED  BY <2>1, <2>2
<1>7. g \in [R -> [D -> D]]
  <2>1. ASSUME NEW o \in R, NEW v \in D
        PROVE  [v EXCEPT !.records = <<Decode(From(b, o)).record>> \o @] \in D
    <3> DEFINE x == Decode(From(b, o)).record
    <3>1. x \in X
      OBVIOUS
    <3> HIDE DEF x, X, S, R
    <3>2. v.records \in Seq(X)
      OBVIOUS
    <3>3. <<x>> \in Seq(X)
      BY <3>1
    <3>4. <<x>> \o v.records \in Seq(X)
      BY <3>2, <3>3, ConcatProperties
    <3>5. \A y \in Seq(X) : [v EXCEPT !.records = y] \in D
      OBVIOUS
    <3>6. [v EXCEPT !.records = <<x>> \o @] \in D
      BY <3>4, <3>5
    <3> QED  BY <3>6 DEF x
  <2> HIDE DEF D, R
  <2> QED  BY <2>1
<1>8. PICK h \in [S -> D] : Jumps(h, S, R, next, base, g)
  <2> HIDE DEF D, S, R, next, base, g
  <2> QED  BY <1>2, <1>4, <1>5, <1>6, <1>7, JumpRecursion
<1>9. ScanStep(b, h)
  <2> SUFFICES ASSUME NEW o \in S
               PROVE  h[o] = IF o = n
                  THEN [records |-> <<>>, end |-> o, outcome |-> "clean"]
                  ELSE IF Decode(From(b, o)).kind = "ok"
                  THEN [h[o + Decode(From(b, o)).size]
                          EXCEPT !.records = <<Decode(From(b, o)).record>> \o @]
                  ELSE [records |-> <<>>, end |-> o, outcome |-> Decode(From(b, o)).kind]
    BY Zenon DEF ScanStep
  <2>1. h[o] = IF o \in R THEN g[o][h[next[o]]] ELSE base[o]
    BY <1>8, Zenon DEF Jumps
  <2>2. CASE o \in R
    <3>1. next[o] = o + Decode(From(b, o)).size /\ next[o] \in S /\ h[next[o]] \in D
      BY <2>2, <1>5, <1>8
    <3>2. \A v \in D : g[o][v] = [v EXCEPT !.records = <<Decode(From(b, o)).record>> \o @]
      <4> HIDE DEF D, R
      <4> QED  BY <2>2
    <3>3. o # n /\ Decode(From(b, o)).kind = "ok"
      BY <2>2
    <3> HIDE DEF D, S, R, next, base, g
    <3>4. h[o] = [h[next[o]] EXCEPT !.records = <<Decode(From(b, o)).record>> \o @]
      BY <2>1, <2>2, <3>1, <3>2
    <3> QED  BY <3>1, <3>3, <3>4
  <2>3. CASE o \notin R
    <3>1. o = n \/ (o # n /\ Decode(From(b, o)).kind # "ok")
      BY <2>3
    <3>2. h[o] = [records |-> <<>>, end |-> o,
                  outcome |-> IF o = n THEN "clean" ELSE Decode(From(b, o)).kind]
      <4>1. h[o] = base[o]
        BY <2>1, <2>3
      <4> QED  BY <4>1
    <3> HIDE DEF D, S, R, next, base, g
    <3> QED  BY <3>1, <3>2
  <2> QED  BY <2>2, <2>3
<1> HIDE DEF D, R, next, base, g, X
<1>10. h = [o \in 0..Len(b) |->
                  IF o = Len(b)
                  THEN [records |-> <<>>, end |-> o, outcome |-> "clean"]
                  ELSE IF Decode(From(b, o)).kind = "ok"
                  THEN [h[o + Decode(From(b, o)).size]
                          EXCEPT !.records = <<Decode(From(b, o)).record>> \o @]
                  ELSE [records |-> <<>>, end |-> o, outcome |-> Decode(From(b, o)).kind]]
  BY <1>9 DEF ScanStep
<1>11. F = [o \in 0..Len(b) |->
                  IF o = Len(b)
                  THEN [records |-> <<>>, end |-> o, outcome |-> "clean"]
                  ELSE IF Decode(From(b, o)).kind = "ok"
                  THEN [F[o + Decode(From(b, o)).size]
                          EXCEPT !.records = <<Decode(From(b, o)).record>> \o @]
                  ELSE [records |-> <<>>, end |-> o, outcome |-> Decode(From(b, o)).kind]]
  BY <1>10, Zenon DEF F
<1>12. ScanStep(b, F)
  <2> SUFFICES ASSUME NEW o \in 0..Len(b)
               PROVE  F[o] = IF o = Len(b)
                  THEN [records |-> <<>>, end |-> o, outcome |-> "clean"]
                  ELSE IF Decode(From(b, o)).kind = "ok"
                  THEN [F[o + Decode(From(b, o)).size]
                          EXCEPT !.records = <<Decode(From(b, o)).record>> \o @]
                  ELSE [records |-> <<>>, end |-> o, outcome |-> Decode(From(b, o)).kind]
    BY Zenon DEF ScanStep
  <2> QED  BY <1>11, Zenon
<1> QED  BY <1>1, <1>12

-----------------------------------------------------------------------------
(***************************************************************************)
(* The file                                                                *)
(***************************************************************************)

(* Piece i of the file b lies behind at[i - 1] and up to at[i], is the      *)
(* front of recs[i] as it is encoded, and stands as l[i] in the history. A  *)
(* damaged cell is a plain one.                                            *)
Laid(b, l, dam, at, recs) ==
  /\ at[0] = 0 /\ at[Len(l)] = Len(b)
  /\ \A i \in 1..Len(l) :
       /\ at[i - 1] < at[i] /\ at[i] <= at[i - 1] + SizeOf(recs[i])
       /\ l[i] = IF at[i] = at[i - 1] + SizeOf(recs[i]) THEN recs[i] ELSE Torn
       /\ \A p \in (at[i - 1] + 1)..at[i] :
            \/ b[p] = Encode(recs[i])[p - at[i - 1]]
            \/ dam /\ b[p] \in PlainCells

Places(l) == [0..Len(l) -> Nat]
Pieces(l) == [1..Len(l) -> Encodables]

WalType ==
  /\ file \in Seq(StoredCells)
  /\ log \in Seq(DataRecords \cup {Torn})
  /\ damaged \in BOOLEAN

WalInv ==
  /\ WalType
  /\ \E at \in Places(log), recs \in Pieces(log) : Laid(file, log, damaged, at, recs)

LEMMA PlacesGrow ==
  ASSUME NEW b \in Seq(StoredCells), NEW l \in Seq(DataRecords \cup {Torn}), NEW dam,
         NEW at \in Places(l), NEW recs \in Pieces(l), Laid(b, l, dam, at, recs)
  PROVE  /\ \A j \in 0..Len(l) : \A i \in 0..(j - 1) : at[i] < at[j]
         /\ \A j \in 0..Len(l) : at[j] \in 0..Len(b)
<1> DEFINE n == Len(l)
           T == {j \in 0..n : \A i \in 0..(j - 1) : at[i] < at[j]}
<1>1. n \in Nat /\ at \in [0..n -> Nat] /\ \A i \in 1..n : at[i - 1] < at[i]
  <2>1. n \in Nat
    OBVIOUS
  <2>2. at \in [0..n -> Nat]
    BY DEF Places
  <2>3. \A i \in 1..n : at[i - 1] < at[i]
    BY Zenon DEF Laid
  <2> QED  BY <2>1, <2>2, <2>3
<1>2. at[n] = Len(b) /\ Len(b) \in Nat
  BY DEF Laid
<1> HIDE DEF n
<1>3. \A j \in 0..n : j \in T
  <2>1. 0 \in T
    BY <1>1
  <2>2. \A j \in 0..(n - 1) : j \in T => j + 1 \in T
    <3> SUFFICES ASSUME NEW j \in 0..(n - 1), j \in T, NEW i \in 0..j
                 PROVE  at[i] < at[j + 1]
      <4>1. \A j \in 0..(n - 1) : j + 1 \in 0..n /\ (j + 1) - 1 = j
        BY <1>1
      <4> QED  BY <4>1
    <3>1. j \in 0..n /\ j + 1 \in 1..n /\ (j + 1) - 1 = j /\ i \in 0..n /\ j + 1 \in 0..n
      BY <1>1
    <3>2. at[j] < at[j + 1]
      BY <1>1, <3>1
    <3>3. at[i] \in Nat /\ at[j] \in Nat /\ at[j + 1] \in Nat
      BY <1>1, <3>1
    <3>4. i = j \/ at[i] < at[j]
      <4>1. i = j \/ i \in 0..(j - 1)
        OBVIOUS
      <4> QED  BY <4>1
    <3> QED  BY <3>2, <3>3, <3>4
  <2> HIDE DEF T
  <2> QED  BY <1>1, <2>1, <2>2, UpwardInduction
<1>4. ASSUME NEW j \in 0..n PROVE at[j] \in 0..Len(b)
  <2>1. n \in T /\ n \in 0..n /\ at[j] \in Nat
    BY <1>1, <1>3
  <2>2. j = n \/ at[j] < at[n]
    BY <1>1, <2>1
  <2> QED  BY <1>1, <1>2, <2>1, <2>2
<1> QED  BY <1>3, <1>4 DEF n

(* Every byte of the file belongs to one of the pieces.                    *)
LEMMA PieceOf ==
  ASSUME NEW b \in Seq(StoredCells), NEW l \in Seq(DataRecords \cup {Torn}), NEW dam,
         NEW at \in Places(l), NEW recs \in Pieces(l), Laid(b, l, dam, at, recs),
         NEW p \in 1..Len(b)
  PROVE  \E m \in 1..Len(l) : at[m - 1] < p /\ p <= at[m]
<1> DEFINE n == Len(l)
           U == {j \in 0..n : p <= at[j]}
<1>1. n \in Nat /\ at \in [0..n -> Nat] /\ at[0] = 0 /\ at[n] = Len(b) /\ Len(b) \in Nat
  BY DEF Laid, Places
<1> HIDE DEF n
<1>2. PICK m \in U : \A j \in U : m <= j
  <2>1. n \in U
    BY <1>1
  <2>2. U \subseteq Nat
    BY <1>1
  <2> HIDE DEF U
  <2> QED  BY <2>1, <2>2, LeastExists
<1>3. m # 0 /\ m \in 0..n /\ p <= at[m]
  BY <1>1, <1>2
<1>4. m \in 1..n /\ m - 1 \in 0..n /\ m - 1 < m
  BY <1>1, <1>3
<1>5. ~(p <= at[m - 1])
  BY <1>2, <1>4
<1>6. at[m - 1] < p
  BY <1>1, <1>4, <1>5
<1> QED  BY <1>3, <1>4, <1>6 DEF n

(* The piece a checksum cell lies in, and where that piece begins.          *)
LEMMA SumCellIs ==
  ASSUME NEW b \in Seq(StoredCells), NEW l \in Seq(DataRecords \cup {Torn}), NEW dam,
         NEW at \in Places(l), NEW recs \in Pieces(l), Laid(b, l, dam, at, recs),
         NEW m \in 1..Len(l), NEW p \in (at[m - 1] + 1)..at[m], b[p].part # 0
  PROVE  /\ at[m - 1] + SumAt(recs[m]) < p
         /\ b[p] = [num |-> CrcByte, of |-> Body(recs[m]), part |-> p - (at[m - 1] + SumAt(recs[m]))]
<1> DEFINE a == at[m - 1]
           r == recs[m]
           j == p - a
           q == SumAt(r)
<1>1. a \in Nat /\ at[m] \in Nat /\ r \in DataRecords /\ at[m] <= a + SizeOf(r)
  <2>1. m - 1 \in 0..Len(l) /\ m \in 0..Len(l)
    OBVIOUS
  <2>2. a \in Nat /\ at[m] \in Nat
    BY <2>1 DEF Places
  <2>3. r \in Encodables
    BY DEF Pieces
  <2>4. at[m] <= a + SizeOf(r)
    BY DEF Laid
  <2> QED  BY <2>2, <2>3, <2>4, EncodableFacts
<1>2. b[p] = Encode(r)[j]
  <2>1. \/ b[p] = Encode(r)[j]
        \/ b[p] \in PlainCells
    BY DEF Laid
  <2>2. b[p] \notin PlainCells
    BY CellFacts
  <2> QED  BY <2>1, <2>2
<1>3. q \in Nat /\ CrcSize \in Nat /\ SizeOf(r) = q + CrcSize
  BY <1>1, RecordFacts, BaseFacts DEF SizeOf
<1>4. /\ \A i \in 1..q : Encode(r)[i] \in PlainCells
      /\ \A i \in 1..CrcSize :
           Encode(r)[q + i] = [num |-> CrcByte, of |-> Body(r), part |-> i]
  BY <1>1, EncodeIs
<1>5. \A c \in PlainCells : c.part = 0
  BY CellFacts
<1> HIDE DEF a, r, q
<1>6. p \in Nat /\ j \in 1..SizeOf(r) /\ j \notin 1..q
  <2>1. j \in 1..SizeOf(r) /\ p \in Nat
    BY <1>1, <1>3 DEF a
  <2>2. j \in 1..q => b[p].part = 0
    BY <1>2, <1>4, <1>5
  <2> QED  BY <2>1, <2>2
<1>7. j - q \in 1..CrcSize /\ q + (j - q) = j /\ j - q = p - (a + q) /\ a + q < p
  BY <1>1, <1>3, <1>6
<1> HIDE DEF j
<1>8. Encode(r)[j] = [num |-> CrcByte, of |-> Body(r), part |-> j - q]
  BY <1>4, <1>7
<1> QED  BY <1>2, <1>7, <1>8 DEF a, r, q

(* What decode accepts where a piece begins is that piece, all of it and    *)
(* undamaged.                                                              *)
LEMMA AcceptedIsPiece ==
  ASSUME NEW b \in Seq(StoredCells), NEW l \in Seq(DataRecords \cup {Torn}), NEW dam,
         NEW at \in Places(l), NEW recs \in Pieces(l), Laid(b, l, dam, at, recs),
         NEW i \in 1..Len(l), Decode(From(b, at[i - 1])).kind = "ok"
  PROVE  /\ at[i] = at[i - 1] + SizeOf(recs[i])
         /\ \A p \in (at[i - 1] + 1)..at[i] : b[p] = Encode(recs[i])[p - at[i - 1]]
         /\ Decode(From(b, at[i - 1]))
              = [kind |-> "ok", size |-> SizeOf(recs[i]), record |-> recs[i]]
<1> DEFINE n == Len(l)
           o == at[i - 1]
           t == From(b, o)
           r == recs[i]
<1>1. /\ n \in Nat /\ Len(b) \in Nat /\ CrcSize \in Nat /\ CrcSize > 0
      /\ i - 1 \in 0..n /\ i \in 0..n /\ i \in 1..n
  BY BaseFacts
<1>2. /\ o \in 0..Len(b) /\ at[i] \in 0..Len(b)
      /\ o < at[i] /\ at[i] <= o + SizeOf(r)
  BY <1>1, PlacesGrow DEF Laid
<1>3. /\ r \in Encodables /\ r \in DataRecords /\ SumAt(r) \in Nat
      /\ SizeOf(r) = SumAt(r) + CrcSize
  <2>1. r \in Encodables
    BY DEF Pieces
  <2> QED  BY <2>1, EncodableFacts, RecordFacts DEF SizeOf
<1>4. /\ t \in Seq(StoredCells) /\ Len(t) = Len(b) - o
      /\ \A j \in 1..(Len(b) - o) : t[j] = b[o + j]
  BY <1>2, FromIs
<1>5. \A m \in 0..n : \A k \in 0..(m - 1) : at[k] < at[m]
  BY PlacesGrow
<1>6. \A m \in 0..n : at[m] \in 0..Len(b)
  BY PlacesGrow
<1> HIDE DEF t
<1>7. PICK q \in Nat : /\ q > 0 /\ q + CrcSize <= Len(t)
                       /\ SubSeq(t, q + 1, q + CrcSize) = Checksum(SubSeq(t, 1, q))
                       /\ Decode(t).size = q + CrcSize
  BY <1>4, AcceptedIs DEF t
<1>8. \A j \in 1..CrcSize :
         t[q + j] = [num |-> CrcByte, of |-> SubSeq(t, 1, q), part |-> j]
  BY <1>4, <1>7, AcceptedSum
<1> DEFINE B == SubSeq(t, 1, q)
<1>9. Len(B) = q /\ \A j \in 1..q : B[j] = t[j]
  <2>1. 0 \in Nat /\ 0 <= q /\ q <= Len(t) /\ 0 + 1 = 1 /\ q - 0 = q /\ \A j \in 1..q : 0 + j = j
    BY <1>1, <1>7
  <2>2. /\ Len(SubSeq(t, 0 + 1, q)) = q - 0
        /\ \A j \in 1..(q - 0) : SubSeq(t, 0 + 1, q)[j] = t[0 + j]
    BY <1>4, <2>1, SliceIs
  <2> QED  BY <2>1, <2>2
<1> HIDE DEF B
<1>10. \A j \in 1..CrcSize :
          /\ o + q + j \in 1..Len(b)
          /\ b[o + q + j] = [num |-> CrcByte, of |-> B, part |-> j]
  <2> SUFFICES ASSUME NEW j \in 1..CrcSize
               PROVE  /\ o + q + j \in 1..Len(b)
                      /\ b[o + q + j] = [num |-> CrcByte, of |-> B, part |-> j]
    OBVIOUS
  <2>1. q + j \in 1..(Len(b) - o) /\ o + (q + j) = o + q + j /\ o + q + j \in 1..Len(b)
    <3> HIDE DEF o
    <3> QED  BY <1>1, <1>2, <1>4, <1>7
  <2>2. t[q + j] = b[o + (q + j)]
    BY <2>1, <1>4
  <2>3. t[q + j] = [num |-> CrcByte, of |-> B, part |-> j]
    BY <1>8 DEF B
  <2> QED  BY <2>1, <2>2, <2>3
(* The first checksum cell tells the piece.                                *)
<1>11. PICK m \in 1..n : at[m - 1] < o + q + 1 /\ o + q + 1 <= at[m]
  <2>1. 1 \in 1..CrcSize
    BY <1>1
  <2>2. o + q + 1 \in 1..Len(b)
    BY <2>1, <1>10
  <2> QED  BY <2>2, PieceOf
<1>12. m = i /\ q = SumAt(r) /\ B = Body(r)
  <2> DEFINE p == o + q + 1
             c == recs[m]
             a == at[m - 1]
  <2>1. /\ m - 1 \in 0..n /\ m \in 0..n /\ a \in Nat /\ at[m] \in Nat /\ o \in Nat
        /\ p \in (a + 1)..at[m]
    <3>1. m - 1 \in 0..n /\ m \in 0..n
      BY <1>1
    <3>2. a \in Nat /\ at[m] \in Nat /\ o \in Nat
      BY <3>1, <1>2, <1>6
    <3> HIDE DEF o, a
    <3> QED  BY <3>1, <3>2, <1>7, <1>11 DEF a
  <2>2. b[p] = [num |-> CrcByte, of |-> B, part |-> 1]
    BY <1>1, <1>10
  <2>3. b[p].part # 0
    BY <2>2
  <2> HIDE DEF p, o
  <2>4. b[p] = [num |-> CrcByte, of |-> Body(c), part |-> p - (a + SumAt(c))]
    BY <2>1, <2>3, SumCellIs
  <2>5. B = Body(c) /\ 1 = p - (a + SumAt(c))
    BY <2>2, <2>4
  <2>6. c \in DataRecords
    BY EncodableFacts DEF Pieces
  <2>7. Len(B) = SumAt(c) /\ SumAt(c) \in Nat
    BY <2>5, <2>6, BodyIs, RecordFacts
  <2>8. q = SumAt(c)
    BY <1>9, <2>7
  <2>9. a = o
    <3>1. 1 = (o + q + 1) - (a + q)
      BY <2>5, <2>8 DEF p
    <3>2. a \in Nat /\ o \in Nat
      BY <2>1
    <3> HIDE DEF a
    <3> QED  BY <3>1, <3>2
  <2>10. m - 1 = i - 1
    <3>1. m - 1 < i - 1 => at[m - 1] < at[i - 1]
      BY <1>1, <1>5, <2>1
    <3>2. i - 1 < m - 1 => at[i - 1] < at[m - 1]
      BY <1>1, <1>5, <2>1
    <3>3. at[m - 1] = at[i - 1] /\ at[m - 1] \in Nat
      BY <2>1, <2>9 DEF o
    <3>4. ~(m - 1 < i - 1) /\ ~(i - 1 < m - 1)
      BY <3>1, <3>2, <3>3
    <3> QED  BY <1>1, <2>1, <3>4
  <2>11. m = i
    BY <1>1, <2>1, <2>10
  <2> QED  BY <2>5, <2>8, <2>11
(* The last one lies in the same piece: the next piece begins with a plain *)
(* cell.                                                                   *)
<1>13. at[i] = o + SizeOf(r)
  <2> SUFFICES ASSUME at[i] # o + SizeOf(r) PROVE FALSE
    OBVIOUS
  <2> DEFINE p == at[i] + 1
  <2>1. /\ p \in 1..Len(b) /\ p <= o + q + CrcSize /\ o + q + 1 <= at[i]
        /\ o \in Nat /\ at[i] \in Nat /\ at[i] < o + q + CrcSize /\ o + q + CrcSize <= Len(b)
    <3>1. o + q + 1 <= at[i]
      BY <1>11, <1>12
    <3>2. o \in Nat /\ at[i] \in Nat
      BY <1>2
    <3>3. o + q + CrcSize \in 1..Len(b)
      <4>1. CrcSize \in 1..CrcSize
        BY <1>1
      <4> QED  BY <4>1, <1>10
    <3> DEFINE z == at[i]
    <3> HIDE DEF o, z
    <3>4. z \in Nat /\ z <= o + SizeOf(r) /\ z # o + SizeOf(r) /\ SizeOf(r) = q + CrcSize
      BY <1>2, <1>3, <1>12, <3>2 DEF z, o
    <3>5. z < o + q + CrcSize /\ z + 1 <= o + q + CrcSize /\ z + 1 \in 1..Len(b)
      BY <1>1, <3>2, <3>3, <3>4
    <3> QED  BY <3>1, <3>2, <3>3, <3>5, <1>1 DEF z
  <2>2. \E j \in 1..CrcSize : p = o + q + j
    <3> DEFINE z == at[i]
               j == (z + 1) - (o + q)
    <3>1. z \in Nat /\ o \in Nat /\ o + q + 1 <= z /\ z < o + q + CrcSize
      BY <2>1
    <3> HIDE DEF z, o
    <3>2. j \in 1..CrcSize /\ z + 1 = o + q + j
      BY <1>1, <3>1
    <3> QED  BY <3>2 DEF z
  <2>3. b[p].part # 0
    <3>1. PICK j \in 1..CrcSize : p = o + q + j
      BY <2>2
    <3>2. b[o + q + j] = [num |-> CrcByte, of |-> B, part |-> j]
      BY <1>10
    <3> HIDE DEF p, o
    <3>3. b[p].part = j
      BY <3>1, <3>2
    <3> QED  BY <3>3, <1>1
  <2>4. PICK k \in 1..n : at[k - 1] < p /\ p <= at[k]
    BY <2>1, PieceOf
  <2>5. /\ k - 1 \in 0..n /\ k \in 0..n /\ at[k - 1] \in Nat /\ at[k] \in Nat
    <3>1. k - 1 \in 0..n /\ k \in 0..n
      BY <1>1
    <3> QED  BY <3>1, <1>6
  <2>6. at[k - 1] + SumAt(recs[k]) < p
    <3>1. p \in (at[k - 1] + 1)..at[k]
      <4> DEFINE x == at[k - 1]
                 y == at[k]
                 z == at[i]
      <4> HIDE DEF x, y, z
      <4>1. x \in Nat /\ y \in Nat /\ z \in Nat /\ x < z + 1 /\ z + 1 <= y
        BY <2>1, <2>4, <2>5 DEF x, y, z
      <4>2. z + 1 \in (x + 1)..y
        BY <4>1
      <4> QED  BY <4>2 DEF x, y, z
    <3> HIDE DEF p
    <3> QED  BY <2>3, <3>1, SumCellIs
  <2>7. recs[k] \in DataRecords
    BY EncodableFacts DEF Pieces
  <2>8. SumAt(recs[k]) \in Nat /\ SumAt(recs[k]) > 0
    <3> DEFINE s == SumAt(recs[k])
               v == ValAt(recs[k])
    <3>1. 1 + LenSize <= v /\ v <= s /\ v \in Nat /\ s \in Nat /\ LenSize \in Nat
      BY <2>7, RecordFacts, BaseFacts
    <3> HIDE DEF s, v
    <3>2. s > 0
      BY <3>1
    <3> QED  BY <3>1, <3>2 DEF s
  (* at[k - 1] < at[i] < at[k]: no such k *)
  <2>9. at[k - 1] < at[i] /\ at[i] < at[k]
    <3> DEFINE x == at[k - 1]
               y == at[k]
               z == at[i]
               s == SumAt(recs[k])
    <3> HIDE DEF x, y, z, s
    <3>1. x \in Nat /\ y \in Nat /\ z \in Nat /\ s \in Nat /\ s > 0
          /\ x + s < z + 1 /\ z + 1 <= y
      BY <2>1, <2>4, <2>5, <2>6, <2>8 DEF x, y, z, s
    <3>2. x < z /\ z < y
      BY <3>1
    <3> QED  BY <3>2 DEF x, y, z
  <2>10. i < k => ~(at[k - 1] < at[i])
    <3>1. ASSUME i < k PROVE i = k - 1 \/ i \in 0..((k - 1) - 1)
      BY <3>1, <1>1, <2>5
    <3>2. ASSUME i < k PROVE at[i] = at[k - 1] \/ at[i] < at[k - 1]
      BY <3>1, <3>2, <1>5, <2>5
    <3> DEFINE x == at[k - 1]
               z == at[i]
    <3>3. x \in Nat /\ z \in Nat /\ (i < k => z = x \/ z < x)
      BY <3>2, <2>1, <2>5
    <3> HIDE DEF x, z
    <3>4. i < k => ~(x < z)
      BY <3>3
    <3> QED  BY <3>4 DEF x, z
  <2>11. ~(i < k) => ~(at[i] < at[k])
    <3>1. ASSUME ~(i < k) PROVE i = k \/ k \in 0..(i - 1)
      BY <3>1, <1>1, <2>5
    <3>2. ASSUME ~(i < k) PROVE at[i] = at[k] \/ at[k] < at[i]
      BY <3>1, <3>2, <1>1, <1>5
    <3> DEFINE x == at[k]
               z == at[i]
    <3>3. x \in Nat /\ z \in Nat /\ (~(i < k) => z = x \/ x < z)
      BY <3>2, <2>1, <2>5
    <3> HIDE DEF x, z
    <3>4. ~(i < k) => ~(z < x)
      BY <3>3
    <3> QED  BY <3>4 DEF x, z
  <2> QED  BY <2>9, <2>10, <2>11
(* So all its cells are as they were written.                              *)
<1>14. \A j \in 1..SizeOf(r) : t[j] = Encode(r)[j] /\ b[o + j] = Encode(r)[j]
  <2> SUFFICES ASSUME NEW j \in 1..SizeOf(r)
               PROVE  t[j] = Encode(r)[j] /\ b[o + j] = Encode(r)[j]
    OBVIOUS
  <2>1. t[j] = b[o + j]
    <3>1. j \in 1..(Len(b) - o)
      <4> HIDE DEF o
      <4> QED  BY <1>1, <1>2, <1>3, <1>4, <1>7, <1>12
    <3> QED  BY <3>1, <1>4
  <2>2. CASE j \in 1..q
    <3>1. t[j] = Body(r)[j]
      BY <2>2, <1>9, <1>12
    <3>2. Encode(r)[j] = Body(r)[j]
      BY <2>2, <1>3, <1>12, EncodeIs
    <3> QED  BY <2>1, <3>1, <3>2
  <2>3. CASE j \notin 1..q
    <3>1. j - q \in 1..CrcSize /\ q + (j - q) = j
      BY <2>3, <1>1, <1>3, <1>12
    <3> DEFINE k == j - q
    <3>2. t[q + k] = [num |-> CrcByte, of |-> B, part |-> k]
      BY <3>1, <1>8 DEF B
    <3>3. Encode(r)[q + k] = [num |-> CrcByte, of |-> Body(r), part |-> k]
      BY <3>1, <1>3, <1>12, EncodeIs
    <3> QED  BY <2>1, <3>1, <3>2, <3>3, <1>12
  <2> QED  BY <2>2, <2>3
<1>15. Decode(t) = [kind |-> "ok", size |-> SizeOf(r), record |-> r]
  <2>1. SizeOf(r) <= Len(t)
    BY <1>3, <1>7, <1>12
  <2>2. Agrees(t, r, SizeOf(r))
    BY <1>14 DEF Agrees
  <2> QED  BY <1>3, <1>4, <2>1, <2>2, RoundTrip
<1>16. \A p \in (o + 1)..at[i] : b[p] = Encode(r)[p - o]
  <2> SUFFICES ASSUME NEW p \in (o + 1)..at[i] PROVE b[p] = Encode(r)[p - o]
    OBVIOUS
  <2>1. p - o \in 1..SizeOf(r) /\ o + (p - o) = p
    <3>1. o \in Nat /\ SizeOf(r) \in Nat /\ p \in (o + 1)..(o + SizeOf(r))
      BY <1>1, <1>2, <1>3, <1>13
    <3> HIDE DEF o
    <3> QED  BY <3>1
  <2> QED  BY <2>1, <1>14
<1> QED  BY <1>13, <1>15, <1>16 DEF t

(* Piece i is all there, and undamaged.                                    *)
Sound(b, at, recs, i) ==
  /\ at[i] = at[i - 1] + SizeOf(recs[i])
  /\ \A p \in (at[i - 1] + 1)..at[i] : b[p] = Encode(recs[i])[p - at[i - 1]]

(* The loop, begun behind piece i, has gone over the pieces up to k.       *)
Stops(b, l, at, recs, result, i, k) ==
  /\ result = [records |-> SubSeq(l, i + 1, k), end |-> at[k],
               outcome |-> IF k = Len(l) THEN "clean" ELSE Decode(From(b, at[k])).kind]
  /\ \A j \in (i + 1)..k : Sound(b, at, recs, j)
  /\ k # Len(l) => Decode(From(b, at[k])).kind # "ok"

(* From a piece that is sound the loop goes on to the next, and it stops   *)
(* at the first one that the decoder refuses.                              *)
LEMMA ScanStops ==
  ASSUME NEW b \in Seq(StoredCells), NEW l \in Seq(DataRecords \cup {Torn}), NEW dam,
         NEW at \in Places(l), NEW recs \in Pieces(l), Laid(b, l, dam, at, recs)
  PROVE  \E k \in 0..Len(l) : Stops(b, l, at, recs, Scan(b), 0, k)
<1> DEFINE n == Len(l)
           R == DataRecords \cup {Torn}
<1>1. PICK f : ScanStep(b, f) /\ f[0] = Scan(b)
  BY ScanIs
<1>2. n \in Nat /\ Len(b) \in Nat /\ at[0] = 0 /\ at[n] = Len(b)
  BY DEF Laid
<1>3. /\ \A j \in 0..n : \A i \in 0..(j - 1) : at[i] < at[j]
      /\ \A j \in 0..n : at[j] \in 0..Len(b)
  BY PlacesGrow
<1> HIDE DEF n, R
<1> DEFINE T == {i \in 0..n : \E k \in i..n : Stops(b, l, at, recs, f[at[i]], i, k)}
<1>4. n \in T
  <2>1. at[n] \in 0..Len(b)
    BY <1>2
  <2>2. f[at[n]] = [records |-> <<>>, end |-> at[n], outcome |-> "clean"]
    BY <1>1, <1>2, <2>1 DEF ScanStep
  <2>3. SubSeq(l, n + 1, n) = <<>>
    BY <1>2, SubSeqEmpty
  <2>4. Stops(b, l, at, recs, f[at[n]], n, n)
    <3>1. \A j \in (n + 1)..n : FALSE
      BY <1>2
    <3>2. ~(n < n)
      BY <1>2
    <3> QED  BY <2>2, <2>3, <3>1, <3>2 DEF Stops, n
  <2>5. n \in 0..n /\ n \in n..n
    BY <1>2
  <2> QED  BY <2>4, <2>5
<1>5. \A i \in 0..(n - 1) : i + 1 \in T => i \in T
  <2> SUFFICES ASSUME NEW i \in 0..(n - 1), i + 1 \in T PROVE i \in T
    OBVIOUS
  <2> DEFINE h == i + 1
             o == at[i]
             d == Decode(From(b, o))
  <2>1. /\ h \in 1..n /\ h - 1 = i /\ i \in 0..n /\ h \in 0..n /\ i \in 0..(h - 1) /\ i < n
        /\ i \in i..n
    BY <1>2
  <2>2. o \in 0..Len(b) /\ o # Len(b)
    <3>1. at[i] < at[n] /\ at[i] \in 0..Len(b)
      <4>1. n \in 0..n /\ i \in 0..(n - 1)
        BY <1>2
      <4> QED  BY <4>1, <1>3, <2>1
    <3> QED  BY <1>2, <3>1
  <2>3. f[o] = IF d.kind = "ok"
               THEN [f[o + d.size] EXCEPT !.records = <<d.record>> \o @]
               ELSE [records |-> <<>>, end |-> o, outcome |-> d.kind]
    <3>1. f[o] = IF o = Len(b)
                 THEN [records |-> <<>>, end |-> o, outcome |-> "clean"]
                 ELSE IF d.kind = "ok"
                 THEN [f[o + d.size] EXCEPT !.records = <<d.record>> \o @]
                 ELSE [records |-> <<>>, end |-> o, outcome |-> d.kind]
      BY <1>1, <2>2, Zenon DEF ScanStep
    <3> QED  BY <2>2, <3>1, Zenon
  <2>4. CASE d.kind # "ok"
    <3>1. f[o] = [records |-> <<>>, end |-> o, outcome |-> d.kind]
      BY <2>3, <2>4, Zenon
    <3>2. SubSeq(l, i + 1, i) = <<>>
      BY SubSeqEmpty
    <3>3. Stops(b, l, at, recs, f[o], i, i)
      <4>1. \A j \in (i + 1)..i : FALSE
        OBVIOUS
      <4>2. i # Len(l)
        BY <2>1 DEF n
      <4> HIDE DEF h
      <4> QED  BY <2>4, <3>1, <3>2, <4>1, <4>2 DEF Stops
    <3> QED  BY <2>1, <3>3
  <2>5. CASE d.kind = "ok"
    <3>1. /\ Sound(b, at, recs, h)
          /\ d = [kind |-> "ok", size |-> SizeOf(recs[h]), record |-> recs[h]]
      <4>1. h \in 1..Len(l) /\ Decode(From(b, at[h - 1])).kind = "ok"
        BY <2>1, <2>5 DEF n
      <4>2. /\ at[h] = at[h - 1] + SizeOf(recs[h])
            /\ \A p \in (at[h - 1] + 1)..at[h] : b[p] = Encode(recs[h])[p - at[h - 1]]
            /\ Decode(From(b, at[h - 1]))
                 = [kind |-> "ok", size |-> SizeOf(recs[h]), record |-> recs[h]]
        BY <4>1, AcceptedIsPiece
      <4> HIDE DEF h
      <4>3. Sound(b, at, recs, h)
        BY <4>2 DEF Sound
      <4> QED  BY <4>2, <4>3, <2>1
    <3>2. l[h] = recs[h] /\ at[h] = o + SizeOf(recs[h])
      <4>1. at[h] = at[h - 1] + SizeOf(recs[h])
        BY <3>1 DEF Sound
      <4>2. l[h] = IF at[h] = at[h - 1] + SizeOf(recs[h]) THEN recs[h] ELSE Torn
        <5>1. h \in 1..Len(l)
          BY <2>1 DEF n
        <5> HIDE DEF h
        <5> QED  BY <5>1, Zenon DEF Laid
      <4> HIDE DEF h
      <4> QED  BY <4>1, <4>2, <2>1
    <3>3. PICK k \in h..n : Stops(b, l, at, recs, f[at[h]], h, k)
      <4> HIDE DEF h
      <4>1. h \in T
        BY DEF h
      <4> QED  BY <4>1
    <3> DEFINE v == f[at[h]]
    <3>4. f[o] = [v EXCEPT !.records = <<l[h]>> \o @]
      <4>1. d.size = SizeOf(recs[h]) /\ d.record = recs[h]
        BY <3>1
      <4> HIDE DEF d, h
      <4>2. f[o] = [f[o + d.size] EXCEPT !.records = <<d.record>> \o @]
        BY <2>3, <2>5 DEF d
      <4> QED  BY <3>2, <4>1, <4>2
    <3>5. v = [records |-> SubSeq(l, h + 1, k), end |-> at[k],
               outcome |-> IF k = Len(l) THEN "clean" ELSE Decode(From(b, at[k])).kind]
      BY <3>3 DEF Stops
    <3>6. SubSeq(l, h, k) = <<l[h]>> \o SubSeq(l, h + 1, k)
      <4>1. h \in 1..Len(l) /\ k \in h..Len(l)
        BY <2>1, <3>3 DEF n
      <4>2. l \in Seq(R)
        BY DEF R
      <4> HIDE DEF h
      <4> QED  BY <4>1, <4>2, SubSeqRecursiveFirst
    <3>7. f[o] = [records |-> SubSeq(l, i + 1, k), end |-> at[k],
               outcome |-> IF k = Len(l) THEN "clean" ELSE Decode(From(b, at[k])).kind]
      <4> DEFINE oc == IF k = Len(l) THEN "clean" ELSE Decode(From(b, at[k])).kind
      <4> HIDE DEF v, oc, o
      <4>0. v = [records |-> SubSeq(l, h + 1, k), end |-> at[k], outcome |-> oc]
        BY <3>5 DEF oc
      <4>1. [v EXCEPT !.records = <<l[h]>> \o @]
              = [records |-> <<l[h]>> \o SubSeq(l, h + 1, k), end |-> at[k], outcome |-> oc]
        <5> DEFINE s == SubSeq(l, h + 1, k)
                   e == at[k]
                   y == <<l[h]>> \o s
        <5>1. v = [records |-> s, end |-> e, outcome |-> oc]
          BY <4>0
        <5> HIDE DEF s, e
        <5>2. v.records = s
          BY <5>1
        <5>3. <<l[h]>> \o v.records = y
          BY <5>2
        <5> HIDE DEF y
        <5>4. [v EXCEPT !.records = y] = [records |-> y, end |-> e, outcome |-> oc]
          BY <5>1
        <5>5. [v EXCEPT !.records = <<l[h]>> \o @] = [v EXCEPT !.records = y]
          BY <5>3, Zenon
        <5> QED  BY <5>4, <5>5 DEF s, e, y
      <4> QED  BY <3>4, <3>6, <4>1 DEF oc
    <3>8. \A j \in (i + 1)..k : Sound(b, at, recs, j)
      <4>1. \A j \in (h + 1)..k : Sound(b, at, recs, j)
        BY <3>3 DEF Stops
      <4>2. \A j \in (i + 1)..k : j = h \/ j \in (h + 1)..k
        OBVIOUS
      <4> QED  BY <3>1, <4>1, <4>2
    <3>9. k # Len(l) => Decode(From(b, at[k])).kind # "ok"
      BY <3>3 DEF Stops
    <3>10. k \in i..n
      BY <2>1, <3>3
    <3>11. Stops(b, l, at, recs, f[o], i, k)
      <4> HIDE DEF o, v
      <4> QED  BY <3>7, <3>8, <3>9 DEF Stops
    <3> QED  BY <2>1, <3>10, <3>11
  <2> QED  BY <2>4, <2>5
<1>6. \A i \in 0..n : i \in T
  <2> HIDE DEF T
  <2> QED  BY <1>2, <1>4, <1>5, DownwardInduction
<1>7. PICK k \in 0..n : Stops(b, l, at, recs, f[at[0]], 0, k)
  <2>1. 0 \in T
    BY <1>2, <1>6
  <2> QED  BY <2>1
<1> QED  BY <1>1, <1>2, <1>7 DEF n

(* What the scan has gone over, and what it stopped at.                    *)
Reads(b, l, dam, at, recs, k) ==
  /\ Scan(b).records = SubSeq(l, 1, k) /\ Scan(b).end = at[k]
  /\ \A i \in 1..k : Sound(b, at, recs, i) /\ l[i] # Torn
  /\ k = Len(l) => Scan(b).outcome = "clean"
  /\ ~dam /\ k # Len(l) => l[k + 1] = Torn
  /\ ~dam /\ k # Len(l) /\ k + 1 = Len(l) => Scan(b).outcome = "truncated"

(* So replay returns the records before that one.                          *)
LEMMA ScanReads ==
  ASSUME NEW b \in Seq(StoredCells), NEW l \in Seq(DataRecords \cup {Torn}), NEW dam,
         NEW at \in Places(l), NEW recs \in Pieces(l), Laid(b, l, dam, at, recs)
  PROVE  \E k \in 0..Len(l) : Reads(b, l, dam, at, recs, k)
<1>1. PICK k \in 0..Len(l) : Stops(b, l, at, recs, Scan(b), 0, k)
  BY ScanStops
<1>2. Len(l) \in Nat /\ Len(b) \in Nat
  OBVIOUS
<1>3. Scan(b).records = SubSeq(l, 1, k) /\ Scan(b).end = at[k]
      /\ Scan(b).outcome = IF k = Len(l) THEN "clean" ELSE Decode(From(b, at[k])).kind
  <2>1. 0 + 1 = 1
    OBVIOUS
  <2>2. Scan(b) = [records |-> SubSeq(l, 1, k), end |-> at[k],
               outcome |-> IF k = Len(l) THEN "clean" ELSE Decode(From(b, at[k])).kind]
    BY <1>1, <2>1 DEF Stops
  <2> QED  BY <2>2
<1>4. ASSUME NEW i \in 1..k PROVE Sound(b, at, recs, i) /\ l[i] # Torn
  <2>1. i \in 1..Len(l) /\ i \in (0 + 1)..k
    BY <1>2
  <2>2. Sound(b, at, recs, i)
    BY <1>1, <2>1 DEF Stops
  <2>3. l[i] = recs[i]
    BY <2>1, <2>2, Zenon DEF Sound, Laid
  <2>4. recs[i] \in DataRecords
    BY <2>1, EncodableFacts DEF Pieces
  <2> QED  BY <2>2, <2>3, <2>4, TornAssumption
<1>5. ASSUME k # Len(l) PROVE Decode(From(b, at[k])).kind # "ok"
  BY <1>1, <1>5 DEF Stops
<1>6. ASSUME k # Len(l), ~dam
      PROVE  /\ l[k + 1] = Torn
             /\ k + 1 = Len(l) => Decode(From(b, at[k])).kind = "truncated"
  <2> DEFINE h == k + 1
             r == recs[h]
             o == at[k]
             t == From(b, o)
  <2>1. h \in 1..Len(l) /\ h - 1 = k /\ k \in 0..Len(l) /\ h \in 0..Len(l)
    BY <1>2, <1>6
  <2>2. /\ o \in 0..Len(b) /\ at[h] \in 0..Len(b)
    BY <2>1, PlacesGrow
  <2>3. /\ o < at[h] /\ at[h] <= o + SizeOf(r)
        /\ l[h] = IF at[h] = o + SizeOf(r) THEN r ELSE Torn
        /\ \A p \in (o + 1)..at[h] : b[p] = Encode(r)[p - o]
    <3>1. /\ at[h - 1] < at[h] /\ at[h] <= at[h - 1] + SizeOf(recs[h])
          /\ l[h] = IF at[h] = at[h - 1] + SizeOf(recs[h]) THEN recs[h] ELSE Torn
          /\ \A p \in (at[h - 1] + 1)..at[h] : b[p] = Encode(recs[h])[p - at[h - 1]]
      <4> HIDE DEF h
      <4> QED  BY <1>6, <2>1, Zenon DEF Laid
    <3> QED  BY <2>1, <3>1
  <2>4. /\ t \in Seq(StoredCells) /\ Len(t) = Len(b) - o
        /\ \A j \in 1..(Len(b) - o) : t[j] = b[o + j]
    BY <2>2, FromIs
  <2>5. r \in Encodables /\ SizeOf(r) \in Nat
    <3>1. r \in Encodables
      BY <2>1 DEF Pieces
    <3> QED  BY <3>1, EncodableFacts, RecordFacts
  <2> HIDE DEF h, r, t
  <2>6. \A j \in 1..(at[h] - o) : t[j] = Encode(r)[j]
    <3> SUFFICES ASSUME NEW j \in 1..(at[h] - o) PROVE t[j] = Encode(r)[j]
      OBVIOUS
    <3>1. o + j \in (o + 1)..at[h] /\ (o + j) - o = j /\ j \in 1..(Len(b) - o)
      <4> DEFINE z == at[h]
      <4>1. z \in Nat /\ o \in Nat /\ z <= Len(b) /\ j \in 1..(z - o)
        BY <2>2
      <4> HIDE DEF z, o
      <4>2. o + j \in (o + 1)..z /\ (o + j) - o = j /\ j \in 1..(Len(b) - o)
        BY <1>2, <4>1
      <4> QED  BY <4>2 DEF z
    <3>2. b[o + j] = Encode(r)[(o + j) - o]
      BY <2>3, <3>1
    <3> QED  BY <2>4, <3>1, <3>2
  <2>7. at[h] # o + SizeOf(r)
    <3> SUFFICES ASSUME at[h] = o + SizeOf(r) PROVE FALSE
      OBVIOUS
    <3>1. SizeOf(r) <= Len(t) /\ at[h] - o = SizeOf(r)
      BY <1>2, <2>2, <2>4, <2>5
    <3>2. Agrees(t, r, SizeOf(r))
      BY <2>6, <3>1 DEF Agrees
    <3>3. Decode(t) = [kind |-> "ok", size |-> SizeOf(r), record |-> r]
      BY <2>4, <2>5, <3>1, <3>2, RoundTrip
    <3>4. Decode(t).kind = "ok"
      BY <3>3
    <3> QED  BY <1>5, <1>6, <3>4 DEF t
  <2>8. l[h] = Torn
    BY <2>3, <2>7
  <2>9. ASSUME h = Len(l) PROVE Decode(t).kind = "truncated"
    <3>1. at[h] = Len(b)
      BY <2>9 DEF Laid
    <3>2. Len(t) = at[h] - o /\ Len(t) < SizeOf(r)
      BY <1>2, <2>2, <2>3, <2>4, <2>5, <2>7, <3>1
    <3>3. Agrees(t, r, Len(t))
      BY <2>6, <3>2 DEF Agrees
    <3>4. Decode(t) = Truncated
      BY <2>4, <2>5, <3>2, <3>3, CutIsTruncated
    <3> QED  BY <3>4 DEF Truncated
  <2> QED  BY <2>8, <2>9 DEF h, t
<1>7. Reads(b, l, dam, at, recs, k)
  BY <1>3, <1>4, <1>6 DEF Reads
<1> QED  BY <1>7

(* A record, or the front of one, goes behind the others.                  *)
LEMMA LaidMore ==
  ASSUME NEW b \in Seq(StoredCells), NEW l \in Seq(DataRecords \cup {Torn}), NEW dam,
         NEW at \in Places(l), NEW recs \in Pieces(l), Laid(b, l, dam, at, recs),
         NEW r \in Encodables, NEW n \in 1..SizeOf(r),
         NEW x, x = IF n = SizeOf(r) THEN r ELSE Torn
  PROVE  LET l2 == Append(l, x)
             b2 == b \o SubSeq(Encode(r), 1, n)
         IN /\ b2 \in Seq(StoredCells) /\ l2 \in Seq(DataRecords \cup {Torn})
            /\ \E at2 \in Places(l2), recs2 \in Pieces(l2) : Laid(b2, l2, dam, at2, recs2)
<1> DEFINE l2 == Append(l, x)
           s == SubSeq(Encode(r), 1, n)
           b2 == b \o s
           m == Len(l)
           L == Len(b)
           at2 == [i \in 0..(m + 1) |-> IF i = m + 1 THEN L + n ELSE at[i]]
           recs2 == [i \in 1..(m + 1) |-> IF i = m + 1 THEN r ELSE recs[i]]
           R == DataRecords \cup {Torn}
<1>1. /\ r \in DataRecords /\ SizeOf(r) \in Nat /\ n \in Nat /\ n > 0 /\ n <= SizeOf(r)
      /\ Encode(r) \in Seq(StoredCells) /\ Len(Encode(r)) = SizeOf(r)
      /\ m \in Nat /\ L \in Nat
  <2>1. r \in DataRecords
    BY EncodableFacts
  <2>2. SizeOf(r) \in Nat /\ Encode(r) \in Seq(StoredCells) /\ Len(Encode(r)) = SizeOf(r)
    BY <2>1, RecordFacts, EncodeIs
  <2> QED  BY <2>1, <2>2
<1>2. s \in Seq(StoredCells) /\ Len(s) = n /\ \A j \in 1..n : s[j] = Encode(r)[j]
  <2> DEFINE e == Encode(r)
  <2>1. 0 \in Nat /\ 0 <= n /\ n <= Len(e) /\ 0 + 1 = 1 /\ n - 0 = n /\ \A j \in 1..n : 0 + j = j
    BY <1>1
  <2>2. e \in Seq(StoredCells)
    BY <1>1
  <2> HIDE DEF e
  <2>3. /\ SubSeq(e, 0 + 1, n) \in Seq(StoredCells) /\ Len(SubSeq(e, 0 + 1, n)) = n - 0
        /\ \A j \in 1..(n - 0) : SubSeq(e, 0 + 1, n)[j] = e[0 + j]
    BY <1>1, <2>1, <2>2, SliceIs
  <2> QED  BY <2>1, <2>3 DEF e
<1> HIDE DEF s
<1>3. /\ b2 \in Seq(StoredCells) /\ Len(b2) = L + n
      /\ \A j \in 1..L : b2[j] = b[j]
      /\ \A j \in 1..n : b2[L + j] = s[j]
  <2>1. s \in Seq(StoredCells)
    BY <1>2
  <2>2. /\ b2 \in Seq(StoredCells) /\ Len(b2) = L + Len(s)
        /\ \A j \in 1..L : b2[j] = b[j]
        /\ \A j \in 1..Len(s) : b2[L + j] = s[j]
    BY <2>1, ConcatIs
  <2> HIDE DEF b2
  <2> QED  BY <1>2, <2>2
<1>4. x \in R
  <2>1. r \in R
    BY <1>1
  <2> QED  BY <2>1
<1>5. /\ l2 \in Seq(R) /\ Len(l2) = m + 1 /\ l2[m + 1] = x
      /\ \A i \in 1..m : l2[i] = l[i]
  <2> HIDE DEF R
  <2>1. l \in Seq(R)
    BY DEF R
  <2> QED  BY <1>4, <2>1
<1>6. /\ at \in [0..m -> Nat] /\ recs \in [1..m -> Encodables]
      /\ at[0] = 0 /\ at[m] = L
      /\ \A i \in 0..m : at[i] \in 0..L
  BY PlacesGrow DEF Places, Pieces, Laid
<1>7. \A i \in 1..m :
       /\ at[i - 1] < at[i] /\ at[i] <= at[i - 1] + SizeOf(recs[i])
       /\ l[i] = IF at[i] = at[i - 1] + SizeOf(recs[i]) THEN recs[i] ELSE Torn
       /\ \A p \in (at[i - 1] + 1)..at[i] :
            \/ b[p] = Encode(recs[i])[p - at[i - 1]]
            \/ dam /\ b[p] \in PlainCells
  BY Zenon DEF Laid
<1> HIDE DEF l2, b2, m, L, R
<1>8. at2 \in Places(l2) /\ recs2 \in Pieces(l2)
  <2>1. \A i \in 0..(m + 1) : i # m + 1 => i \in 0..m
    BY <1>1
  <2>2. \A i \in 1..(m + 1) : i # m + 1 => i \in 1..m
    BY <1>1
  <2>3. L + n \in Nat
    BY <1>1
  <2>4. at2 \in [0..(m + 1) -> Nat]
    BY <1>6, <2>1, <2>3
  <2>5. recs2 \in [1..(m + 1) -> Encodables]
    BY <1>6, <2>2
  <2> QED  BY <1>5, <2>4, <2>5 DEF Places, Pieces
<1>9. /\ at2[m + 1] = L + n /\ recs2[m + 1] = r /\ at2[m] = L /\ at2[0] = 0
      /\ \A i \in 1..m : at2[i] = at[i] /\ at2[i - 1] = at[i - 1] /\ recs2[i] = recs[i]
      /\ \A i \in 1..m : i \in 0..m /\ i - 1 \in 0..m
  <2>1. /\ m + 1 \in 0..(m + 1) /\ m + 1 \in 1..(m + 1) /\ m \in 0..(m + 1) /\ m # m + 1
        /\ 0 \in 0..(m + 1) /\ 0 # m + 1
        /\ \A i \in 1..m : /\ i \in 0..(m + 1) /\ i - 1 \in 0..(m + 1) /\ i \in 1..(m + 1)
                           /\ i # m + 1 /\ i - 1 # m + 1
        /\ \A i \in 1..m : i \in 0..m /\ i - 1 \in 0..m
    BY <1>1
  <2> QED  BY <1>6, <2>1
<1> HIDE DEF at2, recs2
<1>10. ASSUME NEW i \in 1..m
       PROVE  /\ at2[i - 1] < at2[i] /\ at2[i] <= at2[i - 1] + SizeOf(recs2[i])
              /\ l2[i] = IF at2[i] = at2[i - 1] + SizeOf(recs2[i]) THEN recs2[i] ELSE Torn
              /\ \A p \in (at2[i - 1] + 1)..at2[i] :
                   \/ b2[p] = Encode(recs2[i])[p - at2[i - 1]]
                   \/ dam /\ b2[p] \in PlainCells
  <2>1. \A p \in (at[i - 1] + 1)..at[i] : p \in 1..L
    <3> DEFINE y == at[i - 1]
               z == at[i]
    <3>1. y \in 0..L /\ z \in 0..L
      BY <1>6, <1>9
    <3> HIDE DEF y, z
    <3>2. \A p \in (y + 1)..z : p \in 1..L
      BY <1>1, <3>1
    <3> QED  BY <3>2 DEF y, z
  <2>2. at2[i] = at[i] /\ at2[i - 1] = at[i - 1] /\ recs2[i] = recs[i] /\ l2[i] = l[i]
    BY <1>5, <1>9
  <2>3. /\ at[i - 1] < at[i] /\ at[i] <= at[i - 1] + SizeOf(recs[i])
        /\ l[i] = IF at[i] = at[i - 1] + SizeOf(recs[i]) THEN recs[i] ELSE Torn
    BY <1>7, Zenon
  <2>4. ASSUME NEW p \in (at[i - 1] + 1)..at[i]
        PROVE  \/ b2[p] = Encode(recs[i])[p - at[i - 1]]
               \/ dam /\ b2[p] \in PlainCells
    <3>1. b2[p] = b[p]
      BY <1>3, <2>1
    <3>2. \/ b[p] = Encode(recs[i])[p - at[i - 1]]
          \/ dam /\ b[p] \in PlainCells
      BY <1>7, Zenon
    <3> QED  BY <3>1, <3>2, Zenon
  <2> QED  BY <2>2, <2>3, <2>4, Zenon
<1>11. /\ L < L + n /\ L + n <= L + SizeOf(r)
       /\ l2[m + 1] = IF L + n = L + SizeOf(r) THEN r ELSE Torn
       /\ \A p \in (L + 1)..(L + n) : b2[p] = Encode(r)[p - L]
  <2>1. \A p \in (L + 1)..(L + n) : p - L \in 1..n /\ L + (p - L) = p
    BY <1>1
  <2>2. (L + n = L + SizeOf(r)) <=> n = SizeOf(r)
    BY <1>1
  <2>3. \A p \in (L + 1)..(L + n) : b2[p] = Encode(r)[p - L]
    BY <1>2, <1>3, <2>1
  <2>4. L < L + n /\ L + n <= L + SizeOf(r)
    BY <1>1
  <2> QED  BY <1>5, <2>2, <2>3, <2>4
<1>12. Laid(b2, l2, dam, at2, recs2)
  <2>1. at2[0] = 0 /\ at2[Len(l2)] = Len(b2)
    BY <1>3, <1>5, <1>9
  <2>2. ASSUME NEW i \in 1..Len(l2)
       PROVE  /\ at2[i - 1] < at2[i] /\ at2[i] <= at2[i - 1] + SizeOf(recs2[i])
              /\ l2[i] = IF at2[i] = at2[i - 1] + SizeOf(recs2[i]) THEN recs2[i] ELSE Torn
              /\ \A p \in (at2[i - 1] + 1)..at2[i] :
                   \/ b2[p] = Encode(recs2[i])[p - at2[i - 1]]
                   \/ dam /\ b2[p] \in PlainCells
    <3>1. i \in 1..m \/ i = m + 1
      BY <1>1, <1>5
    <3>2. CASE i \in 1..m
      BY <1>10, <3>2, Zenon
    <3>3. CASE i = m + 1
      <4>1. i - 1 = m
        BY <1>1, <3>3
      <4>2. at2[i] = L + n /\ at2[i - 1] = L /\ recs2[i] = r
        BY <1>9, <3>3, <4>1
      <4> QED  BY <1>11, <3>3, <4>2, Zenon
    <3> QED  BY <3>1, <3>2, <3>3
  <2> QED  BY <2>1, <2>2, Zenon DEF Laid
<1> QED  BY <1>3, <1>5, <1>8, <1>12 DEF l2, b2, R, s

(* The pieces before a cut are still the pieces of what is left.           *)
LEMMA LaidLess ==
  ASSUME NEW b \in Seq(StoredCells), NEW l \in Seq(DataRecords \cup {Torn}), NEW dam,
         NEW at \in Places(l), NEW recs \in Pieces(l), Laid(b, l, dam, at, recs),
         NEW k \in 0..Len(l), \A i \in 1..k : Sound(b, at, recs, i)
  PROVE  LET l2 == SubSeq(l, 1, k)
             b2 == SubSeq(b, 1, at[k])
         IN /\ b2 \in Seq(StoredCells) /\ l2 \in Seq(DataRecords \cup {Torn})
            /\ \E at2 \in Places(l2), recs2 \in Pieces(l2) : Laid(b2, l2, FALSE, at2, recs2)
<1> DEFINE l2 == SubSeq(l, 1, k)
           o == at[k]
           b2 == SubSeq(b, 1, o)
           R == DataRecords \cup {Torn}
           at2 == [i \in 0..k |-> at[i]]
           recs2 == [i \in 1..k |-> recs[i]]
<1>1. /\ k \in Nat /\ k <= Len(l) /\ Len(l) \in Nat /\ Len(b) \in Nat
      /\ o \in 0..Len(b) /\ o \in Nat /\ o <= Len(b)
  <2>1. k \in Nat /\ k <= Len(l) /\ Len(l) \in Nat /\ Len(b) \in Nat
    OBVIOUS
  <2>2. o \in 0..Len(b)
    BY PlacesGrow
  <2> QED  BY <2>1, <2>2
<1>2. /\ at \in [0..Len(l) -> Nat] /\ recs \in [1..Len(l) -> Encodables] /\ at[0] = 0
      /\ \A j \in 0..Len(l) : \A i \in 0..(j - 1) : at[i] < at[j]
      /\ \A j \in 0..Len(l) : at[j] \in 0..Len(b)
  BY PlacesGrow DEF Places, Pieces, Laid
<1>3. b2 \in Seq(StoredCells) /\ Len(b2) = o /\ \A j \in 1..o : b2[j] = b[j]
  <2>1. 0 \in Nat /\ 0 <= o /\ 0 + 1 = 1 /\ o - 0 = o /\ \A j \in 1..o : 0 + j = j
    BY <1>1
  <2> HIDE DEF o
  <2>2. /\ SubSeq(b, 0 + 1, o) \in Seq(StoredCells) /\ Len(SubSeq(b, 0 + 1, o)) = o - 0
        /\ \A j \in 1..(o - 0) : SubSeq(b, 0 + 1, o)[j] = b[0 + j]
    BY <1>1, <2>1, SliceIs
  <2> QED  BY <2>1, <2>2
<1>4. l2 \in Seq(R) /\ Len(l2) = k /\ \A j \in 1..k : l2[j] = l[j]
  <2>1. 0 \in Nat /\ 0 <= k /\ 0 + 1 = 1 /\ k - 0 = k /\ \A j \in 1..k : 0 + j = j
    BY <1>1
  <2>2. l \in Seq(R)
    OBVIOUS
  <2> HIDE DEF R
  <2>3. /\ SubSeq(l, 0 + 1, k) \in Seq(R) /\ Len(SubSeq(l, 0 + 1, k)) = k - 0
        /\ \A j \in 1..(k - 0) : SubSeq(l, 0 + 1, k)[j] = l[0 + j]
    BY <1>1, <2>1, <2>2, SliceIs
  <2> QED  BY <2>1, <2>3
<1> HIDE DEF l2, b2, o, R
<1>5. at2 \in Places(l2) /\ recs2 \in Pieces(l2)
  <2>1. (\A i \in 0..k : i \in 0..Len(l)) /\ (\A i \in 1..k : i \in 1..Len(l))
    BY <1>1
  <2> QED  BY <1>2, <1>4, <2>1 DEF Places, Pieces
<1>6. /\ at2[0] = 0 /\ at2[k] = o
      /\ \A i \in 1..k : at2[i] = at[i] /\ at2[i - 1] = at[i - 1] /\ recs2[i] = recs[i]
  <2>1. 0 \in 0..k /\ k \in 0..k /\ \A i \in 1..k : i \in 0..k /\ i - 1 \in 0..k
    BY <1>1
  <2> QED  BY <1>2, <2>1 DEF o
<1> HIDE DEF at2, recs2
<1>7. ASSUME NEW i \in 1..k
      PROVE  /\ at[i - 1] < at[i] /\ at[i] <= at[i - 1] + SizeOf(recs[i])
             /\ l2[i] = IF at[i] = at[i - 1] + SizeOf(recs[i]) THEN recs[i] ELSE Torn
             /\ \A p \in (at[i - 1] + 1)..at[i] : b2[p] = Encode(recs[i])[p - at[i - 1]]
  <2>1. i \in 1..Len(l) /\ i \in 0..Len(l) /\ i - 1 \in 0..Len(l)
    BY <1>1
  <2>2. /\ at[i - 1] < at[i] /\ at[i] <= at[i - 1] + SizeOf(recs[i])
        /\ l[i] = IF at[i] = at[i - 1] + SizeOf(recs[i]) THEN recs[i] ELSE Torn
    BY <2>1, Zenon DEF Laid
  <2>3. \A p \in (at[i - 1] + 1)..at[i] : b[p] = Encode(recs[i])[p - at[i - 1]]
    BY DEF Sound
  <2>4. \A p \in (at[i - 1] + 1)..at[i] : p \in 1..o
    <3> DEFINE y == at[i - 1]
               z == at[i]
    <3>1. y \in Nat /\ z \in Nat
      BY <1>2, <2>1
    <3>2. z <= o
      <4>1. i = k \/ i \in 0..(k - 1)
        BY <1>1
      <4>2. i = k \/ at[i] < at[k]
        BY <4>1, <1>2
      <4>3. z = o \/ z < o
        BY <4>2 DEF o
      <4> HIDE DEF z
      <4> QED  BY <4>3, <1>1, <3>1
    <3> HIDE DEF y, z
    <3>3. \A p \in (y + 1)..z : p \in 1..o
      BY <1>1, <3>1, <3>2
    <3> QED  BY <3>3 DEF y, z
  <2>5. l2[i] = l[i]
    BY <1>4
  <2>6. \A p \in (at[i - 1] + 1)..at[i] : b2[p] = Encode(recs[i])[p - at[i - 1]]
    BY <1>3, <2>3, <2>4
  <2> QED  BY <2>2, <2>5, <2>6, Zenon
<1>8. Laid(b2, l2, FALSE, at2, recs2)
  <2>1. at2[Len(l2)] = Len(b2)
    BY <1>3, <1>4, <1>6
  <2>2. ASSUME NEW i \in 1..Len(l2)
       PROVE  /\ at2[i - 1] < at2[i] /\ at2[i] <= at2[i - 1] + SizeOf(recs2[i])
              /\ l2[i] = IF at2[i] = at2[i - 1] + SizeOf(recs2[i]) THEN recs2[i] ELSE Torn
              /\ \A p \in (at2[i - 1] + 1)..at2[i] :
                   \/ b2[p] = Encode(recs2[i])[p - at2[i - 1]]
                   \/ FALSE /\ b2[p] \in PlainCells
    <3>1. i \in 1..k
      BY <1>4
    <3>2. at2[i] = at[i] /\ at2[i - 1] = at[i - 1] /\ recs2[i] = recs[i]
      BY <3>1, <1>6
    <3> QED  BY <1>7, <3>1, <3>2, Zenon
  <2> QED  BY <1>6, <2>1, <2>2, Zenon DEF Laid
<1> QED  BY <1>3, <1>4, <1>5, <1>8 DEF l2, b2, o, R

(* A changed byte leaves the pieces where they are.                        *)
LEMMA LaidDamaged ==
  ASSUME NEW b \in Seq(StoredCells), NEW l \in Seq(DataRecords \cup {Torn}), NEW dam,
         NEW at \in Places(l), NEW recs \in Pieces(l), Laid(b, l, dam, at, recs),
         NEW i \in DOMAIN b, NEW c \in PlainCells
  PROVE  /\ [b EXCEPT ![i] = c] \in Seq(StoredCells)
         /\ Laid([b EXCEPT ![i] = c], l, TRUE, at, recs)
<1> DEFINE b2 == [b EXCEPT ![i] = c]
<1>1. i \in 1..Len(b) /\ c \in StoredCells
  BY DEF StoredCells
<1>2. /\ b2 \in Seq(StoredCells) /\ Len(b2) = Len(b)
      /\ \A p \in 1..Len(b) : b2[p] = IF p = i THEN c ELSE b[p]
  BY <1>1, ExceptSeq
<1>3. \A j \in 0..Len(l) : at[j] \in 0..Len(b)
  BY PlacesGrow
<1> HIDE DEF b2
<1>4. ASSUME NEW m \in 1..Len(l), NEW p \in (at[m - 1] + 1)..at[m]
      PROVE  \/ b2[p] = Encode(recs[m])[p - at[m - 1]]
             \/ TRUE /\ b2[p] \in PlainCells
  <2>1. p \in 1..Len(b)
    <3> DEFINE y == at[m - 1]
               z == at[m]
    <3>1. m - 1 \in 0..Len(l) /\ m \in 0..Len(l)
      OBVIOUS
    <3>2. y \in 0..Len(b) /\ z \in 0..Len(b)
      BY <1>3, <3>1
    <3> HIDE DEF y, z
    <3>3. \A q \in (y + 1)..z : q \in 1..Len(b)
      BY <3>2
    <3> QED  BY <3>3 DEF y, z
  <2>2. \/ b[p] = Encode(recs[m])[p - at[m - 1]]
        \/ dam /\ b[p] \in PlainCells
    BY Zenon DEF Laid
  <2>3. b2[p] = IF p = i THEN c ELSE b[p]
    BY <1>2, <2>1
  <2> QED  BY <2>2, <2>3, Zenon
<1>5. /\ at[0] = 0 /\ at[Len(l)] = Len(b2)
      /\ \A m \in 1..Len(l) :
           /\ at[m - 1] < at[m] /\ at[m] <= at[m - 1] + SizeOf(recs[m])
           /\ l[m] = IF at[m] = at[m - 1] + SizeOf(recs[m]) THEN recs[m] ELSE Torn
  BY <1>2, Zenon DEF Laid
<1>6. Laid(b2, l, TRUE, at, recs)
  BY <1>4, <1>5, Zenon DEF Laid
<1> QED  BY <1>2, <1>6 DEF b2

(* A file without a record.                                                *)
LEMMA NoPieces ==
  /\ <<>> \in Seq(StoredCells) /\ <<>> \in Seq(DataRecords \cup {Torn})
  /\ \E at \in Places(<<>>), recs \in Pieces(<<>>) : Laid(<<>>, <<>>, FALSE, at, recs)
<1> DEFINE at == [i \in 0..0 |-> 0]
           recs == [i \in 1..0 |-> CHOOSE r \in Encodables : TRUE]
<1>1. Len(<<>>) = 0 /\ 0 \in 0..0 /\ 1..0 = {}
  OBVIOUS
<1>2. at \in Places(<<>>) /\ recs \in Pieces(<<>>)
  BY <1>1 DEF Places, Pieces
<1>3. Laid(<<>>, <<>>, FALSE, at, recs)
  BY <1>1 DEF Laid
<1>4. <<>> \in Seq(StoredCells) /\ <<>> \in Seq(DataRecords \cup {Torn})
  BY EmptySeq
<1> QED  BY <1>2, <1>3, <1>4

LEMMA PrefixIs ==
  ASSUME NEW S, NEW s \in Seq(S), NEW t \in Seq(S), Len(s) <= Len(t),
         \A j \in 1..Len(s) : s[j] = t[j]
  PROVE  IsPrefix(s, t)
<1>1. SubSeq(s, 1, Len(s)) = s
  BY SubSeqFull
<1>2. Len(s) \in Nat /\ Len(t) \in Nat
  OBVIOUS
<1>3. SubSeq(t, 0 + 1, 0 + Len(s)) = s
  <2>1. 0 \in Nat /\ 0 + Len(s) <= Len(t) /\ \A j \in 1..Len(s) : t[0 + j] = s[j]
    BY <1>2
  <2> QED  BY <2>1, PartIs
<1>4. SubSeq(t, 1, Len(s)) = s
  <2>1. 0 + 1 = 1 /\ 0 + Len(s) = Len(s)
    BY <1>2
  <2> QED  BY <1>3, <2>1
<1> QED  BY <1>1, <1>2, <1>4, Zenon DEF IsPrefix

-----------------------------------------------------------------------------
(***************************************************************************)
(* The log's actions                                                       *)
(***************************************************************************)

LEMMA InitEstablishes == WalInit => WalInv
<1> SUFFICES ASSUME WalInit PROVE WalInv
  OBVIOUS
<1>1. file = <<>> /\ log = <<>> /\ damaged = FALSE
  BY DEF WalInit
<1> QED  BY <1>1, NoPieces DEF WalInv, WalType

LEMMA WalAppendPreserves ==
  ASSUME WalInv, NEW r \in DataRecords, WalAppend(r)
  PROVE  WalInv'
<1>1. PICK at \in Places(log), recs \in Pieces(log) : Laid(file, log, damaged, at, recs)
  BY DEF WalInv
<1>2. /\ file \in Seq(StoredCells) /\ log \in Seq(DataRecords \cup {Torn})
      /\ damaged \in BOOLEAN
  BY DEF WalInv, WalType
<1>3. /\ r \in Encodables /\ file' = file \o Encode(r) /\ log' = Append(log, r)
      /\ damaged' = damaged
  BY DEF WalAppend, Encodables
<1>4. /\ Encode(r) \in Seq(StoredCells) /\ Len(Encode(r)) = SizeOf(r)
      /\ SizeOf(r) \in Nat /\ SumAt(r) \in Nat /\ SumAt(r) < SizeOf(r)
  BY RecordFacts, EncodeIs
<1> DEFINE e == Encode(r)
           n == SizeOf(r)
<1>5. n \in 1..n
  BY <1>4
<1>6. SubSeq(e, 1, n) = e
  <2>1. SubSeq(e, 1, Len(e)) = e
    BY <1>4, SubSeqFull
  <2> QED  BY <1>4, <2>1
<1> HIDE DEF e, n
<1>7. /\ file \o SubSeq(e, 1, n) \in Seq(StoredCells)
      /\ Append(log, r) \in Seq(DataRecords \cup {Torn})
      /\ \E at2 \in Places(Append(log, r)), recs2 \in Pieces(Append(log, r)) :
           Laid(file \o SubSeq(e, 1, n), Append(log, r), damaged, at2, recs2)
  <2>1. r = IF n = SizeOf(r) THEN r ELSE Torn
    BY DEF n
  <2>2. n \in 1..SizeOf(r)
    BY <1>5 DEF n
  <2> QED  BY <1>1, <1>2, <1>3, <2>1, <2>2, LaidMore DEF e
<1> QED  BY <1>2, <1>3, <1>6, <1>7 DEF WalInv, WalType, e

LEMMA AppendCutPreserves ==
  ASSUME WalInv, NEW r \in DataRecords, AppendCut(r)
  PROVE  WalInv'
<1>1. PICK at \in Places(log), recs \in Pieces(log) : Laid(file, log, damaged, at, recs)
  BY DEF WalInv
<1>2. /\ file \in Seq(StoredCells) /\ log \in Seq(DataRecords \cup {Torn})
      /\ damaged \in BOOLEAN
  BY DEF WalInv, WalType
<1>3. PICK n \in 1..(Len(Encode(r)) - 1) : file' = file \o SubSeq(Encode(r), 1, n)
  BY DEF AppendCut
<1>4. /\ r \in Encodables /\ log' = Append(log, Torn) /\ damaged' = damaged
  BY DEF AppendCut, Encodables
<1>5. Len(Encode(r)) = SizeOf(r) /\ SizeOf(r) \in Nat
  BY RecordFacts, EncodeIs
<1>6. n \in 1..SizeOf(r) /\ n # SizeOf(r)
  BY <1>3, <1>5
<1>7. Torn = IF n = SizeOf(r) THEN r ELSE Torn
  BY <1>6
<1>8. /\ file \o SubSeq(Encode(r), 1, n) \in Seq(StoredCells)
      /\ Append(log, Torn) \in Seq(DataRecords \cup {Torn})
      /\ \E at2 \in Places(Append(log, Torn)), recs2 \in Pieces(Append(log, Torn)) :
           Laid(file \o SubSeq(Encode(r), 1, n), Append(log, Torn), damaged, at2, recs2)
  BY <1>1, <1>2, <1>4, <1>6, <1>7, LaidMore
<1> QED  BY <1>2, <1>3, <1>4, <1>8 DEF WalInv, WalType

LEMMA ReplayPreserves ==
  ASSUME WalInv, Replay
  PROVE  WalInv'
<1>1. PICK at \in Places(log), recs \in Pieces(log) : Laid(file, log, damaged, at, recs)
  BY DEF WalInv
<1>2. file \in Seq(StoredCells) /\ log \in Seq(DataRecords \cup {Torn})
  BY DEF WalInv, WalType
<1>3. PICK k \in 0..Len(log) : Reads(file, log, damaged, at, recs, k)
  BY <1>1, <1>2, ScanReads
<1>4. /\ SubSeq(file, 1, at[k]) \in Seq(StoredCells)
      /\ SubSeq(log, 1, k) \in Seq(DataRecords \cup {Torn})
      /\ \E at2 \in Places(SubSeq(log, 1, k)), recs2 \in Pieces(SubSeq(log, 1, k)) :
           Laid(SubSeq(file, 1, at[k]), SubSeq(log, 1, k), FALSE, at2, recs2)
  <2>1. \A i \in 1..k : Sound(file, at, recs, i)
    BY <1>3 DEF Reads
  <2> QED  BY <1>1, <1>2, <2>1, LaidLess
<1>5. file' = SubSeq(file, 1, at[k]) /\ log' = SubSeq(log, 1, k) /\ damaged' = FALSE
  BY <1>3 DEF Replay, Reads
<1> QED  BY <1>4, <1>5 DEF WalInv, WalType

LEMMA DamagePreserves ==
  ASSUME WalInv, DamageWal
  PROVE  WalInv'
<1>1. PICK at \in Places(log), recs \in Pieces(log) : Laid(file, log, damaged, at, recs)
  BY DEF WalInv
<1>2. file \in Seq(StoredCells) /\ log \in Seq(DataRecords \cup {Torn})
  BY DEF WalInv, WalType
<1>3. PICK i \in DOMAIN file, n \in Bytes : file' = [file EXCEPT ![i] = Plain(n)]
  BY DEF DamageWal
<1>4. Plain(n) \in PlainCells /\ log' = log /\ damaged' = TRUE
  BY DEF PlainCells, DamageWal
<1>5. /\ [file EXCEPT ![i] = Plain(n)] \in Seq(StoredCells)
      /\ Laid([file EXCEPT ![i] = Plain(n)], log, TRUE, at, recs)
  BY <1>1, <1>2, <1>4, LaidDamaged
<1>6. WalType'
  BY <1>2, <1>3, <1>4, <1>5 DEF WalType
<1>7. at \in Places(log') /\ recs \in Pieces(log') /\ Laid(file', log', damaged', at, recs)
  BY <1>1, <1>3, <1>4, <1>5
<1> QED  BY <1>6, <1>7 DEF WalInv

LEMMA WalInvariant == WalSpec => []WalInv
<1>1. WalInv /\ [WalNext]_walVars => WalInv'
  <2> SUFFICES ASSUME WalInv, [WalNext]_walVars PROVE WalInv'
    OBVIOUS
  <2>1. ASSUME NEW r \in DataRecords, WalAppend(r) PROVE WalInv'
    BY <2>1, WalAppendPreserves
  <2>2. ASSUME NEW r \in DataRecords, AppendCut(r) PROVE WalInv'
    BY <2>2, AppendCutPreserves
  <2>3. CASE Replay
    BY <2>3, ReplayPreserves
  <2>4. CASE Truncate
    BY <2>4, NoPieces DEF Truncate, WalInv, WalType
  <2>5. CASE DamageWal
    BY <2>5, DamagePreserves
  <2>6. CASE UNCHANGED walVars
    BY <2>6 DEF WalInv, WalType, walVars
  <2> QED  BY <2>1, <2>2, <2>3, <2>4, <2>5, <2>6 DEF WalNext
<1> QED  BY <1>1, InitEstablishes, PTL DEF WalSpec

-----------------------------------------------------------------------------
(***************************************************************************)
(* What a replay reads                                                     *)
(***************************************************************************)

(* The prefix before the first torn record, given where that is.           *)
LEMMA ValidPrefixIs ==
  ASSUME NEW l \in Seq(DataRecords \cup {Torn}), NEW k \in 0..Len(l),
         \A i \in 1..k : l[i] # Torn
  PROVE  /\ k # Len(l) /\ l[k + 1] = Torn =>
              /\ ValidPrefix(l) = SubSeq(l, 1, k)
              /\ BuriedTear(l) <=> k + 1 < Len(l)
         /\ k = Len(l) => ValidPrefix(l) = l
         /\ IsPrefix(SubSeq(l, 1, k), ValidPrefix(l))
<1> DEFINE n == Len(l)
           T == TornAt(l)
           R == DataRecords \cup {Torn}
<1>1. /\ n \in Nat /\ k \in Nat /\ k <= n /\ l \in Seq(R)
      /\ T = {i \in 1..n : l[i] = Torn} /\ T \subseteq Nat /\ T \subseteq 1..n
  BY DEF TornAt
<1>2. ValidPrefix(l) = IF T = {} THEN l ELSE SubSeq(l, 1, Min(T) - 1)
  BY DEF ValidPrefix
<1>3. BuriedTear(l) <=> T # {} /\ Min(T) < n
  BY DEF BuriedTear
<1> HIDE DEF T, n, R
<1>4. ASSUME k # n, l[k + 1] = Torn
      PROVE  Min(T) = k + 1 /\ T # {}
  <2>1. k + 1 \in T
    BY <1>1, <1>4
  <2>2. \A i \in T : k + 1 <= i
    BY <1>1
  <2>3. Min(T) = k + 1
    BY <1>1, <2>1, <2>2, MinIs
  <2> QED  BY <2>1, <2>3
<1>5. ASSUME k = n PROVE T = {}
  BY <1>1, <1>5
<1>6. k # n /\ l[k + 1] = Torn => ValidPrefix(l) = SubSeq(l, 1, k) /\ (BuriedTear(l) <=> k + 1 < n)
  <2>1. (k + 1) - 1 = k
    BY <1>1
  <2> QED  BY <1>2, <1>3, <1>4, <2>1
<1>7. \E m \in k..n : ValidPrefix(l) = SubSeq(l, 1, m)
  <2>1. CASE T = {}
    <3>1. SubSeq(l, 1, n) = l
      BY <1>1, SubSeqFull DEF n
    <3>2. n \in k..n
      BY <1>1
    <3> QED  BY <1>2, <2>1, <3>1, <3>2
  <2>2. CASE T # {}
    <3>1. Min(T) \in T
      BY <1>1, <2>2, MinIsLeast
    <3>2. Min(T) \in 1..n /\ l[Min(T)] = Torn
      BY <1>1, <3>1
    <3>3. Min(T) - 1 \in k..n
      <4> DEFINE t == Min(T)
      <4>1. t \in 1..n /\ t \notin 1..k
        BY <3>2
      <4> HIDE DEF t
      <4>2. t - 1 \in k..n
        BY <1>1, <4>1
      <4> QED  BY <4>2 DEF t
    <3> QED  BY <1>2, <2>2, <3>3
  <2> QED  BY <2>1, <2>2
<1>8. IsPrefix(SubSeq(l, 1, k), ValidPrefix(l))
  <2>1. PICK m \in k..n : ValidPrefix(l) = SubSeq(l, 1, m)
    BY <1>7
  <2> DEFINE s == SubSeq(l, 1, k)
             t == SubSeq(l, 1, m)
  <2>2. /\ m \in Nat /\ k <= m /\ m <= n /\ 0 \in Nat /\ 0 <= k /\ 0 <= m /\ 0 + 1 = 1
        /\ k - 0 = k /\ m - 0 = m /\ \A j \in 1..m : 0 + j = j
    BY <1>1
  <2>3. /\ SubSeq(l, 0 + 1, k) \in Seq(R) /\ Len(SubSeq(l, 0 + 1, k)) = k - 0
        /\ \A j \in 1..(k - 0) : SubSeq(l, 0 + 1, k)[j] = l[0 + j]
    BY <1>1, <2>2, SliceIs DEF n
  <2>4. /\ SubSeq(l, 0 + 1, m) \in Seq(R) /\ Len(SubSeq(l, 0 + 1, m)) = m - 0
        /\ \A j \in 1..(m - 0) : SubSeq(l, 0 + 1, m)[j] = l[0 + j]
    BY <1>1, <2>2, SliceIs DEF n
  <2>5. \A j \in 1..k : j \in 1..m
    BY <2>2
  <2>6. s \in Seq(R) /\ Len(s) = k /\ t \in Seq(R) /\ Len(t) = m
        /\ \A j \in 1..k : s[j] = t[j]
    BY <2>2, <2>3, <2>4, <2>5
  <2> HIDE DEF s, t
  <2>7. IsPrefix(s, t)
    BY <1>1, <2>2, <2>6, PrefixIs
  <2> QED  BY <2>1, <2>7 DEF s, t
<1> QED  BY <1>2, <1>5, <1>6, <1>8 DEF n

(* Replay applies exactly the records before the first cut one: the bytes  *)
(* of Wal::replay do what the Store's model of the log says.               *)
THEOREM ReplayReads == WalSpec => []ReplayReadsValidPrefix
<1>1. ASSUME WalInv PROVE ReplayReadsValidPrefix
  <2> SUFFICES ASSUME ~damaged PROVE Scan(file).records = ValidPrefix(log)
    BY DEF ReplayReadsValidPrefix
  <2>1. PICK at \in Places(log), recs \in Pieces(log) : Laid(file, log, damaged, at, recs)
    BY <1>1 DEF WalInv
  <2>2. file \in Seq(StoredCells) /\ log \in Seq(DataRecords \cup {Torn})
    BY <1>1 DEF WalInv, WalType
  <2>3. PICK k \in 0..Len(log) :
          /\ Scan(file).records = SubSeq(log, 1, k)
          /\ \A i \in 1..k : log[i] # Torn
          /\ k # Len(log) => log[k + 1] = Torn
    <3>1. PICK k \in 0..Len(log) : Reads(file, log, damaged, at, recs, k)
      BY <2>1, <2>2, ScanReads
    <3> QED  BY <3>1 DEF Reads
  <2>4. /\ k # Len(log) /\ log[k + 1] = Torn => ValidPrefix(log) = SubSeq(log, 1, k)
        /\ k = Len(log) => ValidPrefix(log) = log
    BY <2>2, <2>3, ValidPrefixIs
  <2>5. SubSeq(log, 1, Len(log)) = log
    BY <2>2, SubSeqFull
  <2> QED  BY <2>3, <2>4, <2>5
<1> QED  BY <1>1, WalInvariant, PTL

(* A crash while appending never makes a log that Wal::replay refuses: that *)
(* takes a record written behind a cut one.                                *)
THEOREM TornTailIsForgiven == WalSpec => []CrashTailIsForgiven
<1>1. ASSUME WalInv PROVE CrashTailIsForgiven
  <2> SUFFICES ASSUME ~damaged, Scan(file).outcome = "corrupt" PROVE BuriedTear(log)
    BY DEF CrashTailIsForgiven
  <2>1. PICK at \in Places(log), recs \in Pieces(log) : Laid(file, log, damaged, at, recs)
    BY <1>1 DEF WalInv
  <2>2. file \in Seq(StoredCells) /\ log \in Seq(DataRecords \cup {Torn})
    BY <1>1 DEF WalInv, WalType
  <2>3. PICK k \in 0..Len(log) :
          /\ \A i \in 1..k : log[i] # Torn
          /\ k = Len(log) => Scan(file).outcome = "clean"
          /\ k # Len(log) => log[k + 1] = Torn
          /\ k # Len(log) /\ k + 1 = Len(log) => Scan(file).outcome = "truncated"
    <3>1. PICK k \in 0..Len(log) : Reads(file, log, damaged, at, recs, k)
      BY <2>1, <2>2, ScanReads
    <3> QED  BY <3>1 DEF Reads
  <2>4. k # Len(log) /\ k + 1 # Len(log)
    BY <2>3
  <2>5. k + 1 < Len(log)
    BY <2>4
  <2> QED  BY <2>2, <2>3, <2>4, <2>5, ValidPrefixIs
<1> QED  BY <1>1, WalInvariant, PTL

(* Whatever byte of the log changes, Wal::replay applies nothing that was  *)
(* not appended, and nothing out of order.                                 *)
THEOREM NothingInvented == WalSpec => []DamageNeverInvents
<1>1. ASSUME WalInv PROVE DamageNeverInvents
  <2>1. PICK at \in Places(log), recs \in Pieces(log) : Laid(file, log, damaged, at, recs)
    BY <1>1 DEF WalInv
  <2>2. file \in Seq(StoredCells) /\ log \in Seq(DataRecords \cup {Torn})
    BY <1>1 DEF WalInv, WalType
  <2>3. PICK k \in 0..Len(log) :
          /\ Scan(file).records = SubSeq(log, 1, k)
          /\ \A i \in 1..k : log[i] # Torn
    <3>1. PICK k \in 0..Len(log) : Reads(file, log, damaged, at, recs, k)
      BY <2>1, <2>2, ScanReads
    <3> QED  BY <3>1 DEF Reads
  <2> QED  BY <2>2, <2>3, ValidPrefixIs DEF DamageNeverInvents
<1> QED  BY <1>1, WalInvariant, PTL

(***************************************************************************)
(* Keys                                                                    *)
(***************************************************************************)

(* Two keys are told apart at the first place at which they differ.        *)
Differ(a, b, i) ==
  /\ i \in 1..Len(b) /\ i <= Len(a) + 1
  /\ \A j \in 1..(i - 1) : a[j] = b[j]
  /\ i <= Len(a) => a[i] < b[i]

LEMMA LessIs ==
  ASSUME NEW a \in Seq(Nat), NEW b \in Seq(Nat)
  PROVE  Less(a, b) <=> \E i \in Nat : Differ(a, b, i)
<1>1. Len(a) \in Nat /\ Len(b) \in Nat /\ DOMAIN a = 1..Len(a) /\ DOMAIN b = 1..Len(b)
  OBVIOUS
<1>2. ASSUME IsStrictPrefix(a, b) PROVE \E i \in Nat : Differ(a, b, i)
  <2>1. Len(a) <= Len(b) /\ SubSeq(a, 1, Len(a)) = SubSeq(b, 1, Len(a)) /\ a # b
    BY <1>2, Zenon DEF IsStrictPrefix, IsPrefix
  <2>2. SubSeq(a, 1, Len(a)) = a
    BY SubSeqFull
  <2>3. \A j \in 1..Len(a) : SubSeq(b, 0 + 1, Len(a))[j] = b[0 + j]
    <3>1. 0 \in Nat /\ 0 <= Len(a) /\ Len(a) - 0 = Len(a)
      BY <1>1
    <3>2. \A j \in 1..(Len(a) - 0) : SubSeq(b, 0 + 1, Len(a))[j] = b[0 + j]
      BY <1>1, <2>1, <3>1, SliceIs
    <3> QED  BY <3>1, <3>2
  <2>4. \A j \in 1..Len(a) : a[j] = b[j]
    <3>1. 0 + 1 = 1 /\ \A j \in 1..Len(a) : 0 + j = j
      BY <1>1
    <3> QED  BY <2>1, <2>2, <2>3, <3>1
  <2>5. Len(a) # Len(b)
    <3> SUFFICES ASSUME Len(a) = Len(b) PROVE FALSE
      OBVIOUS
    <3>1. a = b
      BY <2>4, SeqEqual
    <3> QED  BY <2>1, <3>1
  <2>6. Differ(a, b, Len(a) + 1)
    <3>1. /\ Len(a) + 1 \in 1..Len(b) /\ Len(a) + 1 <= Len(a) + 1
          /\ (Len(a) + 1) - 1 = Len(a) /\ ~(Len(a) + 1 <= Len(a))
      <4>1. Len(a) <= Len(b)
        BY <2>1, Zenon
      <4>2. Len(a) \in Nat /\ Len(b) \in Nat
        OBVIOUS
      <4> DEFINE m == Len(a)
                 n == Len(b)
      <4> HIDE DEF m, n
      <4>3. m \in Nat /\ n \in Nat /\ m <= n /\ m # n
        BY <2>5, <4>1, <4>2 DEF m, n
      <4>4. m + 1 \in 1..n /\ m + 1 <= m + 1 /\ (m + 1) - 1 = m /\ ~(m + 1 <= m)
        BY <4>3
      <4> QED  BY <4>4 DEF m, n
    <3> QED  BY <2>4, <3>1, Zenon DEF Differ
  <2> QED  BY <1>1, <2>6
<1>3. ASSUME NEW i \in DOMAIN a \cap DOMAIN b, a[i] < b[i], \A j \in 1..(i - 1) : a[j] = b[j]
      PROVE  \E k \in Nat : Differ(a, b, k)
  <2>1. i \in Nat /\ i \in 1..Len(b) /\ i <= Len(a) + 1
    BY <1>1
  <2> QED  BY <1>3, <2>1 DEF Differ
<1>4. ASSUME NEW i \in Nat, Differ(a, b, i) PROVE Less(a, b)
  <2>1. CASE i <= Len(a)
    <3>1. i \in DOMAIN a \cap DOMAIN b
      BY <1>1, <1>4, <2>1 DEF Differ
    <3> QED  BY <1>4, <2>1, <3>1 DEF Less, Differ
  <2>2. CASE ~(i <= Len(a))
    <3>1. i = Len(a) + 1 /\ Len(a) < Len(b) /\ \A j \in 1..Len(a) : a[j] = b[j]
      BY <1>1, <1>4, <2>2 DEF Differ
    <3>2. IsPrefix(a, b)
      BY <1>1, <3>1, PrefixIs
    <3>3. a # b
      BY <1>1, <3>1
    <3> QED  BY <3>2, <3>3 DEF Less, IsStrictPrefix
  <2> QED  BY <2>1, <2>2
<1> QED  BY <1>2, <1>3, <1>4, Zenon DEF Less

LEMMA LessIrreflexive ==
  ASSUME NEW a \in Seq(Nat)
  PROVE  ~Less(a, a)
<1> SUFFICES ASSUME NEW i \in Nat, Differ(a, a, i) PROVE FALSE
  BY LessIs
<1>1. i <= Len(a) /\ a[i] < a[i] /\ a[i] \in Nat
  BY DEF Differ
<1> QED  BY <1>1

LEMMA LessTransitive ==
  ASSUME NEW a \in Seq(Nat), NEW b \in Seq(Nat), NEW c \in Seq(Nat), Less(a, b), Less(b, c)
  PROVE  Less(a, c)
<1>1. PICK i \in Nat : Differ(a, b, i)
  BY LessIs
<1>2. PICK j \in Nat : Differ(b, c, j)
  BY LessIs
<1>3. Len(a) \in Nat /\ Len(b) \in Nat /\ Len(c) \in Nat
  OBVIOUS
<1>4. CASE i < j
  <2>1. i \in 1..Len(c) /\ i <= Len(a) + 1
    BY <1>1, <1>2, <1>3, <1>4 DEF Differ
  <2>2. \A m \in 1..(i - 1) : a[m] = c[m]
    BY <1>1, <1>2, <1>4 DEF Differ
  <2>3. b[i] = c[i]
    BY <1>1, <1>2, <1>4, <2>1 DEF Differ
  <2>4. Differ(a, c, i)
    BY <1>1, <2>1, <2>2, <2>3 DEF Differ
  <2> QED  BY <2>4, LessIs
<1>5. CASE j < i
  <2>1. j \in 1..Len(c) /\ j <= Len(a)
    BY <1>1, <1>2, <1>3, <1>5 DEF Differ
  <2>2. \A m \in 1..(j - 1) : a[m] = c[m]
    BY <1>1, <1>2, <1>5 DEF Differ
  <2>3. a[j] = b[j] /\ j <= Len(b) /\ b[j] < c[j]
    BY <1>1, <1>2, <1>3, <1>5, <2>1 DEF Differ
  <2>4. Differ(a, c, j)
    BY <1>3, <2>1, <2>2, <2>3 DEF Differ
  <2> QED  BY <2>4, LessIs
<1>6. CASE i = j
  <2>1. j \in 1..Len(c) /\ j <= Len(a) + 1 /\ j \in 1..Len(b)
    BY <1>1, <1>2, <1>3, <1>6 DEF Differ
  <2>2. \A m \in 1..(j - 1) : a[m] = c[m]
    BY <1>1, <1>2, <1>6 DEF Differ
  <2>3. j <= Len(a) => a[j] < c[j]
    <3> SUFFICES ASSUME j <= Len(a) PROVE a[j] < c[j]
      OBVIOUS
    <3>1. a[j] < b[j] /\ b[j] < c[j]
      BY <1>1, <1>2, <1>3, <1>6, <2>1 DEF Differ
    <3>2. a[j] \in Nat /\ b[j] \in Nat /\ c[j] \in Nat
      <4>1. j \in 1..Len(a) /\ j \in 1..Len(b) /\ j \in 1..Len(c)
        BY <1>3, <2>1
      <4> QED  BY <4>1, ElementOfSeq
    <3> QED  BY <3>1, <3>2
  <2>4. Differ(a, c, j)
    BY <2>1, <2>2, <2>3 DEF Differ
  <2> QED  BY <2>4, LessIs
<1> QED  BY <1>4, <1>5, <1>6

LEMMA LessTotal ==
  ASSUME NEW a \in Seq(Nat), NEW b \in Seq(Nat), a # b
  PROVE  Less(a, b) \/ Less(b, a)
<1> DEFINE Same(j) == j <= Len(a) /\ j <= Len(b) /\ a[j] = b[j]
           T == {j \in Nat \ {0} : ~Same(j)}
<1>1. Len(a) \in Nat /\ Len(b) \in Nat
  OBVIOUS
<1>2. Len(a) + 1 \in T
  BY <1>1
<1>3. PICK i \in T : \A j \in T : i <= j
  <2>1. T \subseteq Nat /\ T # {}
    BY <1>2
  <2> HIDE DEF T
  <2> QED  BY <2>1, LeastExists
<1>4. i \in Nat /\ i > 0 /\ i <= Len(a) + 1
  BY <1>1, <1>2, <1>3
<1>5. \A j \in 1..(i - 1) : Same(j)
  <2> SUFFICES ASSUME NEW j \in 1..(i - 1), ~Same(j) PROVE FALSE
    OBVIOUS
  <2>1. j \in T /\ j < i /\ j \in Nat
    BY <1>4
  <2> HIDE DEF T, Same
  <2> QED  BY <1>3, <1>4, <2>1
<1>6. i <= Len(b) + 1
  <2> SUFFICES ASSUME ~(i <= Len(b) + 1) PROVE FALSE
    OBVIOUS
  <2>1. Len(b) + 1 \in 1..(i - 1)
    BY <1>1, <1>4
  <2>2. Same(Len(b) + 1)
    BY <1>5, <2>1
  <2> QED  BY <1>1, <2>2
<1>7. CASE i <= Len(a) /\ i <= Len(b)
  <2>1. a[i] \in Nat /\ b[i] \in Nat /\ a[i] # b[i]
    BY <1>1, <1>3, <1>4, <1>7
  <2>2. a[i] < b[i] \/ b[i] < a[i]
    BY <2>1
  <2>3. Differ(a, b, i) \/ Differ(b, a, i)
    BY <1>1, <1>4, <1>5, <1>7, <2>2 DEF Differ
  <2> QED  BY <1>4, <2>3, LessIs
<1>8. CASE i <= Len(a) /\ ~(i <= Len(b))
  <2>1. Differ(b, a, i)
    BY <1>1, <1>4, <1>5, <1>6, <1>8 DEF Differ
  <2> QED  BY <1>4, <2>1, LessIs
<1>9. CASE ~(i <= Len(a)) /\ i <= Len(b)
  <2>1. Differ(a, b, i)
    BY <1>1, <1>4, <1>5, <1>6, <1>9 DEF Differ
  <2> QED  BY <1>4, <2>1, LessIs
<1>10. CASE ~(i <= Len(a)) /\ ~(i <= Len(b))
  <2>1. i = Len(a) + 1 /\ i = Len(b) + 1
    BY <1>1, <1>4, <1>6, <1>10
  <2>2. Len(a) = Len(b) /\ \A j \in 1..Len(a) : a[j] = b[j]
    BY <1>1, <1>4, <1>5, <2>1
  <2>3. a = b
    BY <2>2, SeqEqual
  <2> QED  BY <2>3
<1> QED  BY <1>7, <1>8, <1>9, <1>10

(***************************************************************************)
(* Where the records of a segment lie                                      *)
(***************************************************************************)

(* EndOf of some records.                                                  *)
Ends(w, n) == HeaderSize + MapThenSumSet(LAMBDA j : Len(Encode(w[j])), 1..n)

LEMMA LayoutFacts ==
  /\ Magic \in Seq(Bytes) /\ Len(Magic) \in Nat /\ Version \in Bytes
  /\ OffSize \in Nat /\ OffSize > 0 /\ Interval \in Nat /\ Interval > 0
  /\ HeaderSize \in Nat /\ HeaderSize = Len(Magic) + 1
  /\ FooterSize \in Nat /\ FooterSize = OffSize + Len(Magic)
BY LayoutAssumption DEF HeaderSize, FooterSize

LEMMA EndsSum ==
  ASSUME NEW w \in Seq(Encodables), NEW n \in 0..Len(w)
  PROVE  LET e == [j \in 1..n |-> SizeOf(w[j])]
         IN  /\ e \in [1..n -> Nat]
             /\ \E f : AddsUp(f, e, 1..n) /\ Ends(w, n) = HeaderSize + f[1..n]
<1> DEFINE S == 1..n
           e == [j \in S |-> SizeOf(w[j])]
           Sum == CHOOSE iter : iter = [s \in SUBSET S |->
                     IF s = {} THEN 0
                     ELSE Len(Encode(w[CHOOSE x \in s : TRUE]))
                            + iter[s \ {CHOOSE x \in s : TRUE}]]
<1>1. \A j \in S : w[j] \in DataRecords /\ SizeOf(w[j]) \in Nat /\ Len(Encode(w[j])) = SizeOf(w[j])
  <2> SUFFICES ASSUME NEW j \in S
               PROVE  w[j] \in DataRecords /\ SizeOf(w[j]) \in Nat /\ Len(Encode(w[j])) = SizeOf(w[j])
    OBVIOUS
  <2>1. w[j] \in Encodables
    <3>1. j \in 1..Len(w)
      OBVIOUS
    <3> QED  BY <3>1, ElementOfSeq
  <2>2. w[j] \in DataRecords
    BY <2>1, EncodableFacts
  <2> QED  BY <2>2, RecordFacts, EncodeIs
<1>2. e \in [S -> Nat]
  BY <1>1
<1>3. Ends(w, n) = HeaderSize + Sum[S]
  BY DEF Ends, MapThenSumSet, MapThenFoldSet
<1>4. IsFiniteSet(S)
  BY FS_Interval
<1> HIDE DEF S
<1>5. PICK f \in [SUBSET S -> Nat] : AddsUp(f, e, S)
  <2> HIDE DEF e
  <2> QED  BY <1>2, <1>4, SumExists
<1>6. \A s \in SUBSET S : s # {} => e[Pick(s)] = Len(Encode(w[CHOOSE x \in s : TRUE]))
  <2> SUFFICES ASSUME NEW s \in SUBSET S, s # {}
               PROVE  e[Pick(s)] = Len(Encode(w[CHOOSE x \in s : TRUE]))
    OBVIOUS
  <2>1. Pick(s) \in S
    BY PickIsElement
  <2>2. e[Pick(s)] = SizeOf(w[Pick(s)])
    BY <2>1
  <2>3. e[Pick(s)] = Len(Encode(w[Pick(s)]))
    BY <1>1, <2>1, <2>2
  <2> HIDE DEF e
  <2> QED  BY <2>3 DEF Pick
<1> HIDE DEF e
<1>7. f = [s \in SUBSET S |->
             IF s = {} THEN 0
             ELSE Len(Encode(w[CHOOSE x \in s : TRUE])) + f[s \ {CHOOSE x \in s : TRUE}]]
  BY <1>5, <1>6 DEF AddsUp, Pick
<1>8. Sum = [s \in SUBSET S |->
               IF s = {} THEN 0
               ELSE Len(Encode(w[CHOOSE x \in s : TRUE])) + Sum[s \ {CHOOSE x \in s : TRUE}]]
  BY <1>7
<1> HIDE DEF Sum
<1>9. AddsUp(Sum, e, S)
  BY <1>6, <1>8 DEF AddsUp, Pick
<1> QED  BY <1>2, <1>3, <1>9 DEF e, S

(* f adds up the sizes of the first n records.                             *)
AddsSizes(w, n, f) ==
  \E e \in [1..n -> Nat] : AddsUp(f, e, 1..n) /\ \A j \in 1..n : e[j] = SizeOf(w[j])

LEMMA NoSizes ==
  ASSUME NEW w, NEW f, AddsSizes(w, 0, f)
  PROVE  f[1..0] = 0
<1>1. PICK e \in [1..0 -> Nat] : AddsUp(f, e, 1..0)
  BY DEF AddsSizes
<1>2. IsFiniteSet(1..0) /\ 1..0 = {}
  BY FS_Interval
<1> QED  BY <1>1, <1>2, SumSplits

LEMMA OneMoreSize ==
  ASSUME NEW w, NEW n \in Nat \ {0}, NEW m, m = n - 1, NEW f, NEW h,
         AddsSizes(w, n, f), AddsSizes(w, m, h)
  PROVE  /\ f[1..n] = h[1..m] + SizeOf(w[n])
         /\ f[1..n] \in Nat /\ h[1..m] \in Nat /\ SizeOf(w[n]) \in Nat
<1> DEFINE S == 1..n
           U == 1..m
<1>1. PICK e \in [S -> Nat] : AddsUp(f, e, S) /\ \A j \in S : e[j] = SizeOf(w[j])
  BY DEF AddsSizes
<1>2. PICK d \in [U -> Nat] : AddsUp(h, d, U) /\ \A j \in U : d[j] = SizeOf(w[j])
  BY DEF AddsSizes
<1>3. IsFiniteSet(S)
  BY FS_Interval
<1>4. U \in SUBSET S /\ n \in S /\ S \ {n} = U
  OBVIOUS
<1>5. \A j \in U : d[j] = e[j]
  BY <1>1, <1>2, <1>4
<1> HIDE DEF S, U
<1>6. AddsUp(f, e, S)
  BY <1>1
<1>7. AddsUp(h, d, U)
  BY <1>2
<1>8. n \in S
  BY <1>4
<1>9. U \in SUBSET S /\ S \in SUBSET S
  BY <1>4
<1>10. \A y \in S : f[S] = e[y] + f[S \ {y}]
  <2> HIDE <1>1, <1>2
  <2> QED  BY <1>6, <1>9, <1>3, SumSplits
<1>11. f[S] = e[n] + f[S \ {n}]
  BY <1>8, <1>10
<1>12. f[U] \in Nat /\ f[S] \in Nat
  BY <1>6, <1>3, <1>9, SumSplits
<1>13. h[U] = f[U]
  BY <1>6, <1>7, <1>9, <1>3, <1>5, SumsAgree
<1>14. e[n] = SizeOf(w[n]) /\ e[n] \in Nat
  BY <1>1, <1>4
<1>15. f[S] = h[U] + SizeOf(w[n]) /\ f[S] \in Nat /\ h[U] \in Nat /\ SizeOf(w[n]) \in Nat
  BY <1>4, <1>11, <1>12, <1>13, <1>14
<1> QED  BY <1>15 DEF S, U

LEMMA EndsAdd ==
  ASSUME NEW w \in Seq(Encodables), NEW n \in 0..Len(w)
  PROVE  \E f : AddsSizes(w, n, f) /\ Ends(w, n) = HeaderSize + f[1..n]
<1> DEFINE e == [j \in 1..n |-> SizeOf(w[j])]
<1>1. e \in [1..n -> Nat] /\ \A j \in 1..n : e[j] = SizeOf(w[j])
  BY EndsSum
<1>2. PICK f : AddsUp(f, e, 1..n) /\ Ends(w, n) = HeaderSize + f[1..n]
  BY EndsSum
<1> HIDE DEF e
<1> QED  BY <1>1, <1>2 DEF AddsSizes

LEMMA EndsAre ==
  ASSUME NEW w \in Seq(Encodables)
  PROVE  /\ Ends(w, 0) = HeaderSize
         /\ \A n \in 1..Len(w) :
              /\ Ends(w, n) = Ends(w, n - 1) + SizeOf(w[n])
              /\ Ends(w, n) \in Nat /\ Ends(w, n - 1) \in Nat /\ SizeOf(w[n]) \in Nat
<1>1. HeaderSize \in Nat /\ Len(w) \in Nat
  BY LayoutFacts
<1>2. Ends(w, 0) = HeaderSize
  <2>1. 0 \in 0..Len(w)
    BY <1>1
  <2>2. PICK f : AddsSizes(w, 0, f) /\ Ends(w, 0) = HeaderSize + f[1..0]
    BY <2>1, EndsAdd
  <2>3. f[1..0] = 0
    BY <2>2, NoSizes
  <2> QED  BY <1>1, <2>2, <2>3
<1>3. ASSUME NEW n \in 1..Len(w)
      PROVE  /\ Ends(w, n) = Ends(w, n - 1) + SizeOf(w[n])
             /\ Ends(w, n) \in Nat /\ Ends(w, n - 1) \in Nat /\ SizeOf(w[n]) \in Nat
  <2>1. n \in 0..Len(w) /\ n - 1 \in 0..Len(w) /\ n \in Nat \ {0}
    BY <1>1
  <2>2. PICK f : AddsSizes(w, n, f) /\ Ends(w, n) = HeaderSize + f[1..n]
    BY <2>1, EndsAdd
  <2>3. PICK h : AddsSizes(w, n - 1, h) /\ Ends(w, n - 1) = HeaderSize + h[1..(n - 1)]
    BY <2>1, EndsAdd
  <2>4. /\ f[1..n] = h[1..(n - 1)] + SizeOf(w[n])
        /\ f[1..n] \in Nat /\ h[1..(n - 1)] \in Nat /\ SizeOf(w[n]) \in Nat
    BY <2>1, <2>2, <2>3, OneMoreSize
  <2> QED  BY <1>1, <2>2, <2>3, <2>4
<1> QED  BY <1>2, <1>3

LEMMA EndsGrow ==
  ASSUME NEW w \in Seq(Encodables)
  PROVE  /\ \A n \in 0..Len(w) : Ends(w, n) \in Nat
         /\ \A n \in 0..Len(w) : \A i \in 0..(n - 1) : Ends(w, i) < Ends(w, n)
         /\ \A n \in 0..Len(w) : HeaderSize <= Ends(w, n) /\ Ends(w, n) <= Ends(w, Len(w))
<1> DEFINE m == Len(w)
           T == {n \in 0..m : /\ Ends(w, n) \in Nat
                              /\ \A i \in 0..(n - 1) : Ends(w, i) \in Nat /\ Ends(w, i) < Ends(w, n)}
<1>1. m \in Nat /\ HeaderSize \in Nat
  BY LayoutFacts
<1>2. Ends(w, 0) = HeaderSize
  BY EndsAre
<1>3. \A n \in 1..m : /\ Ends(w, n) = Ends(w, n - 1) + SizeOf(w[n])
                      /\ Ends(w, n) \in Nat /\ Ends(w, n - 1) \in Nat /\ SizeOf(w[n]) > 0
  <2> SUFFICES ASSUME NEW n \in 1..m
               PROVE  /\ Ends(w, n) = Ends(w, n - 1) + SizeOf(w[n])
                      /\ Ends(w, n) \in Nat /\ Ends(w, n - 1) \in Nat /\ SizeOf(w[n]) > 0
    OBVIOUS
  <2>1. w[n] \in DataRecords
    <3>1. w[n] \in Encodables
      BY ElementOfSeq
    <3> QED  BY <3>1, EncodableFacts
  <2>2. /\ 1 + LenSize <= ValAt(w[n]) /\ ValAt(w[n]) <= SumAt(w[n]) /\ SumAt(w[n]) < SizeOf(w[n])
        /\ ValAt(w[n]) \in Nat /\ SumAt(w[n]) \in Nat /\ SizeOf(w[n]) \in Nat
    BY <2>1, RecordFacts
  <2>3. LenSize \in Nat
    BY BaseFacts
  <2>4. SizeOf(w[n]) > 0
    BY <2>2, <2>3
  <2> QED  BY <2>4, EndsAre
<1> HIDE DEF m
<1>4. \A n \in 0..m : n \in T
  <2>1. 0 \in T
    BY <1>1, <1>2
  <2>2. ASSUME NEW n \in 0..(m - 1), n \in T PROVE n + 1 \in T
    <3>1. n + 1 \in 1..m /\ n + 1 \in 0..m /\ (n + 1) - 1 = n
      BY <1>1
    <3>2. Ends(w, n + 1) = Ends(w, n) + SizeOf(w[n + 1])
          /\ Ends(w, n + 1) \in Nat /\ Ends(w, n) \in Nat /\ SizeOf(w[n + 1]) > 0
      BY <1>3, <3>1
    <3>3. SizeOf(w[n + 1]) \in Nat
      BY <1>3, <3>1, EndsAre DEF m
    <3>4. Ends(w, n) < Ends(w, n + 1)
      BY <3>2, <3>3
    <3>5. ASSUME NEW i \in 0..((n + 1) - 1) PROVE Ends(w, i) \in Nat /\ Ends(w, i) < Ends(w, n + 1)
      <4>1. i = n \/ i \in 0..(n - 1)
        BY <1>1
      <4>2. CASE i \in 0..(n - 1)
        <5>1. Ends(w, i) \in Nat /\ Ends(w, i) < Ends(w, n)
          BY <2>2, <4>2
        <5> QED  BY <3>2, <3>4, <5>1
      <4> QED  BY <3>2, <3>4, <4>1, <4>2
    <3> QED  BY <3>1, <3>2, <3>5
  <2> HIDE DEF T
  <2> QED  BY <1>1, <2>1, <2>2, UpwardInduction
<1>5. ASSUME NEW n \in 0..m PROVE HeaderSize <= Ends(w, n) /\ Ends(w, n) <= Ends(w, m)
  <2>1. n = 0 \/ 0 \in 0..(n - 1)
    BY <1>1
  <2>2. n = m \/ n \in 0..(m - 1)
    BY <1>1
  <2>3. Ends(w, n) \in Nat /\ Ends(w, m) \in Nat
    BY <1>1, <1>4
  <2>4. HeaderSize <= Ends(w, n)
    <3>1. 0 \in 0..(n - 1) => Ends(w, 0) < Ends(w, n)
      BY <1>4
    <3> QED  BY <1>1, <1>2, <2>1, <2>3, <3>1
  <2>5. Ends(w, n) <= Ends(w, m)
    <3>1. m \in 0..m
      BY <1>1
    <3>2. n \in 0..(m - 1) => Ends(w, n) < Ends(w, m)
      BY <1>4, <3>1
    <3> QED  BY <2>2, <2>3, <3>2
  <2> QED  BY <2>4, <2>5
<1> QED  BY <1>4, <1>5 DEF m

LEMMA EndsAppend ==
  ASSUME NEW w \in Seq(Encodables), NEW r \in Encodables
  PROVE  /\ Append(w, r) \in Seq(Encodables) /\ Len(Append(w, r)) = Len(w) + 1
         /\ \A n \in 0..Len(w) : Ends(Append(w, r), n) = Ends(w, n)
         /\ Ends(Append(w, r), Len(w) + 1) = Ends(w, Len(w)) + SizeOf(r)
<1> DEFINE v == Append(w, r)
           m == Len(w)
           T == {n \in 0..m : Ends(v, n) = Ends(w, n)}
<1>1. /\ v \in Seq(Encodables) /\ Len(v) = m + 1 /\ m \in Nat
      /\ \A n \in 1..m : v[n] = w[n]
      /\ v[m + 1] = r
  OBVIOUS
<1> HIDE DEF v, m
<1>2. \A n \in 0..m : n \in T
  <2>1. 0 \in T
    BY <1>1, EndsAre DEF m
  <2>2. ASSUME NEW n \in 0..(m - 1), n \in T PROVE n + 1 \in T
    <3>1. n + 1 \in 1..m /\ n + 1 \in 1..(m + 1) /\ n + 1 \in 0..m /\ (n + 1) - 1 = n
      BY <1>1
    <3>2. Ends(w, n + 1) = Ends(w, n) + SizeOf(w[n + 1])
      BY <3>1, EndsAre DEF m
    <3>3. Ends(v, n + 1) = Ends(v, n) + SizeOf(v[n + 1])
      BY <1>1, <3>1, EndsAre
    <3> QED  BY <1>1, <2>2, <3>1, <3>2, <3>3
  <2> HIDE DEF T
  <2> QED  BY <1>1, <2>1, <2>2, UpwardInduction
<1>3. Ends(v, m + 1) = Ends(w, m) + SizeOf(r)
  <2>1. m + 1 \in 1..(m + 1) /\ (m + 1) - 1 = m /\ m \in 0..m
    BY <1>1
  <2>2. Ends(v, m + 1) = Ends(v, m) + SizeOf(v[m + 1])
    BY <1>1, <2>1, EndsAre
  <2> QED  BY <1>1, <1>2, <2>1, <2>2
<1> QED  BY <1>1, <1>2, <1>3 DEF v, m

(***************************************************************************)
(* Parts of a file                                                         *)
(***************************************************************************)

(* The sequence s lies in b behind m.                                      *)
Holds(b, m, s) ==
  /\ m + Len(s) <= Len(b)
  /\ \A j \in 1..Len(s) : b[m + j] = s[j]

LEMMA HeldIs ==
  ASSUME NEW S, NEW b \in Seq(S), NEW m \in Nat, NEW s \in Seq(S), Holds(b, m, s)
  PROVE  SubSeq(b, m + 1, m + Len(s)) = s
BY PartIs DEF Holds

LEMMA HoldsInFront ==
  ASSUME NEW S, NEW b \in Seq(S), NEW t \in Seq(S), NEW m \in Nat, NEW s \in Seq(S),
         Holds(b, m, s)
  PROVE  Holds(b \o t, m, s)
<1>1. /\ Len(b \o t) = Len(b) + Len(t) /\ Len(b) \in Nat /\ Len(t) \in Nat
      /\ \A j \in 1..Len(b) : (b \o t)[j] = b[j]
  BY ConcatIs
<1>2. m + Len(s) <= Len(b) /\ Len(s) \in Nat /\ \A j \in 1..Len(s) : b[m + j] = s[j]
  BY DEF Holds
<1>3. \A j \in 1..Len(s) : m + j \in 1..Len(b)
  BY <1>1, <1>2
<1>4. \A j \in 1..Len(s) : (b \o t)[m + j] = s[j]
  BY <1>1, <1>2, <1>3
<1>5. m + Len(s) <= Len(b \o t)
  <2>1. Len(b \o t) = Len(b) + Len(t)
    BY <1>1
  <2> QED  BY <1>1, <1>2, <2>1
<1> QED  BY <1>4, <1>5 DEF Holds

LEMMA HoldsBehind ==
  ASSUME NEW S, NEW b \in Seq(S), NEW t \in Seq(S), NEW m \in Nat, NEW s \in Seq(S),
         Holds(t, m, s)
  PROVE  Holds(b \o t, Len(b) + m, s)
<1>1. /\ Len(b \o t) = Len(b) + Len(t) /\ Len(b) \in Nat /\ Len(t) \in Nat
      /\ \A j \in 1..Len(t) : (b \o t)[Len(b) + j] = t[j]
  BY ConcatIs
<1>2. m + Len(s) <= Len(t) /\ Len(s) \in Nat /\ \A j \in 1..Len(s) : t[m + j] = s[j]
  BY DEF Holds
<1>3. \A j \in 1..Len(s) : m + j \in 1..Len(t) /\ Len(b) + (m + j) = (Len(b) + m) + j
  BY <1>1, <1>2
<1>4. \A j \in 1..Len(s) : (b \o t)[(Len(b) + m) + j] = s[j]
  BY <1>1, <1>2, <1>3
<1>5. (Len(b) + m) + Len(s) <= Len(b \o t)
  <2>1. Len(b \o t) = Len(b) + Len(t)
    BY <1>1
  <2> QED  BY <1>1, <1>2, <2>1
<1> QED  BY <1>4, <1>5 DEF Holds

LEMMA HoldsSelf ==
  ASSUME NEW S, NEW s \in Seq(S)
  PROVE  Holds(s, 0, s)
<1>1. Len(s) \in Nat /\ \A j \in 1..Len(s) : 0 + j = j
  OBVIOUS
<1> QED  BY <1>1 DEF Holds

(* The sequences of q lie one behind the other in s, the i-th behind at[i - 1]. *)
Joined(s, q, at) ==
  /\ at \in [0..Len(q) -> Nat] /\ at[0] = 0 /\ at[Len(q)] = Len(s)
  /\ \A i \in 1..Len(q) : at[i] = at[i - 1] + Len(q[i]) /\ Holds(s, at[i - 1], q[i])

LEMMA FlattenIs ==
  ASSUME NEW S, NEW q \in Seq(Seq(S))
  PROVE  FlattenSeq(q) \in Seq(S) /\ \E at : Joined(FlattenSeq(q), q, at)
<1> DEFINE n == Len(q)
           g == [i \in 1..n |-> [v \in Seq(S) |-> v \o q[i]]]
           F == CHOOSE f : f = [i \in 1..n |-> IF i = 1 THEN q[i] ELSE f[i - 1] \o q[i]]
<1>1. n \in Nat /\ \A i \in 1..n : q[i] \in Seq(S)
  OBVIOUS
<1>2. <<>> \in Seq(S)
  BY EmptySeq
<1>3. FlattenSeq(q) = IF n = 0 THEN q ELSE F[n]
  BY DEF FlattenSeq
<1> HIDE DEF n, F
<1>4. g \in [1..n -> [Seq(S) -> Seq(S)]]
  BY <1>1
<1>5. PICK f \in [0..n -> Seq(S)] : Steps(f, n, <<>>, g)
  <2> HIDE DEF g
  <2> QED  BY <1>1, <1>2, <1>4, DropRecursion
<1>6. f[0] = <<>> /\ \A i \in 1..n : f[i] = f[i - 1] \o q[i] /\ f[i - 1] \in Seq(S) /\ f[i] \in Seq(S)
  <2> SUFFICES ASSUME NEW i \in 1..n
               PROVE  f[i] = f[i - 1] \o q[i] /\ f[i - 1] \in Seq(S) /\ f[i] \in Seq(S)
    BY <1>5 DEF Steps
  <2>1. i - 1 \in 0..n /\ f[i - 1] \in Seq(S) /\ f[i] \in Seq(S)
    BY <1>1
  <2>2. g[i][f[i - 1]] = f[i - 1] \o q[i]
    BY <2>1
  <2> HIDE DEF g
  <2> QED  BY <1>5, <2>1, <2>2 DEF Steps
<1> HIDE DEF g
<1>7. n # 0 => F[n] = f[n]
  <2> SUFFICES ASSUME n # 0 PROVE F[n] = f[n]
    OBVIOUS
  <2> DEFINE h == [i \in 1..n |-> f[i]]
  <2>1. h = [i \in 1..n |-> IF i = 1 THEN q[i] ELSE h[i - 1] \o q[i]]
    <3>1. ASSUME NEW i \in 1..n PROVE h[i] = IF i = 1 THEN q[i] ELSE h[i - 1] \o q[i]
      <4>1. CASE i = 1
        <5>1. f[i] = <<>> \o q[i] /\ q[i] \in Seq(S)
          <6>1. i - 1 = 0
            BY <4>1
          <6>2. f[i] = f[i - 1] \o q[i] /\ q[i] \in Seq(S) /\ f[0] = <<>>
            BY <1>1, <1>6
          <6> QED  BY <6>1, <6>2
        <5> QED  BY <4>1, <5>1
      <4>2. CASE i # 1
        <5>1. i - 1 \in 1..n
          BY <1>1, <4>2
        <5> QED  BY <1>6, <4>2, <5>1
      <4> QED  BY <4>1, <4>2
    <3> QED  BY <3>1
  <2> HIDE DEF h
  <2>2. F = [i \in 1..n |-> IF i = 1 THEN q[i] ELSE F[i - 1] \o q[i]]
    BY <2>1, Zenon DEF F
  <2> DEFINE T == {i \in 0..n : i = 0 \/ F[i] = f[i]}
  <2>3. \A i \in 0..n : i \in T
    <3>1. 0 \in T
      BY <1>1
    <3>2. ASSUME NEW i \in 0..(n - 1), i \in T PROVE i + 1 \in T
      <4>1. i + 1 \in 1..n /\ (i + 1) - 1 = i /\ i + 1 \in 0..n
        BY <1>1
      <4>2. F[i + 1] = IF i + 1 = 1 THEN q[i + 1] ELSE F[i] \o q[i + 1]
        BY <2>2, <4>1
      <4>3. f[i + 1] = f[i] \o q[i + 1]
        BY <1>6, <4>1
      <4>4. CASE i = 0
        <5>1. q[i + 1] \in Seq(S) /\ f[i] = <<>>
          BY <1>1, <1>6, <4>1, <4>4
        <5> QED  BY <4>1, <4>2, <4>3, <4>4, <5>1
      <4>5. CASE i # 0
        <5>1. i + 1 # 1
          BY <4>5
        <5>2. F[i] = f[i]
          BY <3>2, <4>5
        <5> QED  BY <4>1, <4>2, <4>3, <5>1, <5>2
      <4> QED  BY <4>4, <4>5
    <3> HIDE DEF T
    <3> QED  BY <1>1, <3>1, <3>2, UpwardInduction
  <2> QED  BY <2>3, <1>1
<1>8. FlattenSeq(q) = f[n]
  <2>1. CASE n = 0
    <3>1. q = <<>>
      BY <2>1 DEF n
    <3> QED  BY <1>3, <1>6, <2>1, <3>1
  <2> QED  BY <1>3, <1>7, <2>1
<1> DEFINE at == [i \in 0..n |-> Len(f[i])]
<1>9. /\ at \in [0..n -> Nat] /\ at[0] = 0 /\ at[n] = Len(f[n])
      /\ \A i \in 1..n : at[i] = at[i - 1] + Len(q[i])
      /\ \A i \in 0..n : at[i] = Len(f[i]) /\ f[i] \in Seq(S)
  <2>1. at \in [0..n -> Nat] /\ 0 \in 0..n /\ n \in 0..n
    <3>1. \A i \in 0..n : Len(f[i]) \in Nat
      OBVIOUS
    <3> QED  BY <1>1, <3>1
  <2>2. ASSUME NEW i \in 1..n PROVE at[i] = at[i - 1] + Len(q[i])
    <3>1. i - 1 \in 0..n /\ i \in 0..n
      BY <1>1
    <3>2. Len(f[i - 1] \o q[i]) = Len(f[i - 1]) + Len(q[i])
      BY <1>1, <1>6, ConcatIs
    <3> QED  BY <1>6, <3>1, <3>2
  <2> QED  BY <1>6, <2>1, <2>2
<1> HIDE DEF at
<1> DEFINE U == {k \in 0..n : \A i \in 1..k : Holds(f[k], at[i - 1], q[i])}
<1>10. \A k \in 0..n : k \in U
  <2>1. 0 \in U
    BY <1>1
  <2>2. ASSUME NEW k \in 0..(n - 1), k \in U PROVE k + 1 \in U
    <3>1. k + 1 \in 1..n /\ (k + 1) - 1 = k /\ k \in 0..n /\ k + 1 \in 0..n
      BY <1>1
    <3>2. f[k + 1] = f[k] \o q[k + 1] /\ f[k] \in Seq(S) /\ q[k + 1] \in Seq(S)
      BY <1>1, <1>6, <3>1
    <3>3. ASSUME NEW i \in 1..(k + 1) PROVE Holds(f[k + 1], at[i - 1], q[i])
      <4>1. i \in 1..n /\ i - 1 \in 0..n
        BY <1>1, <3>1
      <4>2. at[i - 1] \in Nat /\ q[i] \in Seq(S)
        BY <1>1, <1>9, <4>1
      <4>3. CASE i = k + 1
        <5>1. Holds(q[k + 1], 0, q[k + 1])
          BY <3>2, HoldsSelf
        <5>2. Holds(f[k] \o q[k + 1], Len(f[k]) + 0, q[k + 1])
          <6>1. 0 \in Nat
            OBVIOUS
          <6> QED  BY <3>2, <5>1, <6>1, HoldsBehind
        <5>3. at[i - 1] = Len(f[k]) + 0
          <6>1. at[k] = Len(f[k]) /\ at[k] \in Nat
            BY <1>9, <3>1
          <6> QED  BY <3>1, <4>3, <6>1
        <5> QED  BY <3>2, <4>3, <5>2, <5>3
      <4>4. CASE i # k + 1
        <5>1. i \in 1..k
          BY <3>1, <4>4
        <5>2. Holds(f[k], at[i - 1], q[i])
          BY <2>2, <5>1
        <5> QED  BY <3>2, <4>2, <5>2, HoldsInFront
      <4> QED  BY <4>3, <4>4
    <3> QED  BY <3>1, <3>3
  <2> HIDE DEF U
  <2> QED  BY <1>1, <2>1, <2>2, UpwardInduction
<1>11. \A i \in 1..n : Holds(f[n], at[i - 1], q[i])
  BY <1>1, <1>10
<1>12. Joined(f[n], q, at)
  BY <1>9, <1>11 DEF Joined, n
<1>13. f[n] \in Seq(S)
  BY <1>1
<1> QED  BY <1>8, <1>12, <1>13

LEMMA SliceOfSlice ==
  ASSUME NEW S, NEW b \in Seq(S), NEW o \in Nat, NEW e \in Nat, o <= e, e <= Len(b),
         NEW m \in Nat, NEW n \in Nat, m <= n, o + n <= e
  PROVE  SubSeq(SubSeq(b, o + 1, e), m + 1, n) = SubSeq(b, (o + m) + 1, o + n)
<1> DEFINE t == SubSeq(b, o + 1, e)
           s == SubSeq(t, m + 1, n)
           u == SubSeq(b, (o + m) + 1, o + n)
<1>1. t \in Seq(S) /\ Len(t) = e - o /\ \A j \in 1..(e - o) : t[j] = b[o + j]
  BY SliceIs
<1> HIDE DEF t
<1>2. /\ o + m \in Nat /\ o + n \in Nat /\ o + m <= o + n /\ o + n <= Len(b)
      /\ n <= Len(t) /\ (o + n) - (o + m) = n - m /\ n - m \in Nat
      /\ Len(b) \in Nat
  <2>1. Len(b) \in Nat
    OBVIOUS
  <2> QED  BY <1>1, <2>1
<1>3. s \in Seq(S) /\ Len(s) = n - m /\ \A j \in 1..(n - m) : s[j] = t[m + j]
  BY <1>1, <1>2, SliceIs
<1>4. u \in Seq(S) /\ Len(u) = n - m /\ \A j \in 1..(n - m) : u[j] = b[(o + m) + j]
  <2>1. u \in Seq(S) /\ Len(u) = (o + n) - (o + m)
        /\ \A j \in 1..((o + n) - (o + m)) : u[j] = b[(o + m) + j]
    <3> DEFINE x == o + m
               y == o + n
    <3> HIDE DEF x, y
    <3>1. x \in Nat /\ y \in Nat /\ x <= y /\ y <= Len(b)
      BY <1>2 DEF x, y
    <3>2. /\ SubSeq(b, x + 1, y) \in Seq(S) /\ Len(SubSeq(b, x + 1, y)) = y - x
          /\ \A j \in 1..(y - x) : SubSeq(b, x + 1, y)[j] = b[x + j]
      BY <3>1, SliceIs
    <3> QED  BY <3>2 DEF x, y
  <2> HIDE DEF u
  <2> QED  BY <1>2, <2>1
<1> HIDE DEF s, u
<1>5. \A j \in 1..(n - m) : m + j \in 1..(e - o) /\ o + (m + j) = (o + m) + j
  BY <1>2
<1>6. \A j \in 1..Len(s) : s[j] = u[j]
  BY <1>1, <1>3, <1>4, <1>5
<1>7. s = u
  BY <1>3, <1>4, <1>6, SeqEqual
<1> QED  BY <1>7 DEF s, t, u

(***************************************************************************)
(* A record in a file                                                      *)
(***************************************************************************)

(* What follows what decode accepts makes no difference to it.             *)
LEMMA DecodePrefix ==
  ASSUME NEW t \in Seq(StoredCells), NEW n \in Nat, n <= Len(t),
         Decode(SubSeq(t, 1, n)).kind = "ok"
  PROVE  Decode(t) = Decode(SubSeq(t, 1, n))
<1> DEFINE p == SubSeq(t, 1, n)
<1>1. /\ Len(t) \in Nat /\ LenSize \in Nat /\ CrcSize \in Nat
  BY BaseFacts
<1>2. p \in Seq(StoredCells) /\ Len(p) = n /\ \A j \in 1..n : p[j] = t[j]
  <2>1. 0 \in Nat /\ 0 <= n /\ 0 + 1 = 1 /\ n - 0 = n /\ \A j \in 1..n : 0 + j = j
    OBVIOUS
  <2>2. /\ SubSeq(t, 0 + 1, n) \in Seq(StoredCells) /\ Len(SubSeq(t, 0 + 1, n)) = n - 0
        /\ \A j \in 1..(n - 0) : SubSeq(t, 0 + 1, n)[j] = t[0 + j]
    BY <2>1, SliceIs
  <2> QED  BY <2>1, <2>2
<1>3. ASSUME NEW m \in Nat, NEW k \in Nat, m <= k, k <= n
      PROVE  SubSeq(p, m + 1, k) = SubSeq(t, m + 1, k)
  <2>1. 0 \in Nat /\ 0 <= n /\ 0 + 1 = 1 /\ 0 + k = k /\ 0 + m = m /\ 0 + k <= n
    BY <1>3
  <2>2. SubSeq(SubSeq(t, 0 + 1, n), m + 1, k) = SubSeq(t, (0 + m) + 1, 0 + k)
    BY <1>3, <2>1, SliceOfSlice
  <2> QED  BY <2>1, <2>2
<1> HIDE DEF p
<1> DEFINE q == ValEnd(p)
<1>4. /\ p # <<>> /\ p[1].num \in {0, 1}
      /\ ~(KeyLen(p) > MaxFieldLen) /\ ~(ValLen(p) > MaxFieldLen)
      /\ ~(p[1].num = 1 /\ ValLen(p) # 0)
      /\ SubSeq(p, q + 1, q + CrcSize) = Checksum(SubSeq(p, 1, q))
      /\ KeyEnd(p) \in Nat /\ ValStart(p) \in Nat /\ q \in Nat
      /\ 1 + LenSize <= KeyEnd(p) /\ ValStart(p) = KeyEnd(p) + LenSize
      /\ ValStart(p) <= q /\ q + CrcSize <= Len(p)
  <2>1. Decode(p).kind = "ok"
    BY DEF p
  <2> QED  BY <1>2, <2>1, AcceptedChecks
<1>5. 1 <= n /\ 1 \in 1..n /\ KeyEnd(p) <= ValStart(p) /\ ValStart(p) <= n /\ q <= n
      /\ 1 + LenSize <= n /\ q + CrcSize <= n /\ q + CrcSize \in Nat /\ q <= q + CrcSize
  <2> HIDE DEF q
  <2> QED  BY <1>1, <1>2, <1>4
<1>6. t # <<>> /\ t[1] = p[1]
  <2>1. Len(t) # 0
    BY <1>1, <1>5
  <2> QED  BY <1>2, <1>5, <2>1
<1> HIDE DEF q
<1>7. KeyLen(t) = KeyLen(p) /\ KeyEnd(t) = KeyEnd(p) /\ ValStart(t) = ValStart(p)
  <2>1. SubSeq(p, 1 + 1, 1 + LenSize) = SubSeq(t, 1 + 1, 1 + LenSize)
    <3>1. 1 \in Nat /\ 1 + LenSize \in Nat /\ 1 <= 1 + LenSize /\ 1 + LenSize <= n
      BY <1>1, <1>5
    <3> QED  BY <1>3, <3>1
  <2>2. 1 + 1 = 2
    OBVIOUS
  <2>3. KeyLen(t) = KeyLen(p)
    BY <2>1, <2>2 DEF KeyLen
  <2> QED  BY <2>3 DEF KeyEnd, ValStart
<1>8. ValLen(t) = ValLen(p) /\ ValEnd(t) = q
  <2>1. SubSeq(p, KeyEnd(p) + 1, ValStart(p)) = SubSeq(t, KeyEnd(p) + 1, ValStart(p))
    BY <1>3, <1>4, <1>5
  <2>2. ValLen(t) = ValLen(p)
    BY <1>7, <2>1 DEF ValLen
  <2> QED  BY <1>7, <2>2 DEF ValEnd, q
<1>9. /\ SubSeq(p, q + 1, q + CrcSize) = SubSeq(t, q + 1, q + CrcSize)
      /\ SubSeq(p, 1, q) = SubSeq(t, 1, q)
      /\ SubSeq(p, 1 + LenSize + 1, KeyEnd(p)) = SubSeq(t, 1 + LenSize + 1, KeyEnd(p))
      /\ SubSeq(p, ValStart(p) + 1, q) = SubSeq(t, ValStart(p) + 1, q)
  <2>1. SubSeq(p, q + 1, q + CrcSize) = SubSeq(t, q + 1, q + CrcSize)
    BY <1>3, <1>4, <1>5
  <2>2. SubSeq(p, 0 + 1, q) = SubSeq(t, 0 + 1, q)
    <3>1. 0 \in Nat /\ 0 <= q
      BY <1>4
    <3> QED  BY <1>3, <1>4, <1>5, <3>1
  <2>3. SubSeq(p, (1 + LenSize) + 1, KeyEnd(p)) = SubSeq(t, (1 + LenSize) + 1, KeyEnd(p))
    <3>1. 1 + LenSize \in Nat /\ KeyEnd(p) <= n
      BY <1>1, <1>4, <1>5
    <3> QED  BY <1>3, <1>4, <3>1
  <2>4. SubSeq(p, ValStart(p) + 1, q) = SubSeq(t, ValStart(p) + 1, q)
    BY <1>3, <1>4, <1>5
  <2>5. 0 + 1 = 1
    OBVIOUS
  <2> QED  BY <2>1, <2>2, <2>3, <2>4, <2>5
<1>10. /\ ~(Len(t) < 1 + LenSize) /\ ~(Len(t) < ValStart(p)) /\ ~(Len(t) < q + CrcSize)
       /\ ~(Len(p) < 1 + LenSize) /\ ~(Len(p) < ValStart(p)) /\ ~(Len(p) < q + CrcSize)
  BY <1>1, <1>2, <1>4, <1>5
<1> DEFINE ok == [kind |-> "ok", size |-> q + CrcSize,
                  record |-> [op  |-> IF p[1].num = 0 THEN "set" ELSE "delete",
                              key |-> Numbers(SubSeq(p, 1 + LenSize + 1, KeyEnd(p))),
                              val |-> Numbers(SubSeq(p, ValStart(p) + 1, q))]]
<1>11. Decode(p) = ok
  <2> DEFINE b == p
  <2>1. Decode(p) =
           IF p = <<>> THEN Truncated
           ELSE IF p[1].num \notin {0, 1} THEN Corrupt
           ELSE IF Len(p) < 1 + LenSize THEN Truncated
           ELSE IF KeyLen(p) > MaxFieldLen THEN Corrupt
           ELSE IF Len(p) < ValStart(p) THEN Truncated
           ELSE IF ValLen(p) > MaxFieldLen THEN Corrupt
           ELSE IF Len(p) < q + CrcSize THEN Truncated
           ELSE IF p[1].num = 1 /\ ValLen(p) # 0 THEN Corrupt
           ELSE IF SubSeq(p, q + 1, q + CrcSize) # Checksum(SubSeq(p, 1, q)) THEN Corrupt
           ELSE ok
    BY DecodeIs, Zenon DEF q
  <2> HIDE DEF ok
  <2> QED  BY <1>4, <1>10, <2>1, Zenon
<1>12. Decode(t) = ok
  <2>1. ok = [kind |-> "ok", size |-> q + CrcSize,
              record |-> [op  |-> IF t[1].num = 0 THEN "set" ELSE "delete",
                          key |-> Numbers(SubSeq(t, 1 + LenSize + 1, KeyEnd(p))),
                          val |-> Numbers(SubSeq(t, ValStart(p) + 1, q))]]
    BY <1>6, <1>9
  <2> HIDE DEF ok
  <2>2. Decode(t) =
           IF t = <<>> THEN Truncated
           ELSE IF t[1].num \notin {0, 1} THEN Corrupt
           ELSE IF Len(t) < 1 + LenSize THEN Truncated
           ELSE IF KeyLen(p) > MaxFieldLen THEN Corrupt
           ELSE IF Len(t) < ValStart(p) THEN Truncated
           ELSE IF ValLen(p) > MaxFieldLen THEN Corrupt
           ELSE IF Len(t) < q + CrcSize THEN Truncated
           ELSE IF t[1].num = 1 /\ ValLen(p) # 0 THEN Corrupt
           ELSE IF SubSeq(t, q + 1, q + CrcSize) # Checksum(SubSeq(t, 1, q)) THEN Corrupt
           ELSE ok
    BY <2>1, <1>7, <1>8, DecodeIs, Zenon
  <2>3. /\ t[1].num \in {0, 1} /\ ~(t[1].num = 1 /\ ValLen(p) # 0)
        /\ SubSeq(t, q + 1, q + CrcSize) = Checksum(SubSeq(t, 1, q))
    BY <1>4, <1>6, <1>9
  <2> QED  BY <1>4, <1>6, <1>10, <2>2, <2>3, Zenon
<1> HIDE DEF ok
<1>13. Decode(t) = Decode(p)
  BY <1>11, <1>12
<1> QED  BY <1>13 DEF p

(* Where the two fields of a record at o end.                              *)
SecondField(b, o) == FieldEnd(b, o + 1)
EndAt(b, o) == FieldEnd(b, SecondField(b, o)) + CrcSize

LEMMA ReadIs ==
  ASSUME NEW b, NEW x, NEW o
  PROVE  ReadRecordAt(b, x, o) =
           IF \/ o < HeaderSize \/ o >= x \/ o + 1 + LenSize > x
              \/ SecondField(b, o) + LenSize > x \/ EndAt(b, o) > x
           THEN Invalid
           ELSE Sized(Decode(Slice(b, o, EndAt(b, o))), EndAt(b, o) - o)
BY DEF ReadRecordAt, SecondField, EndAt

(* A field that begins inside the file ends behind where it begins.        *)
LEMMA FieldEndIs ==
  ASSUME NEW b \in Seq(StoredCells), NEW o \in Nat, o + LenSize <= Len(b)
  PROVE  FieldEnd(b, o) \in Nat /\ o + LenSize <= FieldEnd(b, o)
<1>1. LenSize \in Nat /\ o + LenSize \in Nat /\ o <= o + LenSize
  BY BaseFacts
<1>2. Slice(b, o, o + LenSize) \in Seq(StoredCells)
  BY <1>1, SliceIs DEF Slice
<1>3. FromBytes(Slice(b, o, o + LenSize)) \in Nat
  <2>1. \A c \in StoredCells : c.num \in Nat
    BY CellFacts
  <2> QED  BY <1>2, <2>1, FromBytesType
<1> QED  BY <1>1, <1>3 DEF FieldEnd

(* What is read as a record is what decode accepts of the bytes there.     *)
Decoded(b, x, o, e, result) ==
  /\ HeaderSize <= o /\ o < e /\ e <= x
  /\ Decode(Slice(b, o, e)).kind = "ok" /\ Decode(Slice(b, o, e)).size = e - o
  /\ result = [ok |-> TRUE, record |-> Decode(Slice(b, o, e)).record, size |-> e - o]

LEMMA ReadDecodes ==
  ASSUME NEW b \in Seq(StoredCells), NEW x \in Nat, x <= Len(b), NEW o \in Nat,
         ReadRecordAt(b, x, o) # Invalid
  PROVE  \E e \in Nat : Decoded(b, x, o, e, ReadRecordAt(b, x, o))
<1> DEFINE m == SecondField(b, o)
           e == EndAt(b, o)
           d == Decode(Slice(b, o, e))
<1>1. /\ HeaderSize \in Nat /\ LenSize \in Nat /\ CrcSize \in Nat /\ Len(b) \in Nat
  BY LayoutFacts, BaseFacts
<1>2. /\ ~(o < HeaderSize) /\ ~(o >= x) /\ ~(o + 1 + LenSize > x)
      /\ ~(m + LenSize > x) /\ ~(e > x)
      /\ ReadRecordAt(b, x, o) = Sized(d, e - o)
  BY ReadIs, Zenon
<1>3. m \in Nat /\ o + 1 + LenSize <= m
  <2>1. o + 1 \in Nat /\ (o + 1) + LenSize <= Len(b)
    <3>1. ~(o + 1 + LenSize > x)
      BY <1>2
    <3> QED  BY <1>1, <3>1
  <2> QED  BY <2>1, FieldEndIs DEF SecondField
<1> HIDE DEF m
<1>4. e \in Nat /\ m + LenSize <= e
  <2>1. ~(m + LenSize > x)
    BY <1>2
  <2>2. m + LenSize <= Len(b)
    BY <1>1, <1>3, <2>1
  <2>3. FieldEnd(b, m) \in Nat /\ m + LenSize <= FieldEnd(b, m)
    BY <1>3, <2>2, FieldEndIs
  <2>4. e = FieldEnd(b, m) + CrcSize
    BY DEF EndAt, m
  <2> HIDE DEF e
  <2> QED  BY <1>1, <1>3, <2>3, <2>4
<1> HIDE DEF e, d
<1>5. HeaderSize <= o /\ o < e /\ e <= x
  <2>1. ~(o < HeaderSize) /\ ~(e > x)
    BY <1>2
  <2> QED  BY <1>1, <1>3, <1>4, <2>1
<1>6. Sized(d, e - o) # Invalid
  BY <1>2
<1>7. /\ d.kind = "ok" /\ d.size = e - o
      /\ Sized(d, e - o) = [ok |-> TRUE, record |-> d.record, size |-> e - o]
  BY <1>6, Zenon DEF Sized
<1>8. Decoded(b, x, o, e, ReadRecordAt(b, x, o))
  BY <1>2, <1>5, <1>7 DEF Decoded, d
<1> QED  BY <1>4, <1>8

(* What was written is read.                                               *)
Right(r) == [ok |-> TRUE, record |-> r, size |-> SizeOf(r)]

LEMMA WrittenIsRead ==
  ASSUME NEW b \in Seq(StoredCells), NEW x \in Nat, x <= Len(b), NEW o \in Nat,
         NEW r \in Encodables, Holds(b, o, Encode(r)), HeaderSize <= o, o + SizeOf(r) <= x
  PROVE  ReadRecordAt(b, x, o) = Right(r)
<1> DEFINE t == Encode(r)
           kl == Len(r.key)
           vl == Len(r.val)
           v == ValAt(r)
           q == SumAt(r)
           z == SizeOf(r)
           mid == 1 + LenSize + kl
<1>1. /\ HeaderSize \in Nat /\ LenSize \in Nat /\ LenSize > 0 /\ CrcSize \in Nat /\ CrcSize > 0
      /\ Len(b) \in Nat
  BY LayoutFacts, BaseFacts
<1>2. /\ r \in DataRecords /\ kl \in Nat /\ vl \in Nat
      /\ v = mid + LenSize /\ q = v + vl /\ z = q + CrcSize
  BY EncodableFacts DEF ValAt, SumAt, SizeOf
<1>3. t \in Seq(StoredCells) /\ Len(t) = z
  BY <1>2, EncodeIs
<1>4. \A n \in Nat : Agrees(t, r, n)
  BY DEF Agrees
<1>5. KeyLen(t) = kl /\ KeyEnd(t) = mid /\ ValStart(t) = v
  <2>1. 1 + LenSize \in Nat /\ 1 + LenSize <= z
    <3> HIDE DEF v, q, z, kl, vl
    <3> QED  BY <1>1, <1>2
  <2>2. Agrees(t, r, 1 + LenSize)
    BY <1>4, <2>1
  <2> HIDE DEF t
  <2> QED  BY <1>3, <2>1, <2>2, KeyLenIsRead DEF t
<1>6. ValLen(t) = vl /\ ValEnd(t) = q
  <2>1. v \in Nat /\ v <= z
    <3> HIDE DEF v, q, z, kl, vl
    <3> QED  BY <1>1, <1>2
  <2>2. Agrees(t, r, v)
    BY <1>4, <2>1
  <2> HIDE DEF t
  <2> QED  BY <1>3, <2>1, <2>2, ValLenIsRead DEF t
<1>7. Decode(t) = [kind |-> "ok", size |-> z, record |-> r]
  <2>1. z \in Nat /\ z <= z
    <3> HIDE DEF v, q, z, kl, vl
    <3> QED  BY <1>1, <1>2
  <2>2. Agrees(t, r, z)
    BY <1>4, <2>1
  <2> HIDE DEF t
  <2> QED  BY <1>3, <2>1, <2>2, RoundTrip DEF t
<1> HIDE DEF t, kl, vl, v, q, z, mid
<1>8. SubSeq(b, o + 1, o + z) = t
  <2>1. SubSeq(b, o + 1, o + Len(t)) = t
    BY <1>3, HeldIs DEF t
  <2> QED  BY <1>3, <2>1
<1>9. /\ mid \in Nat /\ v \in Nat /\ q \in Nat /\ z \in Nat
      /\ 1 + LenSize <= mid /\ mid <= v /\ v <= q /\ q <= z
      /\ o + z \in Nat /\ o <= o + z /\ o + z <= Len(b) /\ o + z <= x
  <2>1. mid = 1 + LenSize + kl
    BY DEF mid
  <2>2. o + z <= x
    BY DEF z
  <2> QED  BY <1>1, <1>2, <2>1, <2>2
<1>10. ASSUME NEW m \in Nat, NEW n \in Nat, m <= n, n <= z
       PROVE  SubSeq(t, m + 1, n) = SubSeq(b, (o + m) + 1, o + n)
  <2>1. o + n <= o + z
    BY <1>9, <1>10
  <2>2. SubSeq(SubSeq(b, o + 1, o + z), m + 1, n) = SubSeq(b, (o + m) + 1, o + n)
    BY <1>9, <1>10, <2>1, SliceOfSlice
  <2> QED  BY <1>8, <2>2
<1>11. SecondField(b, o) = o + mid
  <2>1. SubSeq(t, 1 + 1, 1 + LenSize) = SubSeq(b, (o + 1) + 1, o + (1 + LenSize))
    <3>1. 1 \in Nat /\ 1 + LenSize \in Nat /\ 1 <= 1 + LenSize /\ 1 + LenSize <= z
      BY <1>1, <1>9
    <3> QED  BY <1>10, <3>1
  <2>2. 1 + 1 = 2 /\ o + (1 + LenSize) = (o + 1) + LenSize
    BY <1>1
  <2>3. FromBytes(SubSeq(b, (o + 1) + 1, (o + 1) + LenSize)) = kl
    BY <1>5, <2>1, <2>2 DEF KeyLen
  <2>4. SecondField(b, o) = (o + 1) + LenSize + kl
    BY <2>3 DEF SecondField, FieldEnd, Slice
  <2> QED  BY <1>1, <1>2, <2>4 DEF mid
<1>12. EndAt(b, o) = o + z
  <2>1. SubSeq(t, mid + 1, v) = SubSeq(b, (o + mid) + 1, o + v)
    <3>1. v <= z
      BY <1>9
    <3> QED  BY <1>9, <1>10, <3>1
  <2>2. o + v = (o + mid) + LenSize
    BY <1>1, <1>2, <1>9
  <2>3. FromBytes(SubSeq(b, (o + mid) + 1, (o + mid) + LenSize)) = vl
    BY <1>5, <1>6, <2>1, <2>2 DEF ValLen
  <2>4. FieldEnd(b, o + mid) = (o + mid) + LenSize + vl
    BY <2>3 DEF FieldEnd, Slice
  <2>5. EndAt(b, o) = ((o + mid) + LenSize + vl) + CrcSize
    BY <1>11, <2>4 DEF EndAt
  <2> QED  BY <1>1, <1>2, <1>9, <2>5
<1>13. Sized(Decode(t), z) = Right(r)
  BY <1>7 DEF Sized, Right, z
<1>14. /\ ~(o < HeaderSize) /\ ~(o >= x) /\ ~(o + 1 + LenSize > x)
       /\ ~((o + mid) + LenSize > x) /\ ~(o + z > x)
       /\ (o + z) - o = z
  BY <1>1, <1>2, <1>9
<1>15. Slice(b, o, o + z) = t
  BY <1>8 DEF Slice
<1> QED  BY <1>11, <1>12, <1>13, <1>14, <1>15, ReadIs, Zenon

(* The records w lie in b where they were written, but for damaged cells.  *)
NearRecords(b, w) ==
  /\ Ends(w, Len(w)) <= Len(b)
  /\ \A i \in 1..Len(w) : \A j \in 1..SizeOf(w[i]) :
       \/ b[Ends(w, i - 1) + j] = Encode(w[i])[j]
       \/ b[Ends(w, i - 1) + j] \in PlainCells

(* The records' part of the file, and where they begin in it.              *)
Area(b, w) == SubSeq(b, HeaderSize + 1, Ends(w, Len(w)))
Starts(w) == [i \in 0..Len(w) |-> Ends(w, i) - HeaderSize]

LEMMA PlaceFacts ==
  ASSUME NEW w \in Seq(Encodables), NEW i \in 1..Len(w)
  PROVE  /\ w[i] \in Encodables /\ w[i] \in DataRecords
         /\ SizeOf(w[i]) \in Nat /\ SizeOf(w[i]) > 0
         /\ Encode(w[i]) \in Seq(StoredCells) /\ Len(Encode(w[i])) = SizeOf(w[i])
         /\ Ends(w, i - 1) \in Nat /\ Ends(w, i) \in Nat /\ Ends(w, Len(w)) \in Nat
         /\ HeaderSize <= Ends(w, i - 1) /\ Ends(w, i) = Ends(w, i - 1) + SizeOf(w[i])
         /\ Ends(w, i - 1) < Ends(w, i) /\ Ends(w, i) <= Ends(w, Len(w))
         /\ Ends(w, i - 1) < Ends(w, Len(w))
<1>1. w[i] \in Encodables
  BY ElementOfSeq
<1>2. w[i] \in DataRecords
  BY <1>1, EncodableFacts
<1>3. Encode(w[i]) \in Seq(StoredCells) /\ Len(Encode(w[i])) = SizeOf(w[i])
  BY <1>2, EncodeIs
<1>4. Ends(w, i) = Ends(w, i - 1) + SizeOf(w[i]) /\ SizeOf(w[i]) \in Nat
  BY EndsAre
<1>5. i \in 0..Len(w) /\ i - 1 \in 0..Len(w) /\ Len(w) \in 0..Len(w) /\ i - 1 \in 0..(i - 1)
  OBVIOUS
<1>6. Ends(w, i - 1) \in Nat /\ Ends(w, i) \in Nat /\ Ends(w, Len(w)) \in Nat
  BY <1>5, EndsGrow
<1>7. HeaderSize <= Ends(w, i - 1) /\ Ends(w, i) <= Ends(w, Len(w))
  BY <1>5, EndsGrow
<1>8. Ends(w, i - 1) < Ends(w, i)
  BY <1>5, EndsGrow
<1> DEFINE x == Ends(w, i - 1)
           y == Ends(w, i)
           z == Ends(w, Len(w))
           s == SizeOf(w[i])
<1>9. x \in Nat /\ y \in Nat /\ z \in Nat /\ s \in Nat /\ x < y /\ y <= z /\ y = x + s
  BY <1>4, <1>6, <1>7, <1>8
<1> HIDE DEF x, y, z, s
<1>10. x < z /\ s > 0
  BY <1>9
<1> QED  BY <1>1, <1>2, <1>3, <1>4, <1>6, <1>7, <1>8, <1>10 DEF x, z, s

LEMMA AreaIs ==
  ASSUME NEW b \in Seq(StoredCells), NEW w \in Seq(Encodables), Ends(w, Len(w)) <= Len(b)
  PROVE  /\ Area(b, w) \in Seq(StoredCells)
         /\ Len(Area(b, w)) = Ends(w, Len(w)) - HeaderSize
         /\ \A j \in 1..(Ends(w, Len(w)) - HeaderSize) : Area(b, w)[j] = b[HeaderSize + j]
         /\ Ends(w, Len(w)) \in Nat /\ HeaderSize \in Nat /\ HeaderSize <= Ends(w, Len(w))
<1>1. Len(w) \in 0..Len(w)
  OBVIOUS
<1>2. Ends(w, Len(w)) \in Nat /\ HeaderSize \in Nat /\ HeaderSize <= Ends(w, Len(w))
  BY <1>1, EndsGrow, LayoutFacts
<1> DEFINE x == Ends(w, Len(w))
<1>3. x \in Nat /\ HeaderSize \in Nat /\ HeaderSize <= x /\ x <= Len(b)
  BY <1>2
<1> HIDE DEF x
<1>4. /\ SubSeq(b, HeaderSize + 1, x) \in Seq(StoredCells)
      /\ Len(SubSeq(b, HeaderSize + 1, x)) = x - HeaderSize
      /\ \A j \in 1..(x - HeaderSize) : SubSeq(b, HeaderSize + 1, x)[j] = b[HeaderSize + j]
  BY <1>3, SliceIs
<1> QED  BY <1>2, <1>4 DEF Area, x

LEMMA StartsIs ==
  ASSUME NEW w \in Seq(Encodables)
  PROVE  /\ Starts(w) \in Places(w) /\ w \in Pieces(w) /\ w \in Seq(DataRecords \cup {Torn})
         /\ \A i \in 0..Len(w) : Starts(w)[i] = Ends(w, i) - HeaderSize
<1>1. ASSUME NEW i \in 0..Len(w) PROVE Ends(w, i) - HeaderSize \in Nat
  <2>1. Ends(w, i) \in Nat /\ HeaderSize \in Nat /\ HeaderSize <= Ends(w, i)
    BY EndsGrow, LayoutFacts
  <2> QED  BY <2>1
<1>2. Starts(w) \in [0..Len(w) -> Nat]
  BY <1>1 DEF Starts
<1>3. w \in [1..Len(w) -> Encodables]
  BY ElementOfSeq
<1>4. w \in Seq(DataRecords \cup {Torn})
  <2>1. \A r \in Encodables : r \in DataRecords \cup {Torn}
    BY EncodableFacts
  <2>2. \A i \in 1..Len(w) : w[i] \in DataRecords \cup {Torn}
    BY <1>3, <2>1
  <2> DEFINE R == DataRecords \cup {Torn}
  <2> HIDE DEF R
  <2>3. w \in [1..Len(w) -> R] /\ Len(w) \in Nat
    BY <1>3, <2>2 DEF R
  <2>4. w \in Seq(R)
    BY <2>3
  <2> QED  BY <2>4 DEF R
<1>5. \A i \in 0..Len(w) : Starts(w)[i] = Ends(w, i) - HeaderSize
  BY DEF Starts
<1> QED  BY <1>2, <1>3, <1>4, <1>5 DEF Places, Pieces

LEMMA AreaLaid ==
  ASSUME NEW b \in Seq(StoredCells), NEW w \in Seq(Encodables), NearRecords(b, w)
  PROVE  Laid(Area(b, w), w, TRUE, Starts(w), w)
<1> DEFINE A == Area(b, w)
           at == Starts(w)
           H == HeaderSize
           x == Ends(w, Len(w))
<1>1. /\ A \in Seq(StoredCells) /\ Len(A) = x - H
      /\ \A j \in 1..(x - H) : A[j] = b[H + j]
      /\ x \in Nat /\ H \in Nat /\ H <= x
  BY AreaIs DEF NearRecords
<1>2. \A i \in 0..Len(w) : at[i] = Ends(w, i) - H
  BY StartsIs
<1>3. at[0] = 0 /\ at[Len(w)] = Len(A)
  <2>1. 0 \in 0..Len(w) /\ Len(w) \in 0..Len(w)
    OBVIOUS
  <2>2. Ends(w, 0) = H
    BY EndsAre
  <2> HIDE DEF at, A, H, x
  <2>3. at[0] = H - H
    BY <1>2, <2>1, <2>2
  <2>4. at[Len(w)] = x - H
    BY <1>2, <2>1 DEF x
  <2> QED  BY <1>1, <2>3, <2>4
<1>4. ASSUME NEW i \in 1..Len(w)
      PROVE  /\ at[i - 1] < at[i] /\ at[i] = at[i - 1] + SizeOf(w[i])
             /\ \A p \in (at[i - 1] + 1)..at[i] :
                  \/ A[p] = Encode(w[i])[p - at[i - 1]]
                  \/ A[p] \in PlainCells
  <2> DEFINE o == Ends(w, i - 1)
             e == Ends(w, i)
             s == SizeOf(w[i])
  <2>1. o \in Nat /\ e \in Nat /\ s \in Nat /\ s > 0 /\ H <= o /\ e = o + s /\ e <= x
    BY PlaceFacts
  <2>2. i \in 0..Len(w) /\ i - 1 \in 0..Len(w)
    OBVIOUS
  <2>3. at[i - 1] = o - H /\ at[i] = e - H
    BY <1>2, <2>2
  <2>4. \A j \in 1..s : b[o + j] = Encode(w[i])[j] \/ b[o + j] \in PlainCells
    BY DEF NearRecords
  <2> HIDE DEF o, e, s, at, A, H, x
  <2>5. at[i - 1] < at[i] /\ at[i] = at[i - 1] + s
    BY <1>1, <2>1, <2>3
  <2>6. ASSUME NEW p \in (at[i - 1] + 1)..at[i]
        PROVE  A[p] = Encode(w[i])[p - at[i - 1]] \/ A[p] \in PlainCells
    <3>1. p - (o - H) \in 1..s /\ p \in 1..(x - H) /\ o + (p - (o - H)) = H + p
      BY <1>1, <2>1, <2>3
    <3>2. A[p] = b[H + p]
      BY <1>1, <3>1
    <3> QED  BY <2>3, <2>4, <3>1, <3>2
  <2> QED  BY <2>5, <2>6 DEF s
<1>5. ASSUME NEW i \in 1..Len(w) PROVE at[i - 1] + SizeOf(w[i]) <= at[i - 1] + SizeOf(w[i])
  <2>1. i - 1 \in 0..Len(w) /\ SizeOf(w[i]) \in Nat
    BY PlaceFacts
  <2>2. at[i - 1] \in Nat
    BY <2>1, StartsIs DEF Places
  <2> HIDE DEF at
  <2> QED  BY <2>1, <2>2
<1> HIDE DEF at, A
<1>6. \A i \in 1..Len(w) :
        /\ at[i - 1] < at[i] /\ at[i] <= at[i - 1] + SizeOf(w[i])
        /\ w[i] = IF at[i] = at[i - 1] + SizeOf(w[i]) THEN w[i] ELSE Torn
        /\ \A p \in (at[i - 1] + 1)..at[i] :
             \/ A[p] = Encode(w[i])[p - at[i - 1]]
             \/ TRUE /\ A[p] \in PlainCells
  BY <1>4, <1>5, Zenon
<1>7. Laid(A, w, TRUE, at, w)
  BY <1>3, <1>6, Zenon DEF Laid
<1> QED  BY <1>7 DEF at, A

(* What is read of a damaged record is that record, or an error.           *)
LEMMA DamagedIsRead ==
  ASSUME NEW b \in Seq(StoredCells), NEW w \in Seq(Encodables), NearRecords(b, w),
         NEW i \in 1..Len(w),
         ReadRecordAt(b, Ends(w, Len(w)), Ends(w, i - 1)) # Invalid
  PROVE  ReadRecordAt(b, Ends(w, Len(w)), Ends(w, i - 1)) = Right(w[i])
<1> DEFINE A == Area(b, w)
           at == Starts(w)
           H == HeaderSize
           x == Ends(w, Len(w))
           o == Ends(w, i - 1)
           a == at[i - 1]
           result == ReadRecordAt(b, x, o)
<1>1. /\ A \in Seq(StoredCells) /\ Len(A) = x - H
      /\ x \in Nat /\ H \in Nat /\ H <= x /\ x <= Len(b)
  BY AreaIs DEF NearRecords
<1>2. o \in Nat /\ H <= o /\ o < x
  BY PlaceFacts
<1>3. a = o - H
  <2>1. i - 1 \in 0..Len(w)
    OBVIOUS
  <2> QED  BY <2>1, StartsIs
<1>4. PICK e \in Nat : Decoded(b, x, o, e, result)
  BY <1>1, <1>2, ReadDecodes
<1> HIDE DEF H, x, o, a
<1>5. /\ o < e /\ e <= x
      /\ Decode(Slice(b, o, e)).kind = "ok" /\ Decode(Slice(b, o, e)).size = e - o
      /\ result = [ok |-> TRUE, record |-> Decode(Slice(b, o, e)).record, size |-> e - o]
  BY <1>4 DEF Decoded
<1>6. From(A, a) = SubSeq(b, o + 1, x)
  <2>1. /\ a \in Nat /\ x - H \in Nat /\ a <= x - H /\ H + (x - H) = x /\ H + (x - H) <= x
        /\ H + a = o
    BY <1>1, <1>2, <1>3
  <2>2. SubSeq(SubSeq(b, H + 1, x), a + 1, x - H) = SubSeq(b, (H + a) + 1, H + (x - H))
    BY <1>1, <2>1, SliceOfSlice
  <2>3. A = SubSeq(b, H + 1, x)
    BY DEF Area, H, x
  <2> HIDE DEF A
  <2> QED  BY <1>1, <2>1, <2>2, <2>3 DEF From
<1> DEFINE t == SubSeq(b, o + 1, x)
           n == e - o
<1>7. /\ t \in Seq(StoredCells) /\ Len(t) = x - o /\ n \in Nat /\ n <= Len(t)
  <2>1. o <= x /\ e - o \in Nat /\ e - o <= x - o
    BY <1>1, <1>2, <1>5
  <2>2. t \in Seq(StoredCells) /\ Len(t) = x - o
    BY <1>1, <1>2, <2>1, SliceIs
  <2> HIDE DEF t
  <2> QED  BY <2>1, <2>2
<1>8. SubSeq(t, 1, n) = Slice(b, o, e)
  <2>1. 0 \in Nat /\ 0 <= n /\ o + n = e /\ o + n <= x /\ 0 + 1 = 1 /\ o + 0 = o /\ o <= x
    BY <1>1, <1>2, <1>5
  <2>2. SubSeq(SubSeq(b, o + 1, x), 0 + 1, n) = SubSeq(b, (o + 0) + 1, o + n)
    <3> HIDE DEF n
    <3> QED  BY <1>1, <1>2, <1>7, <2>1, SliceOfSlice
  <2> HIDE DEF n
  <2> QED  BY <2>1, <2>2 DEF Slice
<1> HIDE DEF t, n
<1>9. Decode(t) = Decode(Slice(b, o, e))
  <2>1. Decode(SubSeq(t, 1, n)).kind = "ok"
    BY <1>5, <1>8
  <2>2. Decode(t) = Decode(SubSeq(t, 1, n))
    BY <1>7, <2>1, DecodePrefix
  <2> QED  BY <1>8, <2>2
<1>10. Decode(From(A, a)) = Decode(t) /\ Decode(From(A, at[i - 1])).kind = "ok"
  <2>1. From(A, a) = t
    BY <1>6 DEF t
  <2> QED  BY <1>5, <1>9, <2>1 DEF a
<1>11. Decode(From(A, at[i - 1])) = [kind |-> "ok", size |-> SizeOf(w[i]), record |-> w[i]]
  <2>1. Laid(A, w, TRUE, at, w)
    BY AreaLaid
  <2>2. at \in Places(w) /\ w \in Pieces(w) /\ w \in Seq(DataRecords \cup {Torn})
    BY StartsIs
  <2>3. A \in Seq(StoredCells)
    BY <1>1
  <2> HIDE DEF A, at
  <2> QED  BY <1>10, <2>1, <2>2, <2>3, AcceptedIsPiece
<1>12. Decode(Slice(b, o, e)) = [kind |-> "ok", size |-> SizeOf(w[i]), record |-> w[i]]
  BY <1>9, <1>10, <1>11 DEF a
<1>13. Decode(Slice(b, o, e)).record = w[i] /\ Decode(Slice(b, o, e)).size = SizeOf(w[i])
  BY <1>12
<1>14. result = Right(w[i])
  <2> HIDE DEF result
  <2> QED  BY <1>5, <1>13 DEF Right
<1> QED  BY <1>14 DEF x, o

(***************************************************************************)
(* The loops of the reader                                                 *)
(***************************************************************************)

LEMMA ReadAdvances ==
  ASSUME NEW b \in Seq(StoredCells), NEW x \in Nat, x <= Len(b), NEW o \in Nat
  PROVE  LET r == ReadRecordAt(b, x, o)
         IN  /\ r.ok => o < x /\ o + r.size \in Nat /\ o < o + r.size
             /\ ~r.ok => r = Invalid
<1> DEFINE r == ReadRecordAt(b, x, o)
<1>1. CASE r = Invalid
  BY <1>1 DEF Invalid
<1>2. CASE r # Invalid
  <2>1. PICK e \in Nat : Decoded(b, x, o, e, r)
    BY <1>2, ReadDecodes
  <2>2. o < e /\ e <= x /\ r.ok = TRUE /\ r.size = e - o
    BY <2>1 DEF Decoded
  <2> HIDE DEF r
  <2>3. o < x /\ o + r.size \in Nat /\ o < o + r.size
    BY <2>2
  <2> QED  BY <2>2, <2>3 DEF r
<1> QED  BY <1>1, <1>2

(* A step of iter_all.                                                     *)
AllStep(b, x, f) ==
  \A o \in Nat :
    f[o] = IF o = x THEN [ok |-> TRUE, records |-> <<>>]
           ELSE IF ReadRecordAt(b, x, o).ok
           THEN Before(ReadRecordAt(b, x, o).record, f[o + ReadRecordAt(b, x, o).size])
           ELSE Invalid

LEMMA ReadAllIs ==
  ASSUME NEW b \in Seq(StoredCells), NEW x \in Nat, x <= Len(b)
  PROVE  \E f : AllStep(b, x, f) /\ f[HeaderSize] = ReadAll(b, x)
<1> DEFINE r(o) == ReadRecordAt(b, x, o)
           R == {o \in Nat : o # x /\ r(o).ok}
           X == {r(o).record : o \in R}
           D == {Invalid} \cup [ok : {TRUE}, records : Seq(X)]
           next == [o \in R |-> o + r(o).size]
           base == [o \in Nat |-> IF o = x THEN [ok |-> TRUE, records |-> <<>>] ELSE Invalid]
           g == [o \in R |-> [v \in D |-> Before(r(o).record, v)]]
           F == CHOOSE f : f = [o \in Nat |->
                  IF o = x THEN [ok |-> TRUE, records |-> <<>>]
                  ELSE IF r(o).ok THEN Before(r(o).record, f[o + r(o).size]) ELSE Invalid]
<1>1. ReadAll(b, x) = F[HeaderSize]
  BY DEF ReadAll
<1> HIDE DEF F
<1>2. \A o \in R : o < x /\ o + r(o).size \in Nat /\ o < o + r(o).size
  BY ReadAdvances
<1> HIDE DEF r
<1>3. Nat \subseteq Nat /\ R \subseteq Nat /\ \A o \in R : o <= x
  BY <1>2
<1>4. next \in [R -> Nat] /\ \A o \in R : o < next[o]
  BY <1>2
<1>5. base \in [Nat -> D]
  <2>1. <<>> \in Seq(X)
    BY EmptySeq
  <2> HIDE DEF X
  <2> QED  BY <2>1
<1>6. g \in [R -> [D -> D]]
  <2>1. ASSUME NEW o \in R, NEW v \in D PROVE Before(r(o).record, v) \in D
    <3> DEFINE y == r(o).record
    <3>1. y \in X
      OBVIOUS
    <3> HIDE DEF y, X, R
    <3>2. CASE v = Invalid
      BY <3>2, Zenon DEF Before, Invalid
    <3>3. CASE v \in [ok : {TRUE}, records : Seq(X)]
      <4>1. v.ok /\ v.records \in Seq(X)
        BY <3>3
      <4>2. <<y>> \o v.records \in Seq(X)
        <5>1. <<y>> \in Seq(X)
          BY <3>1
        <5> QED  BY <4>1, <5>1, ConcatProperties
      <4>3. Before(y, v) = [ok |-> TRUE, records |-> <<y>> \o v.records]
        BY <4>1 DEF Before
      <4> QED  BY <4>2, <4>3 DEF y
    <3> QED  BY <3>2, <3>3
  <2> HIDE DEF D, R
  <2> QED  BY <2>1
<1>7. PICK h \in [Nat -> D] : Jumps(h, Nat, R, next, base, g)
  <2> HIDE DEF D, R, next, base, g
  <2> QED  BY <1>3, <1>4, <1>5, <1>6, JumpRecursion
<1>8. ASSUME NEW o \in Nat
      PROVE  h[o] = IF o = x THEN [ok |-> TRUE, records |-> <<>>]
                    ELSE IF r(o).ok THEN Before(r(o).record, h[o + r(o).size]) ELSE Invalid
  <2>1. h[o] = IF o \in R THEN g[o][h[next[o]]] ELSE base[o]
    BY <1>7, Zenon DEF Jumps
  <2>2. CASE o \in R
    <3>1. o # x /\ r(o).ok
      BY <2>2
    <3>2. next[o] = o + r(o).size /\ next[o] \in Nat
      BY <1>4, <2>2
    <3>3. h[next[o]] \in D
      BY <1>7, <3>2
    <3>4. \A v \in D : g[o][v] = Before(r(o).record, v)
      <4> HIDE DEF D, R
      <4> QED  BY <2>2
    <3> HIDE DEF D, R, next, base, g
    <3>5. h[o] = Before(r(o).record, h[next[o]])
      BY <2>1, <2>2, <3>3, <3>4
    <3> QED  BY <3>1, <3>2, <3>5
  <2>3. CASE o \notin R
    <3>1. h[o] = base[o]
      BY <2>1, <2>3, Zenon
    <3>2. base[o] = IF o = x THEN [ok |-> TRUE, records |-> <<>>] ELSE Invalid
      OBVIOUS
    <3>3. o = x \/ ~r(o).ok
      BY <2>3
    <3> HIDE DEF R, base
    <3> QED  BY <3>1, <3>2, <3>3, Zenon
  <2> QED  BY <2>2, <2>3
<1> HIDE DEF D, R, next, base, g, X
<1>9. h = [o \in Nat |->
             IF o = x THEN [ok |-> TRUE, records |-> <<>>]
             ELSE IF r(o).ok THEN Before(r(o).record, h[o + r(o).size]) ELSE Invalid]
  BY <1>7, <1>8
<1>10. F = [o \in Nat |->
             IF o = x THEN [ok |-> TRUE, records |-> <<>>]
             ELSE IF r(o).ok THEN Before(r(o).record, F[o + r(o).size]) ELSE Invalid]
  BY <1>9, Zenon DEF F
<1>11. AllStep(b, x, F)
  <2> SUFFICES ASSUME NEW o \in Nat
               PROVE  F[o] = IF o = x THEN [ok |-> TRUE, records |-> <<>>]
                      ELSE IF r(o).ok THEN Before(r(o).record, F[o + r(o).size]) ELSE Invalid
    BY Zenon DEF AllStep, r
  <2> QED  BY <1>10, Zenon
<1> QED  BY <1>1, <1>11

(* A step of the search in get.                                            *)
SearchStep(b, x, k, f) ==
  \A o \in Nat :
    f[o] = IF o >= x THEN NotFound
           ELSE IF ~ReadRecordAt(b, x, o).ok THEN Invalid
           ELSE IF ReadRecordAt(b, x, o).record.key = k THEN ReadRecordAt(b, x, o).record
           ELSE IF Less(k, ReadRecordAt(b, x, o).record.key) THEN NotFound
           ELSE f[o + ReadRecordAt(b, x, o).size]

(* The indexed keys that are not above k, and where the search begins.     *)
IndexBefore(index, k) ==
  {i \in DOMAIN index : \A j \in 1..i : AtMost(index[j].key, k)}
SearchStart(index, k) ==
  IF IndexBefore(index, k) = {} THEN HeaderSize ELSE index[Max(IndexBefore(index, k))].at

LEMMA SearchIs ==
  ASSUME NEW b \in Seq(StoredCells), NEW opened, NEW x \in Nat, x = opened.indexOffset,
         x <= Len(b), NEW k
  PROVE  \E f : /\ SearchStep(b, x, k, f)
                /\ f[SearchStart(opened.index, k)] = Search(b, opened, k)
<1> DEFINE r(o) == ReadRecordAt(b, x, o)
           R == {o \in Nat : /\ ~(o >= x) /\ r(o).ok /\ r(o).record.key # k
                             /\ ~Less(k, r(o).record.key)}
           D == {NotFound, Invalid} \cup {r(o).record : o \in Nat}
           next == [o \in R |-> o + r(o).size]
           base == [o \in Nat |->
                      IF o >= x THEN NotFound
                      ELSE IF ~r(o).ok THEN Invalid
                      ELSE IF r(o).record.key = k THEN r(o).record
                      ELSE NotFound]
           g == [o \in R |-> [v \in D |-> v]]
           F == CHOOSE f : f = [o \in Nat |->
                  IF o >= x THEN NotFound
                  ELSE IF ~r(o).ok THEN Invalid
                  ELSE IF r(o).record.key = k THEN r(o).record
                  ELSE IF Less(k, r(o).record.key) THEN NotFound
                  ELSE f[o + r(o).size]]
<1>1. Search(b, opened, k) = F[SearchStart(opened.index, k)]
  BY DEF Search, SearchStart, IndexBefore
<1> HIDE DEF F
<1>2. \A o \in R : o < x /\ o + r(o).size \in Nat /\ o < o + r(o).size
  BY ReadAdvances
<1> HIDE DEF r
<1>3. Nat \subseteq Nat /\ R \subseteq Nat /\ \A o \in R : o <= x
  BY <1>2
<1>4. next \in [R -> Nat] /\ \A o \in R : o < next[o]
  BY <1>2
<1>5. base \in [Nat -> D]
  OBVIOUS
<1>6. g \in [R -> [D -> D]]
  <2> HIDE DEF D, R
  <2> QED  OBVIOUS
<1>7. PICK h \in [Nat -> D] : Jumps(h, Nat, R, next, base, g)
  <2> HIDE DEF D, R, next, base, g
  <2> QED  BY <1>3, <1>4, <1>5, <1>6, JumpRecursion
<1>8. ASSUME NEW o \in Nat
      PROVE  h[o] = IF o >= x THEN NotFound
                    ELSE IF ~r(o).ok THEN Invalid
                    ELSE IF r(o).record.key = k THEN r(o).record
                    ELSE IF Less(k, r(o).record.key) THEN NotFound
                    ELSE h[o + r(o).size]
  <2>1. h[o] = IF o \in R THEN g[o][h[next[o]]] ELSE base[o]
    BY <1>7, Zenon DEF Jumps
  <2>2. CASE o \in R
    <3>1. /\ ~(o >= x) /\ r(o).ok /\ r(o).record.key # k /\ ~Less(k, r(o).record.key)
      BY <2>2
    <3>2. next[o] = o + r(o).size /\ next[o] \in Nat
      BY <1>4, <2>2
    <3>3. h[next[o]] \in D
      BY <1>7, <3>2
    <3>4. \A v \in D : g[o][v] = v
      <4> HIDE DEF D, R
      <4> QED  BY <2>2
    <3> HIDE DEF D, R, next, base, g
    <3>5. h[o] = h[next[o]]
      BY <2>1, <2>2, <3>3, <3>4
    <3> QED  BY <3>1, <3>2, <3>5, Zenon
  <2>3. CASE o \notin R
    <3>1. h[o] = base[o]
      BY <2>1, <2>3, Zenon
    <3>2. base[o] = IF o >= x THEN NotFound
                      ELSE IF ~r(o).ok THEN Invalid
                      ELSE IF r(o).record.key = k THEN r(o).record
                      ELSE NotFound
      BY Zenon
    <3>3. ~(/\ ~(o >= x) /\ r(o).ok /\ r(o).record.key # k /\ ~Less(k, r(o).record.key))
      BY <2>3, Zenon
    <3> HIDE DEF R, base
    <3> QED  BY <3>1, <3>2, <3>3, Zenon
  <2> QED  BY <2>2, <2>3
<1> HIDE DEF D, R, next, base, g
<1>9. h = [o \in Nat |->
             IF o >= x THEN NotFound
             ELSE IF ~r(o).ok THEN Invalid
             ELSE IF r(o).record.key = k THEN r(o).record
             ELSE IF Less(k, r(o).record.key) THEN NotFound
             ELSE h[o + r(o).size]]
  BY <1>7, <1>8
<1>10. F = [o \in Nat |->
             IF o >= x THEN NotFound
             ELSE IF ~r(o).ok THEN Invalid
             ELSE IF r(o).record.key = k THEN r(o).record
             ELSE IF Less(k, r(o).record.key) THEN NotFound
             ELSE F[o + r(o).size]]
  BY <1>9, Zenon DEF F
<1>11. SearchStep(b, x, k, F)
  <2> SUFFICES ASSUME NEW o \in Nat
               PROVE  F[o] = IF o >= x THEN NotFound
                      ELSE IF ~r(o).ok THEN Invalid
                      ELSE IF r(o).record.key = k THEN r(o).record
                      ELSE IF Less(k, r(o).record.key) THEN NotFound
                      ELSE F[o + r(o).size]
    BY Zenon DEF SearchStep, r
  <2> QED  BY <1>10, Zenon
<1> QED  BY <1>1, <1>11

(* A step of read_sparse_index: the entry at o, and where it ends.         *)
EntryEnd(b, o) == FieldEnd(b, o) + OffSize
EntryAt(b, o) ==
  [key |-> Numbers(Slice(b, o + LenSize, FieldEnd(b, o))),
   at  |-> FromBytes(Slice(b, FieldEnd(b, o), EntryEnd(b, o)))]
EntriesStep(b, y, f) ==
  \A o \in Nat :
    f[o] = IF o = y THEN [ok |-> TRUE, entries |-> <<>>]
           ELSE IF o + LenSize > y THEN Invalid
           ELSE IF EntryEnd(b, o) > y \/ ~f[EntryEnd(b, o)].ok THEN Invalid
           ELSE [ok |-> TRUE, entries |-> <<EntryAt(b, o)>> \o f[EntryEnd(b, o)].entries]

LEMMA ReadEntriesIs ==
  ASSUME NEW b \in Seq(StoredCells), NEW y \in Nat, y <= Len(b), NEW x
  PROVE  \E f : EntriesStep(b, y, f) /\ f[x] = ReadEntries(b, x, y)
<1> DEFINE e(o) == EntryEnd(b, o)
           v(o) == EntryAt(b, o)
           R == {o \in Nat : o # y /\ ~(o + LenSize > y) /\ ~(e(o) > y)}
           X == {v(o) : o \in R}
           D == {Invalid} \cup [ok : {TRUE}, entries : Seq(X)]
           next == [o \in R |-> e(o)]
           base == [o \in Nat |-> IF o = y THEN [ok |-> TRUE, entries |-> <<>>] ELSE Invalid]
           g == [o \in R |-> [d \in D |->
                   IF ~d.ok THEN Invalid ELSE [ok |-> TRUE, entries |-> <<v(o)>> \o d.entries]]]
           F == CHOOSE f : f = [o \in Nat |->
                  IF o = y THEN [ok |-> TRUE, entries |-> <<>>]
                  ELSE IF o + LenSize > y THEN Invalid
                  ELSE IF e(o) > y \/ ~f[e(o)].ok THEN Invalid
                  ELSE [ok |-> TRUE, entries |-> <<v(o)>> \o f[e(o)].entries]]
<1>1. ReadEntries(b, x, y) = F[x]
  BY DEF ReadEntries, EntryEnd, EntryAt, FieldEnd
<1> HIDE DEF F
<1>2. ASSUME NEW o \in R PROVE o < y /\ e(o) \in Nat /\ o < e(o)
  <2>1. o \in Nat /\ ~(o + LenSize > y)
    OBVIOUS
  <2>2. LenSize \in Nat /\ LenSize > 0 /\ OffSize \in Nat /\ Len(b) \in Nat
    BY BaseFacts, LayoutFacts
  <2>3. o + LenSize <= Len(b) /\ o < y
    BY <2>1, <2>2
  <2>4. FieldEnd(b, o) \in Nat /\ o + LenSize <= FieldEnd(b, o)
    BY <2>1, <2>3, FieldEndIs
  <2> QED  BY <2>1, <2>2, <2>3, <2>4 DEF EntryEnd
<1> HIDE DEF e, v
<1>3. Nat \subseteq Nat /\ R \subseteq Nat /\ \A o \in R : o <= y
  BY <1>2
<1>4. next \in [R -> Nat] /\ \A o \in R : o < next[o]
  BY <1>2
<1>5. base \in [Nat -> D]
  <2>1. <<>> \in Seq(X)
    BY EmptySeq
  <2> HIDE DEF X
  <2> QED  BY <2>1
<1>6. g \in [R -> [D -> D]]
  <2>1. ASSUME NEW o \in R, NEW d \in D
        PROVE  (IF ~d.ok THEN Invalid ELSE [ok |-> TRUE, entries |-> <<v(o)>> \o d.entries]) \in D
    <3>1. v(o) \in X
      OBVIOUS
    <3> HIDE DEF X, R
    <3>2. CASE d = Invalid
      <4>1. ~d.ok
        BY <3>2 DEF Invalid
      <4> QED  BY <4>1, Zenon
    <3>3. CASE d \in [ok : {TRUE}, entries : Seq(X)]
      <4>1. d.ok /\ d.entries \in Seq(X)
        BY <3>3
      <4>2. <<v(o)>> \o d.entries \in Seq(X)
        <5>1. <<v(o)>> \in Seq(X)
          BY <3>1
        <5> QED  BY <4>1, <5>1, ConcatProperties
      <4> QED  BY <4>1, <4>2
    <3> QED  BY <3>2, <3>3
  <2> HIDE DEF D, R
  <2> QED  BY <2>1
<1>7. PICK h \in [Nat -> D] : Jumps(h, Nat, R, next, base, g)
  <2> HIDE DEF D, R, next, base, g
  <2> QED  BY <1>3, <1>4, <1>5, <1>6, JumpRecursion
<1>8. ASSUME NEW o \in Nat
      PROVE  h[o] = IF o = y THEN [ok |-> TRUE, entries |-> <<>>]
                    ELSE IF o + LenSize > y THEN Invalid
                    ELSE IF e(o) > y \/ ~h[e(o)].ok THEN Invalid
                    ELSE [ok |-> TRUE, entries |-> <<v(o)>> \o h[e(o)].entries]
  <2>1. h[o] = IF o \in R THEN g[o][h[next[o]]] ELSE base[o]
    BY <1>7, Zenon DEF Jumps
  <2>2. CASE o \in R
    <3>1. o # y /\ ~(o + LenSize > y) /\ ~(e(o) > y)
      BY <2>2
    <3>2. next[o] = e(o) /\ next[o] \in Nat
      BY <1>4, <2>2
    <3>3. h[next[o]] \in D
      BY <1>7, <3>2
    <3>4. \A d \in D : g[o][d] = IF ~d.ok THEN Invalid ELSE [ok |-> TRUE, entries |-> <<v(o)>> \o d.entries]
      <4> HIDE DEF D, R
      <4> QED  BY <2>2
    <3> HIDE DEF D, R, next, base, g
    <3> DEFINE d == h[next[o]]
    <3>5. h[o] = IF ~d.ok THEN Invalid ELSE [ok |-> TRUE, entries |-> <<v(o)>> \o d.entries]
      BY <2>1, <2>2, <3>3, <3>4
    <3>6. d = h[e(o)]
      BY <3>2
    <3> HIDE DEF d
    <3> QED  BY <3>1, <3>5, <3>6, Zenon
  <2>3. CASE o \notin R
    <3>1. h[o] = base[o]
      BY <2>1, <2>3, Zenon
    <3>2. base[o] = IF o = y THEN [ok |-> TRUE, entries |-> <<>>] ELSE Invalid
      OBVIOUS
    <3>3. ~(o # y /\ ~(o + LenSize > y) /\ ~(e(o) > y))
      BY <2>3, Zenon
    <3> HIDE DEF R, base
    <3> QED  BY <3>1, <3>2, <3>3, Zenon
  <2> QED  BY <2>2, <2>3
<1> HIDE DEF D, R, next, base, g, X
<1>9. h = [o \in Nat |->
             IF o = y THEN [ok |-> TRUE, entries |-> <<>>]
             ELSE IF o + LenSize > y THEN Invalid
             ELSE IF e(o) > y \/ ~h[e(o)].ok THEN Invalid
             ELSE [ok |-> TRUE, entries |-> <<v(o)>> \o h[e(o)].entries]]
  BY <1>7, <1>8
<1>10. F = [o \in Nat |->
             IF o = y THEN [ok |-> TRUE, entries |-> <<>>]
             ELSE IF o + LenSize > y THEN Invalid
             ELSE IF e(o) > y \/ ~F[e(o)].ok THEN Invalid
             ELSE [ok |-> TRUE, entries |-> <<v(o)>> \o F[e(o)].entries]]
  BY <1>9, Zenon DEF F
<1>11. EntriesStep(b, y, F)
  <2> SUFFICES ASSUME NEW o \in Nat
               PROVE  F[o] = IF o = y THEN [ok |-> TRUE, entries |-> <<>>]
                      ELSE IF o + LenSize > y THEN Invalid
                      ELSE IF e(o) > y \/ ~F[e(o)].ok THEN Invalid
                      ELSE [ok |-> TRUE, entries |-> <<v(o)>> \o F[e(o)].entries]
    BY Zenon DEF EntriesStep, e, v
  <2> QED  BY <1>10, Zenon
<1> QED  BY <1>1, <1>11

(* Every record is read as it was written; or, in a damaged file, not at all. *)
Answers(b, w, good) ==
  \A i \in 1..Len(w) :
    \/ ReadRecordAt(b, Ends(w, Len(w)), Ends(w, i - 1)) = Right(w[i])
    \/ ~good /\ ReadRecordAt(b, Ends(w, Len(w)), Ends(w, i - 1)) = Invalid

(* The outcome wanted; or, in a damaged file, an error.                    *)
Got(result, wanted, good) == result = wanted \/ (~good /\ result = Invalid)

LEMMA AllIsRead ==
  ASSUME NEW b \in Seq(StoredCells), NEW w \in Seq(Encodables), NEW good,
         Ends(w, Len(w)) <= Len(b), Answers(b, w, good)
  PROVE  Got(ReadAll(b, Ends(w, Len(w))), [ok |-> TRUE, records |-> w], good)
<1> DEFINE n == Len(w)
           x == Ends(w, n)
           All(i) == [ok |-> TRUE, records |-> SubSeq(w, i + 1, n)]
<1>1. n \in Nat /\ n \in 0..n /\ 0 \in 0..n
  OBVIOUS
<1>2. x \in Nat /\ \A i \in 0..n : Ends(w, i) \in Nat
  BY <1>1, EndsGrow
<1>3. PICK f : AllStep(b, x, f) /\ f[HeaderSize] = ReadAll(b, x)
  <2> HIDE DEF n
  <2> QED  BY <1>2, ReadAllIs DEF n
<1> HIDE DEF All
<1> DEFINE T == {i \in 0..n : Got(f[Ends(w, i)], All(i), good)}
<1>4. n \in T
  <2>1. f[x] = [ok |-> TRUE, records |-> <<>>]
    <3> HIDE DEF x
    <3> QED  BY <1>2, <1>3 DEF AllStep
  <2>2. SubSeq(w, n + 1, n) = <<>>
    BY <1>1, SubSeqEmpty
  <2> HIDE DEF n
  <2>3. f[Ends(w, n)] = All(n)
    BY <2>1, <2>2 DEF All
  <2> QED  BY <1>1, <2>3 DEF Got
<1>5. ASSUME NEW i \in 0..(n - 1), i + 1 \in T PROVE i \in T
  <2> DEFINE h == i + 1
             o == Ends(w, i)
             r == ReadRecordAt(b, x, o)
  <2>1. h \in 1..n /\ h - 1 = i /\ i \in 0..n
    BY <1>1
  <2>2. o \in Nat /\ o < x /\ Ends(w, h) = o + SizeOf(w[h])
    <3>1. Ends(w, h - 1) \in Nat /\ Ends(w, h - 1) < Ends(w, n)
          /\ Ends(w, h) = Ends(w, h - 1) + SizeOf(w[h])
      <4> HIDE DEF h
      <4> QED  BY <2>1, PlaceFacts
    <3> QED  BY <2>1, <3>1
  <2>3. r = Right(w[h]) \/ (~good /\ r = Invalid)
    <3>1. \/ ReadRecordAt(b, x, Ends(w, h - 1)) = Right(w[h])
          \/ ~good /\ ReadRecordAt(b, x, Ends(w, h - 1)) = Invalid
      <4> HIDE DEF h
      <4> QED  BY <2>1, Zenon DEF Answers
    <3> QED  BY <2>1, <3>1
  <2>4. Got(f[Ends(w, h)], All(h), good)
    <3>1. h \in T
      BY <1>5
    <3> HIDE DEF h
    <3> QED  BY <3>1
  <2>5. All(i).records = <<w[h]>> \o All(h).records /\ All(i) = [ok |-> TRUE, records |-> All(i).records]
        /\ All(h).ok
    <3>1. SubSeq(w, h, n) = <<w[h]>> \o SubSeq(w, h + 1, n)
      <4>1. h \in 1..Len(w) /\ n \in h..Len(w)
        BY <1>1, <2>1
      <4> HIDE DEF h, n
      <4> QED  BY <4>1, SubSeqRecursiveFirst
    <3> QED  BY <3>1 DEF All
  <2>6. f[o] = IF o = x THEN [ok |-> TRUE, records |-> <<>>]
               ELSE IF r.ok THEN Before(r.record, f[o + r.size]) ELSE Invalid
    <3> HIDE DEF o, x
    <3> QED  BY <1>3, <2>2, Zenon DEF AllStep
  <2>7. o # x
    <3> HIDE DEF o, x
    <3> QED  BY <1>2, <2>2
  <2> HIDE DEF o, r, h, T
  <2>8. CASE r = Invalid /\ ~good
    <3>1. f[o] = Invalid
      <4>1. ~r.ok
        BY <2>8 DEF Invalid
      <4> QED  BY <2>6, <2>7, <4>1, Zenon
    <3>2. Got(f[o], All(i), good)
      BY <2>8, <3>1 DEF Got
    <3> QED  BY <2>1, <3>2 DEF T, o
  <2>9. CASE r = Right(w[h])
    <3>1. r.ok /\ r.record = w[h] /\ r.size = SizeOf(w[h])
      BY <2>9 DEF Right
    <3>2. f[o] = Before(w[h], f[Ends(w, h)])
      BY <2>2, <2>6, <2>7, <3>1, Zenon
    <3>3. CASE f[Ends(w, h)] = All(h)
      <4>1. f[o] = All(i)
        BY <2>5, <3>2, <3>3 DEF Before
      <4> QED  BY <2>1, <4>1 DEF Got, T, o
    <3>4. CASE ~good /\ f[Ends(w, h)] = Invalid
      <4>1. f[o] = Invalid
        BY <3>2, <3>4 DEF Before, Invalid
      <4> QED  BY <2>1, <3>4, <4>1 DEF Got, T, o
    <3> QED  BY <2>4, <3>3, <3>4, Zenon DEF Got
  <2> QED  BY <2>3, <2>8, <2>9
<1>6. \A i \in 0..n : i \in T
  <2> HIDE DEF T
  <2> QED  BY <1>1, <1>4, <1>5, DownwardInduction
<1>7. Got(f[Ends(w, 0)], All(0), good)
  BY <1>1, <1>6
<1>8. Ends(w, 0) = HeaderSize /\ SubSeq(w, 0 + 1, n) = w
  <2>1. 0 + 1 = 1 /\ SubSeq(w, 1, n) = w
    BY SubSeqFull
  <2> QED  BY <2>1, EndsAre
<1> QED  BY <1>3, <1>7, <1>8 DEF All

(* Written records are sorted by their keys.                               *)
Sorted(w) == \A j \in 1..Len(w) : \A i \in 1..(j - 1) : Less(w[i].key, w[j].key)

ExpectedIn(w, k) ==
  LET hits == {i \in DOMAIN w : w[i].key = k}
  IN IF hits = {} THEN NotFound ELSE w[Max(hits)]

LEMMA KeyFacts ==
  ASSUME NEW r \in Encodables
  PROVE  r.key \in Seq(Nat)
<1> DEFINE k == r.key
<1>1. k \in Seq(Bytes)
  BY EncodableFacts, RecordFacts
<1>2. Bytes \subseteq Nat
  BY BaseFacts
<1> HIDE DEF k
<1> DEFINE n == Len(k)
<1>3. k \in [1..n -> Bytes] /\ n \in Nat
  BY <1>1
<1> HIDE DEF n
<1>4. k \in [1..n -> Nat] /\ n \in Nat
  BY <1>2, <1>3
<1>5. k \in Seq(Nat)
  BY <1>4
<1> QED  BY <1>5 DEF k

LEMMA ExpectedIs ==
  ASSUME NEW w \in Seq(Encodables), Sorted(w), NEW k
  PROVE  /\ \A i \in 1..Len(w) : w[i].key = k => ExpectedIn(w, k) = w[i]
         /\ (\A i \in 1..Len(w) : w[i].key # k) => ExpectedIn(w, k) = NotFound
<1> DEFINE hits == {i \in DOMAIN w : w[i].key = k}
<1>1. DOMAIN w = 1..Len(w) /\ Len(w) \in Nat
  OBVIOUS
<1>2. ExpectedIn(w, k) = IF hits = {} THEN NotFound ELSE w[Max(hits)]
  BY DEF ExpectedIn
<1>3. ASSUME NEW i \in 1..Len(w), w[i].key = k PROVE ExpectedIn(w, k) = w[i]
  <2>1. i \in hits
    BY <1>1, <1>3
  <2>2. ASSUME NEW j \in hits PROVE j = i
    <3>1. j \in 1..Len(w) /\ w[j].key = k
      BY <1>1
    <3>2. j \in 1..(i - 1) => FALSE
      <4> SUFFICES ASSUME j \in 1..(i - 1) PROVE FALSE
        OBVIOUS
      <4>1. Less(w[j].key, w[i].key)
        BY Zenon DEF Sorted
      <4>2. w[i].key \in Seq(Nat)
        BY ElementOfSeq, KeyFacts
      <4> QED  BY <1>3, <3>1, <4>1, <4>2, LessIrreflexive
    <3>3. i \in 1..(j - 1) => FALSE
      <4> SUFFICES ASSUME i \in 1..(j - 1) PROVE FALSE
        OBVIOUS
      <4>1. Less(w[i].key, w[j].key)
        BY <3>1, Zenon DEF Sorted
      <4>2. w[i].key \in Seq(Nat)
        BY ElementOfSeq, KeyFacts
      <4> QED  BY <1>3, <3>1, <4>1, <4>2, LessIrreflexive
    <3>4. j \in Nat /\ i \in Nat /\ j >= 1 /\ i >= 1
      BY <3>1
    <3>5. j = i \/ j \in 1..(i - 1) \/ i \in 1..(j - 1)
      BY <3>4
    <3> QED  BY <3>2, <3>3, <3>5
  <2>3. hits \subseteq Nat /\ \A j \in hits : j <= i
    <3>1. i \in Nat
      BY <1>1
    <3> QED  BY <1>1, <2>2, <3>1
  <2> HIDE DEF hits
  <2>4. Max(hits) = i
    BY <2>1, <2>3, MaxIs
  <2> QED  BY <1>2, <2>1, <2>4
<1>4. ASSUME \A i \in 1..Len(w) : w[i].key # k PROVE ExpectedIn(w, k) = NotFound
  <2>1. hits = {}
    BY <1>1, <1>4
  <2> QED  BY <1>2, <2>1
<1> QED  BY <1>3, <1>4

(* The search finds the record of the key behind any place that all        *)
(* smaller keys lie before.                                                *)
LEMMA SearchFinds ==
  ASSUME NEW b \in Seq(StoredCells), NEW w \in Seq(Encodables), Sorted(w), NEW good,
         Ends(w, Len(w)) <= Len(b), Answers(b, w, good), NEW k \in Seq(Nat),
         NEW f, SearchStep(b, Ends(w, Len(w)), k, f),
         NEW s \in 0..Len(w), \A j \in 1..s : Less(w[j].key, k)
  PROVE  Got(f[Ends(w, s)], ExpectedIn(w, k), good)
<1> DEFINE n == Len(w)
           x == Ends(w, n)
           want == ExpectedIn(w, k)
           Behind(i) == \A j \in 1..i : Less(w[j].key, k)
           T == {i \in 0..n : Behind(i) => Got(f[Ends(w, i)], want, good)}
<1>1. n \in Nat /\ n \in 0..n
  OBVIOUS
<1>2. x \in Nat /\ \A i \in 0..n : Ends(w, i) \in Nat
  BY <1>1, EndsGrow
<1>3. /\ \A i \in 1..n : w[i].key = k => want = w[i]
      /\ (\A i \in 1..n : w[i].key # k) => want = NotFound
  BY ExpectedIs
<1>4. \A i \in 1..n : w[i].key \in Seq(Nat)
  BY ElementOfSeq, KeyFacts
<1> HIDE DEF want
<1>5. ASSUME NEW i \in 1..n, Less(w[i].key, k) PROVE w[i].key # k
  BY <1>4, <1>5, LessIrreflexive
<1>6. n \in T
  <2> SUFFICES ASSUME Behind(n) PROVE Got(f[Ends(w, n)], want, good)
    BY <1>1
  <2>1. f[x] = NotFound
    <3>1. x >= x
      BY <1>2
    <3> HIDE DEF x
    <3> QED  BY <1>2, <3>1 DEF SearchStep, x
  <2>2. want = NotFound
    BY <1>3, <1>5
  <2> QED  BY <2>1, <2>2 DEF Got
<1>7. ASSUME NEW i \in 0..(n - 1), i + 1 \in T PROVE i \in T
  <2> SUFFICES ASSUME Behind(i) PROVE Got(f[Ends(w, i)], want, good)
    BY <1>1
  <2> DEFINE h == i + 1
             o == Ends(w, i)
             r == ReadRecordAt(b, x, o)
  <2>1. h \in 1..n /\ h - 1 = i /\ i \in 0..n /\ h \in 0..n /\ h \in Nat
    BY <1>1
  <2>2. o \in Nat /\ o < x /\ Ends(w, h) = o + SizeOf(w[h])
    <3>1. Ends(w, h - 1) \in Nat /\ Ends(w, h - 1) < Ends(w, n)
          /\ Ends(w, h) = Ends(w, h - 1) + SizeOf(w[h])
      <4> HIDE DEF h
      <4> QED  BY <2>1, PlaceFacts
    <3> QED  BY <2>1, <3>1
  <2>3. r = Right(w[h]) \/ (~good /\ r = Invalid)
    <3>1. \/ ReadRecordAt(b, x, Ends(w, h - 1)) = Right(w[h])
          \/ ~good /\ ReadRecordAt(b, x, Ends(w, h - 1)) = Invalid
      <4> HIDE DEF h
      <4> QED  BY <2>1, Zenon DEF Answers
    <3> QED  BY <2>1, <3>1
  <2>4. Behind(h) => Got(f[Ends(w, h)], want, good)
    <3>1. h \in T
      BY <1>7
    <3> HIDE DEF h, Behind
    <3> QED  BY <3>1
  <2>5. f[o] = IF o >= x THEN NotFound
               ELSE IF ~r.ok THEN Invalid
               ELSE IF r.record.key = k THEN r.record
               ELSE IF Less(k, r.record.key) THEN NotFound
               ELSE f[o + r.size]
    <3> HIDE DEF o
    <3> QED  BY <2>2, Zenon DEF SearchStep
  <2>6. ~(o >= x)
    <3> HIDE DEF o, x
    <3> QED  BY <1>2, <2>2
  <2>7. w[h].key \in Seq(Nat)
    BY <1>4, <2>1
  <2>8. ASSUME NEW j \in 1..n PROVE j \in 1..i \/ j = h \/ h \in 1..(j - 1)
    BY <1>1, <2>1
  <2> HIDE DEF o, r, T
  <2>9. CASE r = Invalid /\ ~good
    <3>1. ~r.ok
      BY <2>9 DEF Invalid
    <3>2. f[o] = Invalid
      BY <2>5, <2>6, <3>1, Zenon
    <3> QED  BY <2>9, <3>2 DEF Got, o
  <2>10. CASE r = Right(w[h])
    <3>1. r.ok /\ r.record = w[h] /\ r.size = SizeOf(w[h])
      BY <2>10 DEF Right
    <3>2. CASE w[h].key = k
      <4>1. f[o] = w[h]
        BY <2>5, <2>6, <3>1, <3>2, Zenon
      <4>2. want = w[h]
        BY <1>3, <2>1, <3>2
      <4> QED  BY <4>1, <4>2 DEF Got, o
    <3>3. CASE w[h].key # k /\ Less(k, w[h].key)
      <4>1. f[o] = NotFound
        BY <2>5, <2>6, <3>1, <3>3, Zenon
      <4>2. ASSUME NEW j \in 1..n PROVE w[j].key # k
        <5>1. CASE j \in 1..i
          BY <1>5, <5>1
        <5>2. CASE j = h
          BY <3>3, <5>2
        <5>3. CASE h \in 1..(j - 1)
          <6>1. Less(w[h].key, w[j].key)
            <7> HIDE DEF h
            <7> QED  BY <5>3, Zenon DEF Sorted
          <6>2. w[j].key \in Seq(Nat)
            BY <1>4
          <6>3. Less(k, w[j].key)
            BY <2>7, <3>3, <6>1, <6>2, LessTransitive
          <6> QED  BY <6>3, LessIrreflexive
        <5> QED  BY <2>8, <5>1, <5>2, <5>3
      <4>3. want = NotFound
        BY <1>3, <4>2
      <4> QED  BY <4>1, <4>3 DEF Got, o
    <3>4. CASE w[h].key # k /\ ~Less(k, w[h].key)
      <4>1. f[o] = f[Ends(w, h)]
        BY <2>2, <2>5, <2>6, <3>1, <3>4, Zenon
      <4>2. Less(w[h].key, k)
        BY <2>7, <3>4, LessTotal
      <4>3. Behind(h)
        <5>1. \A j \in 1..h : j \in 1..i \/ j = h
          BY <2>1
        <5> QED  BY <4>2, <5>1
      <4> HIDE DEF h, Behind
      <4> QED  BY <2>4, <4>1, <4>3 DEF o
    <3> QED  BY <3>2, <3>3, <3>4
  <2> QED  BY <2>3, <2>9, <2>10
<1>8. \A i \in 0..n : i \in T
  <2> HIDE DEF T
  <2> QED  BY <1>1, <1>6, <1>7, DownwardInduction
<1> QED  BY <1>8 DEF want

(***************************************************************************)
(* The sparse index in the file                                            *)
(***************************************************************************)

(* What lies in a file as s \o t lies there as s and, behind it, as t.     *)
LEMMA HoldsParts ==
  ASSUME NEW S, NEW b \in Seq(S), NEW m \in Nat, NEW s \in Seq(S), NEW t \in Seq(S),
         Holds(b, m, s \o t)
  PROVE  Holds(b, m, s) /\ Holds(b, m + Len(s), t)
<1>1. /\ Len(s \o t) = Len(s) + Len(t) /\ Len(s) \in Nat /\ Len(t) \in Nat /\ Len(b) \in Nat
      /\ \A j \in 1..Len(s) : (s \o t)[j] = s[j]
      /\ \A j \in 1..Len(t) : (s \o t)[Len(s) + j] = t[j]
  BY ConcatIs
<1>2. m + (Len(s) + Len(t)) <= Len(b)
  BY <1>1 DEF Holds
<1>3. \A j \in 1..(Len(s) + Len(t)) : b[m + j] = (s \o t)[j]
  BY <1>1 DEF Holds
<1>4. \A j \in 1..Len(s) : b[m + j] = s[j]
  <2>1. \A j \in 1..Len(s) : j \in 1..(Len(s) + Len(t))
    BY <1>1
  <2> QED  BY <1>1, <1>3, <2>1
<1>5. \A j \in 1..Len(t) : b[(m + Len(s)) + j] = t[j]
  <2>1. \A j \in 1..Len(t) : /\ Len(s) + j \in 1..(Len(s) + Len(t))
                             /\ (m + Len(s)) + j = m + (Len(s) + j)
    BY <1>1
  <2> QED  BY <1>1, <1>3, <2>1
<1>6. m + Len(s) <= Len(b) /\ (m + Len(s)) + Len(t) <= Len(b)
  BY <1>1, <1>2
<1> QED  BY <1>4, <1>5, <1>6 DEF Holds

(* An entry of the index, and its bytes.                                   *)
IndexEntries == [key : {k \in Seq(Bytes) : Len(k) < Capacity(LenSize)}, at : Nat]

EntryBytes(e) == ToBytes(Len(e.key), LenSize) \o PlainSeq(e.key) \o ToBytes(e.at, OffSize)

LEMMA EntryBytesAre ==
  ASSUME NEW e \in IndexEntries
  PROVE  /\ e.key \in Seq(Bytes) /\ Len(e.key) \in Nat /\ Len(e.key) < Capacity(LenSize)
         /\ e.at \in Nat /\ e = [key |-> e.key, at |-> e.at]
         /\ ToBytes(Len(e.key), LenSize) \in Seq(PlainCells)
         /\ Len(ToBytes(Len(e.key), LenSize)) = LenSize
         /\ PlainSeq(e.key) \in Seq(PlainCells) /\ Len(PlainSeq(e.key)) = Len(e.key)
         /\ ToBytes(e.at, OffSize) \in Seq(PlainCells) /\ Len(ToBytes(e.at, OffSize)) = OffSize
         /\ EntryBytes(e) \in Seq(PlainCells)
         /\ Len(EntryBytes(e)) = (LenSize + Len(e.key)) + OffSize
<1>1. /\ e.key \in Seq(Bytes) /\ Len(e.key) < Capacity(LenSize)
      /\ e.at \in Nat /\ e = [key |-> e.key, at |-> e.at]
  BY DEF IndexEntries
<1>2. Len(e.key) \in Nat
  BY <1>1, LenProperties
<1>3. LenSize \in Nat /\ OffSize \in Nat
  BY BaseFacts, LayoutFacts
<1>4. /\ ToBytes(Len(e.key), LenSize) \in Seq(PlainCells)
      /\ Len(ToBytes(Len(e.key), LenSize)) = LenSize
  BY <1>2, <1>3, ToBytesType
<1>5. PlainSeq(e.key) \in Seq(PlainCells) /\ Len(PlainSeq(e.key)) = Len(e.key)
  BY <1>1, PlainSeqIs
<1>6. ToBytes(e.at, OffSize) \in Seq(PlainCells) /\ Len(ToBytes(e.at, OffSize)) = OffSize
  BY <1>1, <1>3, ToBytesType
<1> DEFINE s == ToBytes(Len(e.key), LenSize)
           t == PlainSeq(e.key)
           u == ToBytes(e.at, OffSize)
<1>7. EntryBytes(e) = (s \o t) \o u
  BY DEF EntryBytes
<1> HIDE DEF s, t, u
<1>8. s \in Seq(PlainCells) /\ t \in Seq(PlainCells) /\ u \in Seq(PlainCells)
      /\ Len(s) = LenSize /\ Len(t) = Len(e.key) /\ Len(u) = OffSize
  BY <1>4, <1>5, <1>6 DEF s, t, u
<1>9. s \o t \in Seq(PlainCells) /\ Len(s \o t) = LenSize + Len(e.key)
  BY <1>8, ConcatIs
<1> DEFINE v == s \o t
<1>10. v \o u \in Seq(PlainCells) /\ Len(v \o u) = (LenSize + Len(e.key)) + OffSize
  <2>1. v \in Seq(PlainCells) /\ Len(v) = LenSize + Len(e.key)
    BY <1>9
  <2> HIDE DEF v
  <2>2. v \o u \in Seq(PlainCells) /\ Len(v \o u) = Len(v) + Len(u)
    BY <1>8, <2>1, ConcatIs
  <2> QED  BY <1>8, <2>1, <2>2
<1> QED  BY <1>1, <1>2, <1>4, <1>5, <1>6, <1>7, <1>10

LEMMA PlainIsStored ==
  ASSUME NEW s \in Seq(PlainCells)
  PROVE  s \in Seq(StoredCells)
<1>1. PlainCells \subseteq StoredCells
  BY DEF StoredCells
<1>2. Len(s) \in Nat /\ s \in [1..Len(s) -> PlainCells]
  BY LenProperties
<1>3. s \in [1..Len(s) -> StoredCells]
  BY <1>1, <1>2
<1> QED  BY <1>2, <1>3

(* A written entry is read.                                                *)
LEMMA EntryIsRead ==
  ASSUME NEW b \in Seq(StoredCells), NEW o \in Nat, NEW e \in IndexEntries,
         e.at < Capacity(OffSize), Holds(b, o, EntryBytes(e))
  PROVE  EntryEnd(b, o) = o + Len(EntryBytes(e)) /\ EntryAt(b, o) = e
<1> DEFINE s == ToBytes(Len(e.key), LenSize)
           t == PlainSeq(e.key)
           u == ToBytes(e.at, OffSize)
           n == Len(e.key)
<1>1. /\ LenSize \in Nat /\ OffSize \in Nat /\ n \in Nat
      /\ Len(EntryBytes(e)) = (LenSize + n) + OffSize /\ EntryBytes(e) = (s \o t) \o u
      /\ e = [key |-> e.key, at |-> e.at] /\ e.key \in Seq(Bytes)
  BY BaseFacts, LayoutFacts, EntryBytesAre DEF EntryBytes
<1>2. /\ s \in Seq(PlainCells) /\ t \in Seq(PlainCells) /\ u \in Seq(PlainCells)
      /\ Len(s) = LenSize /\ Len(t) = n /\ Len(u) = OffSize
  BY EntryBytesAre
<1>3. FromBytes(s) = n /\ Numbers(t) = e.key /\ FromBytes(u) = e.at
  <2>1. n < Capacity(LenSize) /\ e.at \in Nat
    BY EntryBytesAre
  <2>2. FromBytes(s) = n
    BY <1>1, <2>1, NumbersRoundTrip
  <2>3. FromBytes(u) = e.at
    BY <1>1, <2>1, NumbersRoundTrip
  <2>4. Numbers(t) = e.key
    BY <1>1, NumbersOfPlain
  <2> QED  BY <2>2, <2>3, <2>4
<1> HIDE DEF s, t, u, n
<1>4. s \in Seq(StoredCells) /\ t \in Seq(StoredCells) /\ u \in Seq(StoredCells)
  BY <1>2, PlainIsStored
<1>5. s \o t \in Seq(StoredCells) /\ Len(s \o t) = LenSize + n
  BY <1>2, <1>4, ConcatIs
<1>6. Holds(b, o, s \o t) /\ Holds(b, o + (LenSize + n), u)
  <2>1. Holds(b, o, (s \o t) \o u)
    BY <1>1
  <2>2. Holds(b, o, s \o t) /\ Holds(b, o + Len(s \o t), u)
    BY <1>4, <1>5, <2>1, HoldsParts
  <2> QED  BY <1>5, <2>2
<1>7. Holds(b, o, s) /\ Holds(b, o + LenSize, t)
  <2>1. Holds(b, o, s) /\ Holds(b, o + Len(s), t)
    BY <1>4, <1>6, HoldsParts
  <2> QED  BY <1>2, <2>1
<1>8. SubSeq(b, o + 1, o + LenSize) = s
  <2>1. SubSeq(b, o + 1, o + Len(s)) = s
    BY <1>4, <1>7, HeldIs
  <2> QED  BY <1>2, <2>1
<1>9. FieldEnd(b, o) = (o + LenSize) + n
  BY <1>3, <1>8 DEF FieldEnd, Slice
<1>10. SubSeq(b, (o + LenSize) + 1, (o + LenSize) + n) = t
  <2>1. o + LenSize \in Nat
    BY <1>1
  <2>2. SubSeq(b, (o + LenSize) + 1, (o + LenSize) + Len(t)) = t
    BY <1>4, <1>7, <2>1, HeldIs
  <2> QED  BY <1>2, <2>2
<1> DEFINE z == (o + LenSize) + n
<1>11. z \in Nat /\ z = o + (LenSize + n)
  BY <1>1
<1>12. SubSeq(b, z + 1, z + OffSize) = u
  <2>1. Holds(b, z, u)
    BY <1>6, <1>11
  <2> HIDE DEF z
  <2>2. SubSeq(b, z + 1, z + Len(u)) = u
    BY <1>4, <1>11, <2>1, HeldIs
  <2> QED  BY <1>2, <2>2
<1>13. EntryEnd(b, o) = z + OffSize
  BY <1>9 DEF EntryEnd
<1>14. EntryAt(b, o) = [key |-> e.key, at |-> e.at]
  <2>1. FieldEnd(b, o) = z
    BY <1>9
  <2>2. Slice(b, o + LenSize, z) = t
    BY <1>10 DEF Slice
  <2> HIDE DEF z
  <2>3. Slice(b, z, z + OffSize) = u
    BY <1>12 DEF Slice
  <2> QED  BY <1>3, <1>13, <2>1, <2>2, <2>3 DEF EntryAt
<1>15. z + OffSize = o + Len(EntryBytes(e))
  BY <1>1
<1> QED  BY <1>1, <1>13, <1>14, <1>15

LEMMA EncodeIndexIs ==
  ASSUME NEW idx \in Seq(IndexEntries)
  PROVE  /\ EncodeIndex(idx) \in Seq(PlainCells) /\ EncodeIndex(idx) \in Seq(StoredCells)
         /\ Len(EncodeIndex(idx)) \in Nat
         /\ \E at \in [0..Len(idx) -> Nat] :
              /\ at[0] = 0 /\ at[Len(idx)] = Len(EncodeIndex(idx))
              /\ \A i \in 1..Len(idx) :
                   /\ at[i] = at[i - 1] + Len(EntryBytes(idx[i]))
                   /\ Holds(EncodeIndex(idx), at[i - 1], EntryBytes(idx[i]))
<1> DEFINE q == [i \in DOMAIN idx |-> EntryBytes(idx[i])]
<1>1. EncodeIndex(idx) = FlattenSeq(q)
  BY DEF EncodeIndex, EntryBytes
<1>2. Len(idx) \in Nat /\ DOMAIN idx = 1..Len(idx) /\ \A i \in 1..Len(idx) : idx[i] \in IndexEntries
  BY LenProperties, ElementOfSeq
<1>3. q \in [1..Len(idx) -> Seq(PlainCells)]
  BY <1>2, EntryBytesAre
<1>4. q \in Seq(Seq(PlainCells)) /\ Len(q) = Len(idx)
  <2> HIDE DEF q
  <2> QED  BY <1>2, <1>3
<1>5. \A i \in 1..Len(idx) : q[i] = EntryBytes(idx[i])
  BY <1>2
<1> HIDE DEF q
<1>6. FlattenSeq(q) \in Seq(PlainCells) /\ \E at : Joined(FlattenSeq(q), q, at)
  BY <1>4, FlattenIs
<1>7. PICK at : Joined(FlattenSeq(q), q, at)
  BY <1>6
<1>8. /\ at \in [0..Len(idx) -> Nat] /\ at[0] = 0 /\ at[Len(idx)] = Len(EncodeIndex(idx))
      /\ \A i \in 1..Len(idx) :
           /\ at[i] = at[i - 1] + Len(EntryBytes(idx[i]))
           /\ Holds(EncodeIndex(idx), at[i - 1], EntryBytes(idx[i]))
  BY <1>1, <1>4, <1>5, <1>7 DEF Joined
<1>9. EncodeIndex(idx) \in Seq(PlainCells)
  BY <1>1, <1>6
<1>10. EncodeIndex(idx) \in Seq(StoredCells) /\ Len(EncodeIndex(idx)) \in Nat
  BY <1>9, PlainIsStored, LenProperties
<1> QED  BY <1>8, <1>9, <1>10

(* What lies in s lies in a file that s lies in.                           *)
LEMMA HoldsInside ==
  ASSUME NEW b, NEW m \in Nat, NEW s, NEW n \in Nat, NEW t,
         Len(b) \in Nat, Len(s) \in Nat, Len(t) \in Nat,
         Holds(b, m, s), Holds(s, n, t)
  PROVE  Holds(b, m + n, t)
<1>1. m + Len(s) <= Len(b) /\ n + Len(t) <= Len(s)
  BY DEF Holds
<1>2. (m + n) + Len(t) <= Len(b)
  BY <1>1
<1>3. ASSUME NEW j \in 1..Len(t) PROVE b[(m + n) + j] = t[j]
  <2>1. n + j \in 1..Len(s) /\ (m + n) + j = m + (n + j)
    BY <1>1
  <2>2. b[m + (n + j)] = s[n + j]
    BY <2>1 DEF Holds
  <2>3. s[n + j] = t[j]
    BY DEF Holds
  <2> QED  BY <2>1, <2>2, <2>3
<1> QED  BY <1>2, <1>3 DEF Holds

(* A written index is read.                                                *)
LEMMA IndexIsRead ==
  ASSUME NEW b \in Seq(StoredCells), NEW x \in Nat, NEW idx \in Seq(IndexEntries),
         \A i \in 1..Len(idx) : idx[i].at < Capacity(OffSize),
         Holds(b, x, EncodeIndex(idx))
  PROVE  ReadEntries(b, x, x + Len(EncodeIndex(idx))) = [ok |-> TRUE, entries |-> idx]
<1> DEFINE n == Len(idx)
           s == EncodeIndex(idx)
           y == x + Len(s)
           All(i) == [ok |-> TRUE, entries |-> SubSeq(idx, i + 1, n)]
<1>1. n \in Nat /\ n \in 0..n /\ 0 \in 0..n
  BY LenProperties
<1>2. s \in Seq(StoredCells) /\ Len(s) \in Nat /\ y \in Nat /\ Len(b) \in Nat /\ y <= Len(b)
  BY EncodeIndexIs, LenProperties DEF Holds
<1>3. PICK at \in [0..n -> Nat] :
        /\ at[0] = 0 /\ at[n] = Len(s)
        /\ \A i \in 1..n : /\ at[i] = at[i - 1] + Len(EntryBytes(idx[i]))
                           /\ Holds(s, at[i - 1], EntryBytes(idx[i]))
  BY EncodeIndexIs
<1>4. PICK f : EntriesStep(b, y, f) /\ f[x] = ReadEntries(b, x, y)
  <2> HIDE DEF y
  <2> QED  BY <1>2, ReadEntriesIs
<1>5. Holds(b, x, s)
  OBVIOUS
<1>6. \A i \in 1..n : idx[i] \in IndexEntries /\ idx[i].at < Capacity(OffSize)
  BY ElementOfSeq
<1> HIDE DEF All, s
<1> DEFINE T == {i \in 0..n : f[x + at[i]] = All(i)}
<1>7. n \in T
  <2>1. f[y] = [ok |-> TRUE, entries |-> <<>>]
    <3> HIDE DEF y
    <3> QED  BY <1>2, <1>4 DEF EntriesStep
  <2>2. SubSeq(idx, n + 1, n) = <<>>
    BY <1>1, SubSeqEmpty
  <2>3. f[x + at[n]] = All(n)
    BY <1>3, <2>1, <2>2 DEF All
  <2> QED  BY <1>1, <2>3
<1>8. ASSUME NEW i \in 0..(n - 1), i + 1 \in T PROVE i \in T
  <2> DEFINE h == i + 1
             o == x + at[i]
             e == idx[h]
             p == x + at[h]
  <2>1. h \in 1..n /\ h - 1 = i /\ i \in 0..n /\ h \in 0..n
    BY <1>1
  <2>2. at[i] \in Nat /\ at[h] \in Nat
    BY <1>3, <2>1
  <2>3. at[h] = at[i] + Len(EntryBytes(e)) /\ Holds(s, at[i], EntryBytes(e))
    <3>1. at[h] = at[h - 1] + Len(EntryBytes(idx[h])) /\ Holds(s, at[h - 1], EntryBytes(idx[h]))
      <4> HIDE DEF h
      <4> QED  BY <1>3, <2>1
    <3> QED  BY <2>1, <3>1
  <2>4. e \in IndexEntries /\ e.at < Capacity(OffSize)
    <3> HIDE DEF h
    <3> QED  BY <1>6, <2>1
  <2>5. f[p] = All(h)
    <3>1. h \in T
      BY <1>8
    <3> HIDE DEF h
    <3> QED  BY <3>1
  <2>6. All(i).entries = <<e>> \o All(h).entries /\ All(i) = [ok |-> TRUE, entries |-> All(i).entries]
        /\ All(h).ok
    <3>1. SubSeq(idx, h, n) = <<idx[h]>> \o SubSeq(idx, h + 1, n)
      <4>1. h \in 1..Len(idx) /\ n \in h..Len(idx)
        BY <1>1, <2>1
      <4> HIDE DEF h, n
      <4> QED  BY <4>1, SubSeqRecursiveFirst
    <3> QED  BY <3>1 DEF All
  <2> HIDE DEF e, h, T
  <2>7. Len(EntryBytes(e)) = (LenSize + Len(e.key)) + OffSize /\ Len(e.key) \in Nat
        /\ LenSize \in Nat /\ OffSize \in Nat /\ LenSize > 0
    <3>1. Len(EntryBytes(e)) = (LenSize + Len(e.key)) + OffSize /\ Len(e.key) \in Nat
      BY <2>4, EntryBytesAre, Zenon
    <3> QED  BY <3>1, BaseFacts, LayoutFacts
  <2>8. Len(EntryBytes(e)) \in Nat
    BY <2>7
  <2>9. Holds(b, o, EntryBytes(e))
    <3> HIDE DEF n, y
    <3> QED  BY <1>2, <1>5, <2>2, <2>3, <2>8, HoldsInside
  <2>10. o \in Nat /\ p = o + Len(EntryBytes(e)) /\ p <= y
    <3>1. at[h] <= Len(s)
      <4>1. Holds(s, at[i], EntryBytes(e))
        BY <2>3
      <4>2. at[i] + Len(EntryBytes(e)) <= Len(s)
        BY <4>1 DEF Holds
      <4> QED  BY <2>3, <4>2
    <3> QED  BY <1>2, <2>2, <2>3, <2>8, <3>1
  <2>11. EntryEnd(b, o) = p /\ EntryAt(b, o) = e
    <3> HIDE DEF o, p
    <3> QED  BY <2>4, <2>9, <2>10, EntryIsRead
  <2>12. o # y /\ ~(o + LenSize > y) /\ ~(p > y)
    <3> HIDE DEF o, y
    <3> QED  BY <1>2, <2>7, <2>8, <2>10
  <2>13. f[o] = IF o = y THEN [ok |-> TRUE, entries |-> <<>>]
                ELSE IF o + LenSize > y THEN Invalid
                ELSE IF EntryEnd(b, o) > y \/ ~f[EntryEnd(b, o)].ok THEN Invalid
                ELSE [ok |-> TRUE, entries |-> <<EntryAt(b, o)>> \o f[EntryEnd(b, o)].entries]
    <3> HIDE DEF o, y
    <3> QED  BY <1>4, <2>10, Zenon DEF EntriesStep
  <2>14. f[o] = [ok |-> TRUE, entries |-> <<e>> \o All(h).entries]
    <3> HIDE DEF o, p, y
    <3> QED  BY <2>5, <2>6, <2>11, <2>12, <2>13, Zenon
  <2>15. f[x + at[i]] = All(i)
    BY <2>6, <2>14
  <2> QED  BY <2>1, <2>15 DEF T
<1>9. \A i \in 0..n : i \in T
  <2> HIDE DEF T
  <2> QED  BY <1>1, <1>7, <1>8, DownwardInduction
<1>10. f[x + at[0]] = All(0) /\ x + at[0] = x
  BY <1>1, <1>3, <1>9
<1>11. SubSeq(idx, 0 + 1, n) = idx
  <2>1. 0 + 1 = 1 /\ SubSeq(idx, 1, n) = idx
    BY SubSeqFull
  <2> QED  BY <2>1
<1> QED  BY <1>4, <1>10, <1>11 DEF All, s

(* Where the index points: each entry to a record, in their order, and the *)
(* first one to the first record.                                          *)
EntryFor(e, w, p) == e = [key |-> w[p].key, at |-> Ends(w, p - 1)]

IndexInv(idx, w) ==
  /\ idx \in Seq(IndexEntries)
  /\ \A m \in 1..Len(idx) : \E p \in 1..Len(w) : EntryFor(idx[m], w, p)
  /\ \A m \in 2..Len(idx) : Less(idx[m - 1].key, idx[m].key) /\ idx[m - 1].at < idx[m].at
  /\ \/ w = <<>> /\ idx = <<>>
     \/ Len(w) > 0 /\ Len(idx) > 0 /\ idx[1].at = HeaderSize

LEMMA SortedAppend ==
  ASSUME NEW w \in Seq(Encodables), NEW r \in Encodables, Sorted(w),
         w # <<>> => Less(Last(w).key, r.key)
  PROVE  /\ Sorted(Append(w, r))
         /\ \A i \in 1..Len(w) : Less(w[i].key, r.key)
<1> DEFINE v == Append(w, r)
           n == Len(w)
<1>1. /\ v \in Seq(Encodables) /\ Len(v) = n + 1 /\ n \in Nat
      /\ \A i \in 1..n : v[i] = w[i]
      /\ v[n + 1] = r
  OBVIOUS
<1>2. ASSUME NEW i \in 1..n PROVE Less(w[i].key, r.key)
  <2>1. w # <<>> /\ n \in 1..n /\ Last(w) = w[n] /\ n > 0
    BY <1>1 DEF Last
  <2>2. Less(w[n].key, r.key)
    BY <2>1
  <2>3. CASE i = n
    BY <2>2, <2>3
  <2>4. CASE i # n
    <3>1. i \in 1..(n - 1)
      BY <1>1, <2>4
    <3>2. Less(w[i].key, w[n].key)
      BY <2>1, <3>1, Zenon DEF Sorted
    <3>3. w[i] \in Encodables /\ w[n] \in Encodables
      BY <2>1, ElementOfSeq
    <3>4. w[i].key \in Seq(Nat) /\ w[n].key \in Seq(Nat) /\ r.key \in Seq(Nat)
      BY <3>3, KeyFacts
    <3> QED  BY <2>2, <3>2, <3>4, LessTransitive
  <2> QED  BY <2>3, <2>4
<1> HIDE DEF v
<1>3. ASSUME NEW j \in 1..Len(v), NEW i \in 1..(j - 1) PROVE Less(v[i].key, v[j].key)
  <2>1. i \in 1..n /\ v[i] = w[i]
    BY <1>1
  <2>2. CASE j = n + 1
    BY <1>1, <1>2, <2>1, <2>2
  <2>3. CASE j # n + 1
    <3>1. j \in 1..n /\ v[j] = w[j]
      BY <1>1, <2>3
    <3>2. Less(w[i].key, w[j].key)
      BY <3>1, Zenon DEF Sorted
    <3> QED  BY <2>1, <3>1, <3>2
  <2> QED  BY <2>2, <2>3
<1>4. Sorted(v)
  BY <1>3 DEF Sorted
<1> QED  BY <1>2, <1>4 DEF v

LEMMA NoIndex == IndexInv(<<>>, <<>>) /\ Sorted(<<>>) /\ <<>> \in Seq(Encodables)
BY DEF IndexInv, Sorted

(* A record that no entry is written for.                                  *)
LEMMA IndexStays ==
  ASSUME NEW w \in Seq(Encodables), NEW idx, IndexInv(idx, w), NEW r \in Encodables, w # <<>>
  PROVE  IndexInv(idx, Append(w, r))
<1> DEFINE v == Append(w, r)
           n == Len(w)
<1>1. /\ Len(v) = n + 1 /\ n \in Nat /\ n > 0
      /\ \A i \in 1..n : v[i] = w[i]
  OBVIOUS
<1>2. \A i \in 0..n : Ends(v, i) = Ends(w, i)
  BY EndsAppend
<1> HIDE DEF v, n
<1>3. ASSUME NEW m \in 1..Len(idx) PROVE \E p \in 1..Len(v) : EntryFor(idx[m], v, p)
  <2>1. PICK p \in 1..n : EntryFor(idx[m], w, p)
    BY DEF IndexInv, n
  <2>2. p \in 1..Len(v) /\ p - 1 \in 0..n
    BY <1>1
  <2>3. v[p] = w[p] /\ Ends(v, p - 1) = Ends(w, p - 1)
    BY <1>1, <1>2, <2>2
  <2>4. EntryFor(idx[m], v, p)
    BY <2>1, <2>3 DEF EntryFor
  <2> QED  BY <2>2, <2>4
<1>4. Len(v) > 0
  BY <1>1
<1>5. /\ idx \in Seq(IndexEntries)
      /\ \A m \in 2..Len(idx) : Less(idx[m - 1].key, idx[m].key) /\ idx[m - 1].at < idx[m].at
      /\ Len(idx) > 0 /\ idx[1].at = HeaderSize
  BY DEF IndexInv
<1> QED  BY <1>3, <1>4, <1>5 DEF IndexInv, v

LEMMA CapacityType ==
  ASSUME NEW size \in Nat
  PROVE  Capacity(size) \in Nat
<1>1. PICK power \in [0..size -> Nat] : power[size] = Capacity(size)
  BY CapacityIs
<1>2. size \in 0..size
  OBVIOUS
<1> QED  BY <1>1, <1>2

LEMMA NewEntry ==
  ASSUME NEW w \in Seq(Encodables), NEW r \in Encodables
  PROVE  [key |-> r.key, at |-> Ends(w, Len(w))] \in IndexEntries
<1>1. r.key \in Seq(Bytes) /\ Len(r.key) < Capacity(LenSize)
  <2>1. r \in DataRecords /\ Len(r.key) \in Nat /\ Len(r.key) <= MaxFieldLen
    BY EncodableFacts
  <2>2. r.key \in Seq(Bytes)
    BY <2>1, RecordFacts
  <2>3. MaxFieldLen \in Nat /\ MaxFieldLen < Capacity(LenSize)
    BY BaseFacts
  <2>4. Capacity(LenSize) \in Nat
    BY CapacityType, BaseFacts
  <2> QED  BY <2>1, <2>2, <2>3, <2>4
<1>2. Ends(w, Len(w)) \in Nat
  <2>1. Len(w) \in 0..Len(w)
    OBVIOUS
  <2> QED  BY <2>1, EndsGrow
<1> QED  BY <1>1, <1>2 DEF IndexEntries

(* A record that one is written for.                                       *)
LEMMA IndexGrows ==
  ASSUME NEW w \in Seq(Encodables), NEW idx, IndexInv(idx, w), NEW r \in Encodables,
         \A i \in 1..Len(w) : Less(w[i].key, r.key)
  PROVE  IndexInv(Append(idx, [key |-> r.key, at |-> Ends(w, Len(w))]), Append(w, r))
<1> DEFINE v == Append(w, r)
           n == Len(w)
           e == [key |-> r.key, at |-> Ends(w, n)]
           c == Len(idx)
           jdx == Append(idx, e)
<1>1. /\ Len(v) = n + 1 /\ n \in Nat
      /\ \A i \in 1..n : v[i] = w[i]
      /\ v[n + 1] = r
  OBVIOUS
<1>2. \A i \in 0..n : Ends(v, i) = Ends(w, i) /\ Ends(w, i) \in Nat
  BY EndsAppend, EndsGrow
<1>3. e \in IndexEntries
  BY NewEntry
<1>4. /\ jdx \in Seq(IndexEntries) /\ Len(jdx) = c + 1 /\ c \in Nat
      /\ \A m \in 1..c : jdx[m] = idx[m]
      /\ jdx[c + 1] = e
  <2>1. idx \in Seq(IndexEntries)
    BY DEF IndexInv
  <2> HIDE DEF e
  <2> QED  BY <1>3, <2>1
<1>5. e.key = r.key /\ e.at = Ends(w, n)
  OBVIOUS
<1> HIDE DEF v, n, e, jdx, c
<1>6. EntryFor(e, v, n + 1)
  <2>1. (n + 1) - 1 = n /\ n \in 0..n
    BY <1>1
  <2>2. Ends(v, n) = Ends(w, n)
    BY <1>2, <2>1
  <2> QED  BY <1>1, <2>1, <2>2 DEF EntryFor, e
<1>7. ASSUME NEW m \in 1..c
      PROVE  \E p \in 1..n : EntryFor(idx[m], w, p)
  BY DEF IndexInv, n, c
<1>8. ASSUME NEW m \in 1..Len(jdx) PROVE \E p \in 1..Len(v) : EntryFor(jdx[m], v, p)
  <2>1. CASE m = c + 1
    <3>1. n + 1 \in 1..Len(v)
      BY <1>1
    <3> QED  BY <1>4, <1>6, <2>1, <3>1
  <2>2. CASE m # c + 1
    <3>1. m \in 1..c
      BY <1>4, <2>2
    <3>2. PICK p \in 1..n : EntryFor(idx[m], w, p)
      BY <1>7, <3>1
    <3>3. p \in 1..Len(v) /\ p - 1 \in 0..n
      BY <1>1
    <3>4. v[p] = w[p] /\ Ends(v, p - 1) = Ends(w, p - 1) /\ jdx[m] = idx[m]
      BY <1>1, <1>2, <1>4, <3>1, <3>3
    <3>5. EntryFor(jdx[m], v, p)
      BY <3>2, <3>4 DEF EntryFor
    <3> QED  BY <3>3, <3>5
  <2> QED  BY <2>1, <2>2
<1>9. ASSUME NEW m \in 2..Len(jdx)
      PROVE  Less(jdx[m - 1].key, jdx[m].key) /\ jdx[m - 1].at < jdx[m].at
  <2> DEFINE l == m - 1
  <2>1. l \in 1..c /\ jdx[l] = idx[l]
    BY <1>4
  <2>2. CASE m = c + 1
    <3> HIDE DEF l
    <3>1. PICK p \in 1..n : EntryFor(idx[l], w, p)
      BY <1>7, <2>1
    <3>2. idx[l].key = w[p].key /\ idx[l].at = Ends(w, p - 1)
      BY <3>1 DEF EntryFor
    <3>3. Less(w[p].key, r.key)
      BY DEF n
    <3>4. Ends(w, p - 1) < Ends(w, n)
      BY PlaceFacts DEF n
    <3>5. jdx[m] = e
      BY <1>4, <2>2
    <3> QED  BY <1>5, <2>1, <3>2, <3>3, <3>4, <3>5 DEF l
  <2>3. CASE m # c + 1
    <3>1. m \in 2..Len(idx) /\ jdx[m] = idx[m]
      BY <1>4, <2>3 DEF c
    <3>2. Less(idx[m - 1].key, idx[m].key) /\ idx[m - 1].at < idx[m].at
      BY <3>1 DEF IndexInv
    <3> QED  BY <2>1, <3>1, <3>2
  <2> QED  BY <2>2, <2>3
<1>10. Len(v) > 0 /\ Len(jdx) > 0
  BY <1>1, <1>4
<1>11. jdx[1].at = HeaderSize
  <2>1. CASE w = <<>> /\ idx = <<>>
    <3>1. n = 0 /\ c = 0
      BY <2>1 DEF n, c
    <3>2. jdx[1] = e /\ e.at = Ends(w, 0)
      BY <1>4, <1>5, <3>1
    <3> QED  BY <3>2, EndsAre
  <2>2. CASE Len(w) > 0 /\ Len(idx) > 0 /\ idx[1].at = HeaderSize
    <3>1. 1 \in 1..c
      BY <1>4, <2>2 DEF c
    <3> QED  BY <1>4, <2>2, <3>1
  <2> QED  BY <2>1, <2>2 DEF IndexInv
<1> QED  BY <1>4, <1>8, <1>9, <1>10, <1>11 DEF IndexInv, v, jdx, e, n

(* What the reader asks of the entries.                                    *)
LEMMA WrittenIndexFits ==
  ASSUME NEW w \in Seq(Encodables), NEW idx, IndexInv(idx, w)
  PROVE  IndexFits(idx, Ends(w, Len(w)))
<1> DEFINE n == Len(w)
           x == Ends(w, n)
<1>1. n \in Nat /\ n \in 0..n /\ 0 \in 0..n
  OBVIOUS
<1>2. idx \in Seq(IndexEntries) /\ DOMAIN idx = 1..Len(idx) /\ Len(idx) \in Nat
  BY LenProperties DEF IndexInv
<1>3. ASSUME NEW i \in DOMAIN idx
      PROVE  HeaderSize <= idx[i].at /\ idx[i].at < x
  <2>1. PICK p \in 1..n : EntryFor(idx[i], w, p)
    BY <1>2 DEF IndexInv
  <2>2. HeaderSize <= Ends(w, p - 1) /\ Ends(w, p - 1) < x
    BY PlaceFacts
  <2>3. idx[i].at = Ends(w, p - 1)
    BY <2>1 DEF EntryFor
  <2> HIDE DEF x
  <2> QED  BY <2>2, <2>3
<1>4. ASSUME NEW i \in DOMAIN idx \ {1}
      PROVE  Less(idx[i - 1].key, idx[i].key) /\ idx[i - 1].at < idx[i].at
  <2>1. i \in 2..Len(idx)
    BY <1>2
  <2> QED  BY <2>1 DEF IndexInv
<1>5. IF x = HeaderSize THEN idx = <<>> ELSE idx # <<>> /\ idx[1].at = HeaderSize
  <2>1. CASE w = <<>> /\ idx = <<>>
    <3>1. Len(w) = 0
      BY <2>1
    <3>2. x = HeaderSize
      BY <3>1, EndsAre
    <3> QED  BY <2>1, <3>2, Zenon
  <2>2. CASE Len(w) > 0 /\ Len(idx) > 0 /\ idx[1].at = HeaderSize
    <3>1. 0 \in 0..(n - 1)
      BY <1>1, <2>2
    <3>2. Ends(w, 0) < x /\ Ends(w, 0) = HeaderSize /\ HeaderSize \in Nat /\ x \in Nat
      BY <1>1, <3>1, EndsAre, EndsGrow, LayoutFacts
    <3>3. x # HeaderSize
      <4> HIDE DEF x
      <4> QED  BY <3>2
    <3>4. idx # <<>>
      BY <2>2
    <3> QED  BY <2>2, <3>3, <3>4, Zenon
  <2> QED  BY <2>1, <2>2 DEF IndexInv
<1> HIDE DEF x
<1>6. IndexFits(idx, x)
  BY <1>3, <1>4, <1>5 DEF IndexFits
<1> QED  BY <1>6 DEF x

(* The search begins at a record, and before it lie smaller keys only.     *)
LEMMA SearchStarts ==
  ASSUME NEW w \in Seq(Encodables), Sorted(w), NEW idx, IndexInv(idx, w), NEW k \in Seq(Nat)
  PROVE  \E s \in 0..Len(w) : /\ SearchStart(idx, k) = Ends(w, s)
                              /\ \A j \in 1..s : Less(w[j].key, k)
<1> DEFINE before == IndexBefore(idx, k)
<1>1. Len(w) \in Nat /\ DOMAIN idx = 1..Len(idx) /\ Len(idx) \in Nat
  BY LenProperties DEF IndexInv
<1>2. CASE before = {}
  <2>1. SearchStart(idx, k) = Ends(w, 0)
    BY <1>2, EndsAre DEF SearchStart
  <2>2. 0 \in 0..Len(w) /\ \A j \in 1..0 : Less(w[j].key, k)
    BY <1>1
  <2> QED  BY <2>1, <2>2
<1>3. CASE before # {}
  <2> DEFINE m == Max(before)
  <2>1. before \subseteq 1..Len(idx) /\ before \subseteq Nat /\ \A i \in before : i <= Len(idx)
    BY <1>1 DEF IndexBefore
  <2>2. m \in before
    <3> HIDE DEF before
    <3> QED  BY <1>1, <1>3, <2>1, MaxIsGreatest
  <2> HIDE DEF m
  <2>3. m \in 1..Len(idx) /\ m \in 1..m /\ AtMost(idx[m].key, k)
    <3>1. m \in 1..Len(idx)
      BY <2>1, <2>2
    <3>2. m \in 1..m
      BY <3>1
    <3>3. \A j \in 1..m : AtMost(idx[j].key, k)
      BY <2>2 DEF IndexBefore
    <3> QED  BY <3>1, <3>2, <3>3
  <2>4. SearchStart(idx, k) = idx[m].at
    BY <1>3 DEF SearchStart, m
  <2>5. PICK p \in 1..Len(w) : EntryFor(idx[m], w, p)
    BY <2>3 DEF IndexInv
  <2>6. idx[m].key = w[p].key /\ idx[m].at = Ends(w, p - 1)
    BY <2>5 DEF EntryFor
  <2>7. ASSUME NEW j \in 1..(p - 1) PROVE Less(w[j].key, k)
    <3>1. Less(w[j].key, w[p].key)
      BY Zenon DEF Sorted
    <3>2. j \in 1..Len(w)
      BY <1>1
    <3>3. w[j].key \in Seq(Nat) /\ w[p].key \in Seq(Nat)
      BY <3>2, ElementOfSeq, KeyFacts
    <3>4. w[p].key = k \/ Less(w[p].key, k)
      BY <2>3, <2>6 DEF AtMost
    <3> QED  BY <3>1, <3>3, <3>4, LessTransitive
  <2>8. p - 1 \in 0..Len(w)
    BY <1>1
  <2> QED  BY <2>4, <2>6, <2>7, <2>8
<1> QED  BY <1>2, <1>3

(***************************************************************************)
(* The whole file                                                          *)
(***************************************************************************)

Header == PlainSeq(Magic) \o <<Plain(Version)>>

LEMMA HeaderIs ==
  /\ Header \in Seq(PlainCells) /\ Header \in Seq(StoredCells) /\ Len(Header) = HeaderSize
  /\ Numbers(Header) = Append(Magic, Version)
  /\ PlainSeq(Magic) \in Seq(StoredCells) /\ Len(PlainSeq(Magic)) = Len(Magic)
  /\ Numbers(PlainSeq(Magic)) = Magic
<1> DEFINE m == Magic
           v == Version
           h == Append(m, v)
           s == PlainSeq(m)
           u == <<Plain(v)>>
<1>1. m \in Seq(Bytes) /\ v \in Bytes /\ Len(m) \in Nat /\ HeaderSize = Len(m) + 1
  BY LayoutFacts
<1>2. h \in Seq(Bytes) /\ Len(h) = Len(m) + 1 /\ \A i \in 1..Len(m) : h[i] = m[i]
  <2> HIDE DEF m, v
  <2> QED  BY <1>1
<1>3. h[Len(m) + 1] = v
  <2> HIDE DEF m, v
  <2> QED  BY <1>1
<1>4. s \in Seq(PlainCells) /\ Len(s) = Len(m) /\ \A i \in 1..Len(m) : s[i] = Plain(m[i])
  BY <1>1, PlainSeqIs
<1>5. PlainSeq(h) \in Seq(PlainCells) /\ Len(PlainSeq(h)) = Len(h)
      /\ \A i \in 1..Len(h) : PlainSeq(h)[i] = Plain(h[i])
  <2> HIDE DEF h
  <2> QED  BY <1>2, PlainSeqIs
<1>6. u \in Seq(PlainCells) /\ Len(u) = 1 /\ u[1] = Plain(v)
  <2>1. Plain(v) \in PlainCells
    BY <1>1 DEF PlainCells
  <2> QED  BY <2>1
<1> DEFINE p == PlainSeq(h)
<1> HIDE DEF m, v, h, s, u, p
<1>7. /\ s \o u \in Seq(PlainCells) /\ Len(s \o u) = Len(m) + 1
      /\ \A j \in 1..Len(m) : (s \o u)[j] = s[j]
      /\ \A j \in 1..1 : (s \o u)[Len(m) + j] = u[j]
  <2>1. s \in Seq(PlainCells) /\ u \in Seq(PlainCells)
    BY <1>4, <1>6
  <2>2. /\ s \o u \in Seq(PlainCells) /\ Len(s \o u) = Len(s) + Len(u)
        /\ \A j \in 1..Len(s) : (s \o u)[j] = s[j]
        /\ \A j \in 1..Len(u) : (s \o u)[Len(s) + j] = u[j]
    BY <2>1, ConcatIs
  <2> DEFINE t == s \o u
  <2> HIDE DEF t
  <2> QED  BY <1>4, <1>6, <2>2 DEF t
<1>8. p \in Seq(PlainCells) /\ Len(p) = Len(m) + 1 /\ \A i \in 1..(Len(m) + 1) : p[i] = Plain(h[i])
  BY <1>2, <1>5 DEF p
<1>9. \A i \in 1..(Len(m) + 1) : (s \o u)[i] = p[i]
  <2> SUFFICES ASSUME NEW i \in 1..(Len(m) + 1) PROVE (s \o u)[i] = p[i]
    OBVIOUS
  <2>1. CASE i = Len(m) + 1
    <3>1. 1 \in 1..1
      OBVIOUS
    <3> QED  BY <1>3, <1>6, <1>7, <1>8, <2>1, <3>1
  <2>2. CASE i # Len(m) + 1
    <3>1. i \in 1..Len(m)
      BY <1>1, <2>2
    <3> QED  BY <1>2, <1>4, <1>7, <1>8, <3>1
  <2> QED  BY <2>1, <2>2
<1> DEFINE t == s \o u
<1>10. t = p
  <2> HIDE DEF t
  <2>1. t \in Seq(PlainCells) /\ Len(t) = Len(p) /\ \A i \in 1..Len(p) : t[i] = p[i]
    BY <1>7, <1>8, <1>9 DEF t
  <2> QED  BY <1>8, <2>1, SeqEqual
<1>11. Numbers(p) = h
  BY <1>2, NumbersOfPlain DEF p
<1>12. Numbers(s) = m
  BY <1>1, NumbersOfPlain DEF s
<1>13. Header = t
  BY DEF Header, t, s, u, m, v
<1>14. Header \in Seq(StoredCells) /\ s \in Seq(StoredCells)
  BY <1>4, <1>7, <1>13, PlainIsStored
<1> QED  BY <1>1, <1>4, <1>7, <1>10, <1>11, <1>12, <1>13, <1>14 DEF h, m, v, s

(* The offset that the footer tells.                                       *)
OpenOffset(b) == FromBytes(Slice(b, Len(b) - FooterSize, (Len(b) - FooterSize) + OffSize))

(* What open has checked, and what it returns.                             *)
OpenChecks(b) ==
  /\ Len(b) >= HeaderSize + FooterSize
  /\ Numbers(Slice(b, 0, HeaderSize)) = Append(Magic, Version)
  /\ Numbers(Slice(b, (Len(b) - FooterSize) + OffSize, Len(b))) = Magic
  /\ HeaderSize <= OpenOffset(b) /\ OpenOffset(b) <= Len(b) - FooterSize
  /\ ReadEntries(b, OpenOffset(b), Len(b) - FooterSize).ok
  /\ IndexFits(ReadEntries(b, OpenOffset(b), Len(b) - FooterSize).entries, OpenOffset(b))

LEMMA OpenIs ==
  ASSUME NEW b
  PROVE  Open(b) = IF OpenChecks(b)
                   THEN [ok |-> TRUE,
                         index |-> ReadEntries(b, OpenOffset(b), Len(b) - FooterSize).entries,
                         indexOffset |-> OpenOffset(b)]
                   ELSE Invalid
BY Zenon DEF Open, OpenChecks, OpenOffset

(* What a reader that opened the file makes of it.                         *)
Opened(idx, x) == [ok |-> TRUE, index |-> idx, indexOffset |-> x]

LEMMA OffsetIsRead ==
  ASSUME NEW b \in Seq(StoredCells), NEW x \in Nat, x < Capacity(OffSize), NEW n \in Nat,
         Len(b) = n + FooterSize, Holds(b, n, ToBytes(x, OffSize))
  PROVE  Len(b) - FooterSize = n /\ OpenOffset(b) = x
<1> DEFINE s == ToBytes(x, OffSize)
<1>1. OffSize \in Nat /\ FooterSize \in Nat
  BY LayoutFacts
<1>2. s \in Seq(PlainCells) /\ Len(s) = OffSize /\ FromBytes(s) = x
  BY <1>1, ToBytesType, NumbersRoundTrip
<1>3. s \in Seq(StoredCells)
  BY <1>2, PlainIsStored
<1> HIDE DEF s
<1>4. SubSeq(b, n + 1, n + Len(s)) = s
  <2>1. Holds(b, n, s)
    BY DEF s
  <2> QED  BY <1>3, <2>1, HeldIs
<1>5. Len(b) - FooterSize = n
  BY <1>1
<1> QED  BY <1>2, <1>4, <1>5 DEF OpenOffset, Slice

(* With the index and its offset as they were written, open can only tell  *)
(* the index.                                                              *)
IndexWritten(b, w, idx) ==
  /\ Len(b) = (Ends(w, Len(w)) + Len(EncodeIndex(idx))) + FooterSize
  /\ Holds(b, Ends(w, Len(w)), EncodeIndex(idx))
  /\ Holds(b, Ends(w, Len(w)) + Len(EncodeIndex(idx)), ToBytes(Ends(w, Len(w)), OffSize))

LEMMA IndexIsOpened ==
  ASSUME NEW b \in Seq(StoredCells), NEW w \in Seq(Encodables), NEW idx, IndexInv(idx, w),
         Ends(w, Len(w)) < Capacity(OffSize), IndexWritten(b, w, idx)
  PROVE  LET x == Ends(w, Len(w))
         IN  /\ OpenOffset(b) = x /\ Len(b) - FooterSize = x + Len(EncodeIndex(idx))
             /\ ReadEntries(b, x, x + Len(EncodeIndex(idx))) = [ok |-> TRUE, entries |-> idx]
             /\ Open(b) = Invalid \/ Open(b) = Opened(idx, x)
<1> DEFINE x == Ends(w, Len(w))
           l == Len(EncodeIndex(idx))
<1>1. x \in Nat /\ idx \in Seq(IndexEntries) /\ Len(idx) \in Nat
  <2>1. Len(w) \in Nat /\ Len(w) \in 0..Len(w)
    OBVIOUS
  <2>2. idx \in Seq(IndexEntries)
    BY DEF IndexInv
  <2> QED  BY <2>1, <2>2, EndsGrow, LenProperties
<1>2. l \in Nat
  BY <1>1, EncodeIndexIs
<1>3. /\ Len(b) = (x + l) + FooterSize /\ Holds(b, x, EncodeIndex(idx))
      /\ Holds(b, x + l, ToBytes(x, OffSize)) /\ x < Capacity(OffSize)
  BY DEF IndexWritten
<1>4. \A i \in 1..Len(idx) : idx[i].at < Capacity(OffSize)
  <2> SUFFICES ASSUME NEW i \in 1..Len(idx) PROVE idx[i].at < Capacity(OffSize)
    OBVIOUS
  <2>1. i \in DOMAIN idx
    BY <1>1
  <2>2. idx[i].at < x
    BY <2>1, WrittenIndexFits DEF IndexFits
  <2>3. idx[i] \in IndexEntries
    BY <1>1, ElementOfSeq
  <2>4. idx[i].at \in Nat
    BY <2>3 DEF IndexEntries
  <2>5. Capacity(OffSize) \in Nat
    BY CapacityType, LayoutFacts
  <2> HIDE DEF x
  <2> QED  BY <1>1, <1>3, <2>2, <2>4, <2>5
<1> HIDE DEF x, l
<1>5. Len(b) - FooterSize = x + l /\ OpenOffset(b) = x
  <2> DEFINE n == x + l
  <2>1. n \in Nat
    BY <1>1, <1>2
  <2>2. Len(b) = n + FooterSize /\ Holds(b, n, ToBytes(x, OffSize))
    BY <1>3
  <2> HIDE DEF n
  <2>3. Len(b) - FooterSize = n /\ OpenOffset(b) = x
    BY <1>1, <1>3, <2>1, <2>2, OffsetIsRead
  <2> QED  BY <2>3 DEF n
<1>6. ReadEntries(b, x, x + l) = [ok |-> TRUE, entries |-> idx]
  BY <1>1, <1>3, <1>4, IndexIsRead DEF l
<1>7. Open(b) = IF OpenChecks(b) THEN Opened(idx, x) ELSE Invalid
  <2> DEFINE e == ReadEntries(b, OpenOffset(b), Len(b) - FooterSize)
  <2>1. e.entries = idx
    BY <1>5, <1>6
  <2>2. Open(b) = IF OpenChecks(b)
                  THEN [ok |-> TRUE, index |-> e.entries, indexOffset |-> OpenOffset(b)]
                  ELSE Invalid
    BY OpenIs
  <2> HIDE DEF e
  <2> QED  BY <1>5, <2>1, <2>2, Zenon DEF Opened
<1>8. Open(b) = Invalid \/ Open(b) = Opened(idx, x)
  BY <1>7, Zenon
<1> QED  BY <1>5, <1>6, <1>8 DEF x, l

(* A finished file.                                                        *)
WholeFile(b, w, idx) ==
  /\ b \in Seq(StoredCells)
  /\ Holds(b, 0, Header)
  /\ \A i \in 1..Len(w) : Holds(b, Ends(w, i - 1), Encode(w[i]))
  /\ IndexWritten(b, w, idx)
  /\ Holds(b, (Ends(w, Len(w)) + Len(EncodeIndex(idx))) + OffSize, PlainSeq(Magic))

LEMMA WholeFileOpens ==
  ASSUME NEW b, NEW w \in Seq(Encodables), NEW idx, IndexInv(idx, w),
         Ends(w, Len(w)) < Capacity(OffSize), WholeFile(b, w, idx)
  PROVE  Open(b) = Opened(idx, Ends(w, Len(w)))
<1> DEFINE x == Ends(w, Len(w))
           l == Len(EncodeIndex(idx))
           n == x + l
<1>1. b \in Seq(StoredCells) /\ IndexWritten(b, w, idx) /\ Holds(b, 0, Header)
      /\ Holds(b, n + OffSize, PlainSeq(Magic))
  BY DEF WholeFile
<1>2. /\ OpenOffset(b) = x /\ Len(b) - FooterSize = n
      /\ ReadEntries(b, x, n) = [ok |-> TRUE, entries |-> idx]
      /\ Open(b) = Invalid \/ Open(b) = Opened(idx, x)
  BY <1>1, IndexIsOpened
<1>3. IndexFits(idx, x)
  BY WrittenIndexFits
<1>4. x \in Nat /\ HeaderSize <= x /\ l \in Nat
  <2>1. Len(w) \in Nat /\ Len(w) \in 0..Len(w)
    OBVIOUS
  <2>2. idx \in Seq(IndexEntries)
    BY DEF IndexInv
  <2> QED  BY <2>1, <2>2, EndsGrow, EncodeIndexIs
<1>5. Len(b) = n + FooterSize
  BY <1>1 DEF IndexWritten
<1> HIDE DEF x, l
<1>6. /\ n \in Nat /\ x <= n /\ HeaderSize <= n /\ HeaderSize \in Nat /\ OffSize \in Nat
      /\ FooterSize = OffSize + Len(Magic) /\ Len(Magic) \in Nat
  BY <1>4, LayoutFacts
<1> HIDE DEF n
<1>7. Slice(b, 0, HeaderSize) = Header
  <2>1. SubSeq(b, 0 + 1, 0 + Len(Header)) = Header
    BY <1>1, HeaderIs, HeldIs
  <2>2. 0 + Len(Header) = HeaderSize
    BY <1>6, HeaderIs
  <2> QED  BY <2>1, <2>2 DEF Slice
<1>8. Slice(b, n + OffSize, Len(b)) = PlainSeq(Magic)
  <2> DEFINE s == PlainSeq(Magic)
             m == n + OffSize
  <2>1. m \in Nat
    BY <1>6
  <2>2. s \in Seq(StoredCells) /\ Len(s) = Len(Magic)
    BY HeaderIs
  <2>3. Len(b) = m + Len(Magic)
    BY <1>5, <1>6
  <2>4. Holds(b, m, s)
    BY <1>1
  <2> HIDE DEF m, s
  <2>5. SubSeq(b, m + 1, m + Len(s)) = s
    BY <1>1, <2>1, <2>2, <2>4, HeldIs
  <2> QED  BY <2>2, <2>3, <2>5 DEF Slice, m, s
<1>9. OpenChecks(b)
  <2>1. Len(b) >= HeaderSize + FooterSize
    BY <1>5, <1>6
  <2>2. Numbers(Slice(b, 0, HeaderSize)) = Append(Magic, Version)
    BY <1>7, HeaderIs
  <2>3. Numbers(Slice(b, (Len(b) - FooterSize) + OffSize, Len(b))) = Magic
    BY <1>2, <1>8, HeaderIs
  <2>4. HeaderSize <= OpenOffset(b) /\ OpenOffset(b) <= Len(b) - FooterSize
    BY <1>2, <1>4, <1>6
  <2>5. /\ ReadEntries(b, OpenOffset(b), Len(b) - FooterSize).ok
        /\ IndexFits(ReadEntries(b, OpenOffset(b), Len(b) - FooterSize).entries, OpenOffset(b))
    BY <1>2, <1>3
  <2> QED  BY <2>1, <2>2, <2>3, <2>4, <2>5 DEF OpenChecks
<1>10. Open(b) # Invalid
  <2>1. Open(b).ok
    <3> DEFINE e == ReadEntries(b, OpenOffset(b), Len(b) - FooterSize)
    <3>1. Open(b) = [ok |-> TRUE, index |-> e.entries, indexOffset |-> OpenOffset(b)]
      BY <1>9, OpenIs, Zenon
    <3> HIDE DEF e
    <3> QED  BY <3>1
  <2> QED  BY <2>1 DEF Invalid
<1> QED  BY <1>2, <1>10 DEF x

(* get and iter_all, of a file that opens.                                 *)
LEMMA GetIs ==
  ASSUME NEW b \in Seq(StoredCells), NEW w \in Seq(Encodables), Sorted(w),
         NEW idx, IndexInv(idx, w), NEW good, Ends(w, Len(w)) <= Len(b), Answers(b, w, good),
         NEW k \in Seq(Nat), Open(b) = Opened(idx, Ends(w, Len(w)))
  PROVE  Got(Get(b, k), ExpectedIn(w, k), good)
<1> DEFINE x == Ends(w, Len(w))
           d == Opened(idx, x)
<1>1. x \in Nat
  <2>1. Len(w) \in Nat /\ Len(w) \in 0..Len(w)
    OBVIOUS
  <2> QED  BY <2>1, EndsGrow
<1>2. d.ok /\ d.index = idx /\ d.indexOffset = x
  BY DEF Opened
<1>3. Get(b, k) = Search(b, d, k)
  BY <1>2 DEF Get
<1> HIDE DEF d
<1>4. PICK f : SearchStep(b, x, k, f) /\ f[SearchStart(idx, k)] = Search(b, d, k)
  <2>1. x <= Len(b)
    OBVIOUS
  <2> HIDE DEF x
  <2>2. \E f : SearchStep(b, x, k, f) /\ f[SearchStart(d.index, k)] = Search(b, d, k)
    BY <1>1, <1>2, <2>1, SearchIs
  <2> QED  BY <1>2, <2>2
<1>5. PICK s \in 0..Len(w) : SearchStart(idx, k) = Ends(w, s) /\ \A j \in 1..s : Less(w[j].key, k)
  BY SearchStarts
<1>6. Got(f[Ends(w, s)], ExpectedIn(w, k), good)
  BY <1>4, <1>5, SearchFinds
<1> QED  BY <1>3, <1>4, <1>5, <1>6

LEMMA IterAllIs ==
  ASSUME NEW b \in Seq(StoredCells), NEW w \in Seq(Encodables), NEW good,
         Ends(w, Len(w)) <= Len(b), Answers(b, w, good),
         Open(b).ok => Open(b).indexOffset = Ends(w, Len(w))
  PROVE  \/ Got(IterAll(b), [ok |-> TRUE, records |-> w], good)
         \/ ~Open(b).ok /\ IterAll(b) = Invalid
<1>1. Got(ReadAll(b, Ends(w, Len(w))), [ok |-> TRUE, records |-> w], good)
  BY AllIsRead
<1> QED  BY <1>1 DEF IterAll

(***************************************************************************)
(* The writer's actions                                                    *)
(***************************************************************************)

(* A file to which records are still added.                                *)
GrowingFile(b, w) ==
  /\ b \in Seq(StoredCells) /\ Len(b) = Ends(w, Len(w))
  /\ Holds(b, 0, Header)
  /\ \A i \in 1..Len(w) : Holds(b, Ends(w, i - 1), Encode(w[i]))

(* A whole file in which one cell has been changed.                        *)
DamagedFile(b, w, idx, i) ==
  \E g : /\ WholeFile(g, w, idx) /\ i \in DOMAIN g
         /\ \E n \in Bytes : Plain(n) # g[i] /\ b = [g EXCEPT ![i] = Plain(n)]

(* The writer's file is growing or whole; but for one cell, a damaged one is.*)
SegInv ==
  /\ written \in Seq(Encodables) /\ Sorted(written) /\ IndexInv(sparseIndex, written)
  /\ phase \in {"writing", "failed", "finished", "damaged"}
  /\ phase \in {"writing", "failed"} => GrowingFile(bytes, written)
  /\ phase = "finished" => WholeFile(bytes, written, sparseIndex)
  /\ phase = "damaged" => DamagedFile(bytes, written, sparseIndex, hit)

(* The header alone is a file of no records.                               *)
LEMMA GrowingStarts == GrowingFile(Header, <<>>)
<1>1. Header \in Seq(StoredCells) /\ Len(Header) = HeaderSize
  BY HeaderIs
<1>2. Holds(Header, 0, Header)
  BY <1>1, HoldsSelf
<1>3. Ends(<<>>, Len(<<>>)) = HeaderSize
  <2>1. Len(<<>>) = 0 /\ <<>> \in Seq(Encodables)
    OBVIOUS
  <2> QED  BY <2>1, EndsAre
<1> QED  BY <1>1, <1>2, <1>3 DEF GrowingFile

(* A record written at the end makes it a file of one record more.         *)
LEMMA GrowingGoesOn ==
  ASSUME NEW b, NEW w \in Seq(Encodables), GrowingFile(b, w), NEW r \in Encodables
  PROVE  GrowingFile(b \o Encode(r), Append(w, r))
<1> DEFINE v == Append(w, r)
           n == Len(w)
           t == Encode(r)
           c == b \o t
<1>1. /\ Len(v) = n + 1 /\ n \in Nat
      /\ \A i \in 1..n : v[i] = w[i]
      /\ v[n + 1] = r
  OBVIOUS
<1>2. \A i \in 0..n : Ends(v, i) = Ends(w, i) /\ Ends(w, i) \in Nat
  BY EndsAppend, EndsGrow
<1>3. Ends(v, n + 1) = Ends(w, n) + SizeOf(r)
  BY EndsAppend
<1>4. t \in Seq(StoredCells) /\ Len(t) = SizeOf(r)
  BY EncodableFacts, EncodeIs
<1>5. b \in Seq(StoredCells) /\ Len(b) = Ends(w, n) /\ Holds(b, 0, Header)
  BY DEF GrowingFile
<1> HIDE DEF t
<1>6. c \in Seq(StoredCells) /\ Len(c) = Ends(w, n) + SizeOf(r)
  <2>1. c \in Seq(StoredCells) /\ Len(c) = Len(b) + Len(t)
    BY <1>4, <1>5, ConcatIs
  <2> HIDE DEF c, n
  <2> QED  BY <1>4, <1>5, <2>1
<1> HIDE DEF v, n
<1>7. Holds(c, 0, Header)
  BY <1>4, <1>5, HeaderIs, HoldsInFront
<1>8. ASSUME NEW i \in 1..Len(v) PROVE Holds(c, Ends(v, i - 1), Encode(v[i]))
  <2>1. CASE i = n + 1
    <3>1. Holds(t, 0, t)
      BY <1>4, HoldsSelf
    <3>2. Holds(c, Len(b) + 0, t)
      BY <1>4, <1>5, <3>1, HoldsBehind
    <3>3. n \in 0..n /\ i - 1 = n
      BY <1>1, <2>1
    <3>4. Ends(v, n) = Ends(w, n) /\ Ends(w, n) \in Nat
      BY <1>2, <3>3
    <3>5. Len(b) + 0 = Ends(w, n)
      BY <1>5, <3>4
    <3> QED  BY <1>1, <2>1, <3>2, <3>3, <3>4, <3>5 DEF t
  <2>2. CASE i # n + 1
    <3>1. i \in 1..n /\ i - 1 \in 0..n
      BY <1>1, <2>2
    <3>2. Ends(v, i - 1) = Ends(w, i - 1) /\ Ends(w, i - 1) \in Nat /\ v[i] = w[i]
      BY <1>1, <1>2, <3>1
    <3>3. Holds(b, Ends(w, i - 1), Encode(w[i]))
      BY <3>1 DEF GrowingFile, n
    <3>4. Encode(w[i]) \in Seq(StoredCells)
      BY <3>1, PlaceFacts DEF n
    <3>5. Holds(c, Ends(w, i - 1), Encode(w[i]))
      BY <1>4, <1>5, <3>2, <3>3, <3>4, HoldsInFront
    <3> QED  BY <3>2, <3>5
  <2> QED  BY <2>1, <2>2
<1> HIDE DEF c
<1>9. GrowingFile(c, v)
  <2>1. Len(c) = Ends(v, Len(v))
    BY <1>1, <1>3, <1>6
  <2> QED  BY <1>6, <1>7, <1>8, <2>1 DEF GrowingFile
<1> QED  BY <1>9 DEF c, v, t

(* The three parts that write_all puts behind the records.                 *)
LEMMA ThreeParts ==
  ASSUME NEW S, NEW b \in Seq(S), NEW e \in Seq(S), NEW o \in Seq(S), NEW m \in Seq(S)
  PROVE  LET c == ((b \o e) \o o) \o m
         IN  /\ c \in Seq(S) /\ Len(c) = (Len(b) + Len(e)) + (Len(o) + Len(m))
             /\ Holds(c, Len(b), e) /\ Holds(c, Len(b) + Len(e), o)
             /\ Holds(c, (Len(b) + Len(e)) + Len(o), m)
             /\ \A n \in Nat : \A s \in Seq(S) : Holds(b, n, s) => Holds(c, n, s)
<1> DEFINE x == b \o e
           y == x \o o
           c == y \o m
<1>1. Len(b) \in Nat /\ Len(e) \in Nat /\ Len(o) \in Nat /\ Len(m) \in Nat
  OBVIOUS
<1>2. x \in Seq(S) /\ Len(x) = Len(b) + Len(e)
  BY ConcatIs
<1>3. Holds(x, Len(b), e)
  <2>1. Holds(x, Len(b) + 0, e)
    BY HoldsSelf, HoldsBehind
  <2>2. Len(b) + 0 = Len(b)
    BY <1>1
  <2> QED  BY <2>1, <2>2
<1>4. \A n \in Nat : \A s \in Seq(S) : Holds(b, n, s) => Holds(x, n, s)
  BY HoldsInFront
<1> HIDE DEF x
<1>5. y \in Seq(S) /\ Len(y) = Len(x) + Len(o)
  BY <1>2, ConcatIs
<1>6. Holds(y, Len(x), o)
  <2>1. Holds(y, Len(x) + 0, o)
    BY <1>2, HoldsSelf, HoldsBehind
  <2>2. Len(x) + 0 = Len(x)
    BY <1>1, <1>2
  <2> QED  BY <2>1, <2>2
<1>7. \A n \in Nat : \A s \in Seq(S) : Holds(x, n, s) => Holds(y, n, s)
  BY <1>2, HoldsInFront
<1> HIDE DEF y
<1>8. c \in Seq(S) /\ Len(c) = Len(y) + Len(m)
  BY <1>5, ConcatIs
<1>9. Holds(c, Len(y), m)
  <2>1. Holds(c, Len(y) + 0, m)
    BY <1>5, HoldsSelf, HoldsBehind
  <2>2. Len(y) + 0 = Len(y)
    BY <1>1, <1>2, <1>5
  <2> QED  BY <2>1, <2>2
<1>10. \A n \in Nat : \A s \in Seq(S) : Holds(y, n, s) => Holds(c, n, s)
  BY <1>5, HoldsInFront
<1> HIDE DEF c
<1>11. Len(c) = (Len(b) + Len(e)) + (Len(o) + Len(m))
  BY <1>1, <1>2, <1>5, <1>8
<1>12. Holds(c, Len(b), e)
  BY <1>1, <1>3, <1>7, <1>10
<1>13. Holds(c, Len(b) + Len(e), o)
  <2>1. Len(x) \in Nat
    BY <1>1, <1>2
  <2> QED  BY <1>2, <1>6, <1>10, <2>1
<1>14. \A n \in Nat : \A s \in Seq(S) : Holds(b, n, s) => Holds(c, n, s)
  BY <1>4, <1>7, <1>10
<1>15. Holds(c, (Len(b) + Len(e)) + Len(o), m)
  BY <1>2, <1>5, <1>9
<1> QED  BY <1>8, <1>11, <1>12, <1>13, <1>14, <1>15 DEF c, y, x

LEMMA FinishedIsWhole ==
  ASSUME NEW b, NEW w \in Seq(Encodables), GrowingFile(b, w), NEW idx, IndexInv(idx, w)
  PROVE  WholeFile(b \o EncodeIndex(idx) \o ToBytes(Len(b), OffSize) \o PlainSeq(Magic), w, idx)
<1> DEFINE e == EncodeIndex(idx)
           o == ToBytes(Len(b), OffSize)
           m == PlainSeq(Magic)
           c == ((b \o e) \o o) \o m
           x == Ends(w, Len(w))
<1>1. b \in Seq(StoredCells) /\ Len(b) = x /\ Len(b) \in Nat /\ Holds(b, 0, Header)
  BY LenProperties DEF GrowingFile
<1>2. e \in Seq(StoredCells) /\ Len(e) \in Nat
  <2>1. idx \in Seq(IndexEntries)
    BY DEF IndexInv
  <2> QED  BY <2>1, EncodeIndexIs
<1>3. OffSize \in Nat /\ FooterSize = OffSize + Len(Magic) /\ Len(Magic) \in Nat
  BY LayoutFacts
<1>4. o \in Seq(StoredCells) /\ Len(o) = OffSize
  BY <1>1, <1>3, ToBytesType, PlainIsStored
<1>5. m \in Seq(StoredCells) /\ Len(m) = Len(Magic)
  BY HeaderIs
<1>6. \A i \in 1..Len(w) :
         /\ Holds(b, Ends(w, i - 1), Encode(w[i]))
         /\ Ends(w, i - 1) \in Nat /\ Encode(w[i]) \in Seq(StoredCells)
  BY PlaceFacts DEF GrowingFile
<1> HIDE DEF e, o, m, x
<1>7. /\ c \in Seq(StoredCells) /\ Len(c) = (Len(b) + Len(e)) + (Len(o) + Len(m))
      /\ Holds(c, Len(b), e) /\ Holds(c, Len(b) + Len(e), o)
      /\ Holds(c, (Len(b) + Len(e)) + Len(o), m)
      /\ \A n \in Nat : \A s \in Seq(StoredCells) : Holds(b, n, s) => Holds(c, n, s)
  BY <1>1, <1>2, <1>4, <1>5, ThreeParts, Zenon
<1> HIDE DEF c
<1>8. Holds(c, 0, Header)
  BY <1>1, <1>7, HeaderIs
<1>9. \A i \in 1..Len(w) : Holds(c, Ends(w, i - 1), Encode(w[i]))
  BY <1>6, <1>7
<1>10. IndexWritten(c, w, idx)
  <2>1. Len(c) = (x + Len(e)) + FooterSize
    BY <1>1, <1>3, <1>4, <1>5, <1>7
  <2>2. Holds(c, x, e) /\ Holds(c, x + Len(e), ToBytes(x, OffSize))
    BY <1>1, <1>7 DEF o
  <2> QED  BY <2>1, <2>2 DEF IndexWritten, x, e
<1>11. Holds(c, (x + Len(e)) + OffSize, m)
  BY <1>1, <1>4, <1>7
<1>12. WholeFile(c, w, idx)
  BY <1>7, <1>8, <1>9, <1>10, <1>11 DEF WholeFile, x, e, m
<1> QED  BY <1>12 DEF c, e, o, m

LEMMA SegInit ==
  ASSUME Init
  PROVE  SegInv
<1>1. written = <<>> /\ sparseIndex = <<>> /\ bytes = Header /\ phase = "writing"
  BY DEF Init, Header
<1>2. GrowingFile(bytes, written)
  BY <1>1, GrowingStarts
<1> QED  BY <1>1, <1>2, NoIndex DEF SegInv

LEMMA WriteRecordPreserves ==
  ASSUME SegInv, NEW r \in DataRecords, WriteRecord(r)
  PROVE  SegInv'
<1>1. /\ written \in Seq(Encodables) /\ Sorted(written) /\ IndexInv(sparseIndex, written)
      /\ phase = "writing" /\ GrowingFile(bytes, written)
  BY DEF SegInv, WriteRecord
<1>2. /\ written # <<>> => Less(Last(written).key, r.key)
      /\ bytes' = bytes \o Encode(r) /\ written' = Append(written, r) /\ phase' = phase
      /\ sparseIndex' = IF Len(written) % Interval = 0
                        THEN Append(sparseIndex, [key |-> r.key, at |-> Len(bytes)])
                        ELSE sparseIndex
  BY DEF WriteRecord, Ordered
<1>3. r \in Encodables
  BY DEF WriteRecord, Encodables
<1>4. written' \in Seq(Encodables) /\ Sorted(written')
      /\ \A i \in 1..Len(written) : Less(written[i].key, r.key)
  BY <1>1, <1>2, <1>3, SortedAppend, EndsAppend
<1>5. GrowingFile(bytes', written')
  BY <1>1, <1>2, <1>3, GrowingGoesOn
<1>6. IndexInv(sparseIndex', written')
  <2>1. CASE Len(written) % Interval = 0
    <3>1. sparseIndex' = Append(sparseIndex, [key |-> r.key, at |-> Len(bytes)])
      BY <1>2, <2>1
    <3>2. Len(bytes) = Ends(written, Len(written))
      BY <1>1 DEF GrowingFile
    <3>3. IndexInv(Append(sparseIndex, [key |-> r.key, at |-> Ends(written, Len(written))]),
                   Append(written, r))
      BY <1>1, <1>3, <1>4, IndexGrows
    <3> QED  BY <1>2, <3>1, <3>2, <3>3
  <2>2. CASE Len(written) % Interval # 0
    <3>1. written # <<>>
      <4>1. Interval \in Nat /\ Interval > 0
        BY LayoutFacts
      <4>2. 0 % Interval = 0
        BY <4>1
      <4>3. Len(<<>>) = 0
        OBVIOUS
      <4> QED  BY <2>2, <4>2, <4>3
    <3>2. sparseIndex' = sparseIndex
      BY <1>2, <2>2
    <3>3. IndexInv(sparseIndex, Append(written, r))
      BY <1>1, <1>3, <3>1, IndexStays
    <3> QED  BY <1>2, <3>2, <3>3
  <2> QED  BY <2>1, <2>2
<1> QED  BY <1>1, <1>2, <1>4, <1>5, <1>6 DEF SegInv

LEMMA RefuseRecordPreserves ==
  ASSUME SegInv, NEW r \in DataRecords, RefuseRecord(r)
  PROVE  SegInv'
BY DEF SegInv, RefuseRecord

LEMMA FinishPreserves ==
  ASSUME SegInv, Finish
  PROVE  SegInv'
<1>1. /\ written \in Seq(Encodables) /\ Sorted(written) /\ IndexInv(sparseIndex, written)
      /\ GrowingFile(bytes, written)
      /\ written' = written /\ sparseIndex' = sparseIndex /\ phase' = "finished"
      /\ bytes' = bytes \o EncodeIndex(sparseIndex)
                    \o ToBytes(Len(bytes), OffSize) \o PlainSeq(Magic)
  BY DEF SegInv, Finish
<1>2. WholeFile(bytes', written, sparseIndex)
  BY <1>1, FinishedIsWhole
<1> QED  BY <1>1, <1>2 DEF SegInv

LEMMA SegDamagePreserves ==
  ASSUME SegInv, Damage
  PROVE  SegInv'
<1>1. /\ written \in Seq(Encodables) /\ Sorted(written) /\ IndexInv(sparseIndex, written)
      /\ WholeFile(bytes, written, sparseIndex)
      /\ written' = written /\ sparseIndex' = sparseIndex /\ phase' = "damaged"
  BY DEF SegInv, Damage
<1>2. PICK i \in DOMAIN bytes, n \in Bytes :
        Plain(n) # bytes[i] /\ bytes' = [bytes EXCEPT ![i] = Plain(n)] /\ hit' = i
  BY DEF Damage
<1>3. DamagedFile(bytes', written, sparseIndex, hit')
  BY <1>1, <1>2, Zenon DEF DamagedFile
<1> QED  BY <1>1, <1>3 DEF SegInv

LEMMA SegInvariant == Spec => []SegInv
<1>1. SegInv /\ [Next]_vars => SegInv'
  <2> SUFFICES ASSUME SegInv, [Next]_vars PROVE SegInv'
    OBVIOUS
  <2>1. CASE UNCHANGED vars
    BY <2>1 DEF SegInv, vars
  <2>2. ASSUME NEW r \in DataRecords, WriteRecord(r) PROVE SegInv'
    BY <2>2, WriteRecordPreserves
  <2>3. ASSUME NEW r \in DataRecords, RefuseRecord(r) PROVE SegInv'
    BY <2>3, RefuseRecordPreserves
  <2>4. CASE Finish
    BY <2>4, FinishPreserves
  <2>5. CASE Damage
    BY <2>5, SegDamagePreserves
  <2> QED  BY <2>1, <2>2, <2>3, <2>4, <2>5 DEF Next
<1> QED  BY <1>1, SegInit, PTL DEF Spec

(***************************************************************************)
(* What a reader reads                                                     *)
(***************************************************************************)

LEMMA HoldsExcept ==
  ASSUME NEW S, NEW g \in Seq(S), NEW i \in DOMAIN g, NEW c \in S, NEW m \in Nat, NEW s \in Seq(S),
         Holds(g, m, s), i <= m \/ m + Len(s) < i
  PROVE  Holds([g EXCEPT ![i] = c], m, s)
<1> DEFINE b == [g EXCEPT ![i] = c]
<1>1. /\ b \in Seq(S) /\ Len(b) = Len(g)
      /\ \A p \in 1..Len(g) : b[p] = IF p = i THEN c ELSE g[p]
  BY ExceptSeq
<1>2. m + Len(s) <= Len(g) /\ Len(s) \in Nat /\ Len(g) \in Nat /\ i \in Nat
  BY LenProperties DEF Holds
<1> HIDE DEF b
<1>3. ASSUME NEW j \in 1..Len(s) PROVE b[m + j] = s[j]
  <2>1. m + j \in 1..Len(g) /\ m + j # i
    BY <1>2
  <2>2. g[m + j] = s[j]
    BY DEF Holds
  <2> QED  BY <1>1, <2>1, <2>2
<1> QED  BY <1>1, <1>2, <1>3 DEF Holds, b

(* Everything in a whole file is read, and in a damaged one everything     *)
(* that the changed cell is no part of.                                    *)
LEMMA WholeAnswers ==
  ASSUME NEW b, NEW w \in Seq(Encodables), NEW idx, IndexInv(idx, w), WholeFile(b, w, idx)
  PROVE  /\ b \in Seq(StoredCells) /\ Ends(w, Len(w)) <= Len(b)
         /\ Len(b) = (Ends(w, Len(w)) + Len(EncodeIndex(idx))) + FooterSize
         /\ Ends(w, Len(w)) \in Nat /\ Len(EncodeIndex(idx)) \in Nat
         /\ Answers(b, w, TRUE)
<1> DEFINE x == Ends(w, Len(w))
           l == Len(EncodeIndex(idx))
<1>1. b \in Seq(StoredCells) /\ Len(b) = (x + l) + FooterSize
      /\ \A i \in 1..Len(w) : Holds(b, Ends(w, i - 1), Encode(w[i]))
  BY DEF WholeFile, IndexWritten
<1>2. x \in Nat /\ l \in Nat
  <2>1. Len(w) \in Nat /\ Len(w) \in 0..Len(w)
    OBVIOUS
  <2>2. idx \in Seq(IndexEntries)
    BY DEF IndexInv
  <2> QED  BY <2>1, <2>2, EndsGrow, EncodeIndexIs
<1> HIDE DEF x, l
<1>3. x <= Len(b)
  BY <1>1, <1>2, LayoutFacts
<1>4. ASSUME NEW i \in 1..Len(w) PROVE ReadRecordAt(b, x, Ends(w, i - 1)) = Right(w[i])
  <2> DEFINE o == Ends(w, i - 1)
             r == w[i]
  <2>1. o \in Nat /\ r \in Encodables /\ HeaderSize <= o /\ o + SizeOf(r) <= x
    BY PlaceFacts DEF x
  <2>2. Holds(b, o, Encode(r))
    BY <1>1
  <2> HIDE DEF o, r
  <2>3. ReadRecordAt(b, x, o) = Right(r)
    BY <1>1, <1>2, <1>3, <2>1, <2>2, WrittenIsRead
  <2> QED  BY <2>3 DEF o, r
<1>5. Answers(b, w, TRUE)
  BY <1>4, Zenon DEF Answers, x
<1> QED  BY <1>1, <1>2, <1>3, <1>5 DEF x, l

(* A damaged file is as long as the whole one, every read of it gives the  *)
(* record or fails, and what the damage spares is as it was written.       *)
LEMMA DamagedAnswers ==
  ASSUME NEW b, NEW w \in Seq(Encodables), NEW idx, IndexInv(idx, w), NEW i,
         DamagedFile(b, w, idx, i)
  PROVE  /\ b \in Seq(StoredCells) /\ Ends(w, Len(w)) <= Len(b)
         /\ Answers(b, w, FALSE)
         /\ i <= Ends(w, Len(w)) => IndexWritten(b, w, idx)
         /\ i \notin OffsetBytes(b) =>
              /\ Len(b) = (Ends(w, Len(w)) + Len(EncodeIndex(idx))) + FooterSize
              /\ Holds(b, Ends(w, Len(w)) + Len(EncodeIndex(idx)), ToBytes(Ends(w, Len(w)), OffSize))
<1> DEFINE x == Ends(w, Len(w))
           l == Len(EncodeIndex(idx))
           o == ToBytes(x, OffSize)
           e == EncodeIndex(idx)
<1>1. PICK g : /\ WholeFile(g, w, idx) /\ i \in DOMAIN g
               /\ \E n \in Bytes : Plain(n) # g[i] /\ b = [g EXCEPT ![i] = Plain(n)]
  BY DEF DamagedFile
<1>2. PICK n \in Bytes : b = [g EXCEPT ![i] = Plain(n)]
  BY <1>1
<1> DEFINE c == Plain(n)
<1>3. c \in PlainCells /\ c \in StoredCells
  BY DEF PlainCells, StoredCells
<1> HIDE DEF c
<1>4. /\ g \in Seq(StoredCells) /\ x <= Len(g) /\ x \in Nat /\ l \in Nat
      /\ Len(g) = (x + l) + FooterSize
  BY <1>1, WholeAnswers
<1>5. /\ b \in Seq(StoredCells) /\ Len(b) = Len(g)
      /\ \A p \in 1..Len(g) : b[p] = IF p = i THEN c ELSE g[p]
  BY <1>1, <1>2, <1>3, <1>4, ExceptSeq DEF c
<1>6. i \in 1..Len(g) /\ Len(g) \in Nat /\ i \in Nat
  BY <1>1, <1>4
<1>7. /\ Holds(g, x, e) /\ Holds(g, x + l, o)
      /\ \A j \in 1..Len(w) : Holds(g, Ends(w, j - 1), Encode(w[j]))
  BY <1>1 DEF WholeFile, IndexWritten
<1>8. OffSize \in Nat /\ OffSize > 0 /\ FooterSize \in Nat
  BY LayoutFacts
<1>9. o \in Seq(StoredCells) /\ Len(o) = OffSize /\ e \in Seq(StoredCells) /\ Len(e) = l
  <2>1. idx \in Seq(IndexEntries)
    BY DEF IndexInv
  <2>2. e \in Seq(StoredCells)
    BY <2>1, EncodeIndexIs
  <2>3. o \in Seq(PlainCells) /\ Len(o) = OffSize
    BY <1>4, <1>8, ToBytesType
  <2>4. o \in Seq(StoredCells)
    <3> HIDE DEF o
    <3> QED  BY <2>3, PlainIsStored
  <2> QED  BY <2>2, <2>3, <2>4
<1> HIDE DEF x, l, o, e
<1>10. NearRecords(b, w)
  <2>1. ASSUME NEW k \in 1..Len(w), NEW j \in 1..SizeOf(w[k])
        PROVE  \/ b[Ends(w, k - 1) + j] = Encode(w[k])[j]
               \/ b[Ends(w, k - 1) + j] \in PlainCells
    <3> DEFINE a == Ends(w, k - 1)
               t == Encode(w[k])
               p == a + j
    <3>1. a \in Nat /\ Len(t) = SizeOf(w[k]) /\ SizeOf(w[k]) \in Nat
      BY PlaceFacts
    <3>2. Holds(g, a, t)
      BY <1>7
    <3> HIDE DEF a, t
    <3>3. p \in 1..Len(g) /\ g[p] = t[j]
      <4>1. a + Len(t) <= Len(g) /\ j \in 1..Len(t)
        BY <3>1, <3>2 DEF Holds
      <4>2. g[a + j] = t[j]
        BY <3>2, <4>1 DEF Holds
      <4> QED  BY <1>6, <3>1, <4>1, <4>2
    <3>4. b[p] = IF p = i THEN c ELSE g[p]
      BY <1>5, <3>3
    <3>5. b[p] = t[j] \/ b[p] \in PlainCells
      BY <1>3, <3>3, <3>4, Zenon
    <3> QED  BY <3>5 DEF a, t
  <2>2. x <= Len(b)
    BY <1>4, <1>5
  <2> QED  BY <2>1, <2>2, Zenon DEF NearRecords, x
<1>11. Answers(b, w, FALSE)
  <2>1. \A k \in 1..Len(w) :
          \/ ReadRecordAt(b, Ends(w, Len(w)), Ends(w, k - 1)) = Right(w[k])
          \/ ReadRecordAt(b, Ends(w, Len(w)), Ends(w, k - 1)) = Invalid
    BY <1>5, <1>10, DamagedIsRead
  <2> QED  BY <2>1, Zenon DEF Answers
<1>12. ASSUME i \notin OffsetBytes(b)
       PROVE  Holds(b, x + l, o)
  <2>1. Len(b) - FooterSize = x + l
    BY <1>4, <1>5, <1>8
  <2>2. i <= x + l \/ (x + l) + OffSize < i
    BY <1>4, <1>6, <1>8, <1>12, <2>1 DEF OffsetBytes
  <2>3. x + l \in Nat
    BY <1>4
  <2>4. Holds([g EXCEPT ![i] = c], x + l, o)
    BY <1>1, <1>3, <1>4, <1>7, <1>9, <2>2, <2>3, HoldsExcept
  <2> QED  BY <1>2, <2>4 DEF c
<1>13. ASSUME i <= x
       PROVE  IndexWritten(b, w, idx)
  <2>1. i \notin OffsetBytes(b)
    BY <1>4, <1>5, <1>6, <1>8, <1>13 DEF OffsetBytes
  <2>2. Holds([g EXCEPT ![i] = c], x, e)
    BY <1>1, <1>3, <1>4, <1>7, <1>9, <1>13, HoldsExcept
  <2>3. Holds(b, x, e)
    BY <1>2, <2>2 DEF c
  <2>4. Len(b) = (x + l) + FooterSize
    BY <1>4, <1>5
  <2> QED  BY <1>12, <2>1, <2>3, <2>4 DEF IndexWritten, x, l, o, e
<1> QED  BY <1>4, <1>5, <1>11, <1>12, <1>13 DEF x, l, o

(* The offset of the index, and every offset in it, fits in its OffSize    *)
(* bytes. The code's are 64-bit numbers of its own, of which no file runs  *)
(* out.                                                                    *)
OffsetsFit == EndOf(Len(written)) < Capacity(OffSize)

LEMMA RunsReadings ==
  /\ \A n : EndOf(n) = Ends(written, n)
  /\ \A k : Expected(k) = ExpectedIn(written, k)
  /\ \A k \in KeyBytes : k \in Seq(Nat)
<1>1. \A n : EndOf(n) = Ends(written, n)
  BY DEF EndOf, Ends
<1>2. \A k : Expected(k) = ExpectedIn(written, k)
  BY DEF Expected, ExpectedIn
<1>3. ASSUME NEW k \in KeyBytes PROVE k \in Seq(Nat)
  <2>1. k \in Seq(Bytes)
    BY FormatAssumption
  <2>2. Bytes \subseteq Nat
    BY BaseFacts
  <2> DEFINE n == Len(k)
  <2>3. k \in [1..n -> Bytes] /\ n \in Nat
    BY <2>1
  <2> HIDE DEF n
  <2>4. k \in [1..n -> Nat] /\ n \in Nat
    BY <2>2, <2>3
  <2> QED  BY <2>4
<1> QED  BY <1>1, <1>2, <1>3

(* A whole file reads back.                                                *)
LEMMA FinishedIsRead ==
  ASSUME SegInv, OffsetsFit
  PROVE  FinishedReadsBack
<1> SUFFICES ASSUME phase = "finished"
             PROVE  /\ Open(bytes).ok
                    /\ IterAll(bytes) = [ok |-> TRUE, records |-> written]
                    /\ \A k \in KeyBytes : Get(bytes, k) = Expected(k)
  BY DEF FinishedReadsBack
<1> DEFINE x == Ends(written, Len(written))
<1>1. /\ written \in Seq(Encodables) /\ Sorted(written) /\ IndexInv(sparseIndex, written)
      /\ WholeFile(bytes, written, sparseIndex)
  BY DEF SegInv
<1>2. x < Capacity(OffSize)
  BY RunsReadings DEF OffsetsFit
<1>3. Open(bytes) = Opened(sparseIndex, x)
  BY <1>1, <1>2, WholeFileOpens
<1>4. bytes \in Seq(StoredCells) /\ x <= Len(bytes) /\ Answers(bytes, written, TRUE)
  BY <1>1, WholeAnswers
<1>5. Open(bytes).ok /\ Open(bytes).indexOffset = x
  BY <1>3 DEF Opened
<1>6. IterAll(bytes) = [ok |-> TRUE, records |-> written]
  <2>1. \/ Got(IterAll(bytes), [ok |-> TRUE, records |-> written], TRUE)
        \/ ~Open(bytes).ok /\ IterAll(bytes) = Invalid
    BY <1>1, <1>4, <1>5, IterAllIs
  <2> QED  BY <1>5, <2>1 DEF Got
<1>7. ASSUME NEW k \in KeyBytes PROVE Get(bytes, k) = Expected(k)
  <2>1. k \in Seq(Nat)
    BY RunsReadings
  <2>2. Got(Get(bytes, k), ExpectedIn(written, k), TRUE)
    BY <1>1, <1>3, <1>4, <2>1, GetIs
  <2> QED  BY <2>2, RunsReadings DEF Got
<1> QED  BY <1>5, <1>6, <1>7

(* Damage before the index: the index opens as it was, and get searches    *)
(* records of which every read is right or fails.                          *)
LEMMA RecordDamageIsRead ==
  ASSUME SegInv, OffsetsFit
  PROVE  RecordDamageIsNoticed
<1> SUFFICES ASSUME phase = "damaged", hit <= EndOf(Len(written)), NEW k \in KeyBytes
             PROVE  Get(bytes, k) \in {Invalid, Expected(k)}
  BY DEF RecordDamageIsNoticed
<1> DEFINE x == Ends(written, Len(written))
<1>1. /\ written \in Seq(Encodables) /\ Sorted(written) /\ IndexInv(sparseIndex, written)
      /\ DamagedFile(bytes, written, sparseIndex, hit)
  BY DEF SegInv
<1>2. x < Capacity(OffSize) /\ hit <= x
  BY RunsReadings DEF OffsetsFit
<1>3. /\ bytes \in Seq(StoredCells) /\ x <= Len(bytes) /\ Answers(bytes, written, FALSE)
      /\ IndexWritten(bytes, written, sparseIndex)
  BY <1>1, <1>2, DamagedAnswers
<1>4. Open(bytes) = Invalid \/ Open(bytes) = Opened(sparseIndex, x)
  BY <1>1, <1>2, <1>3, IndexIsOpened
<1>5. k \in Seq(Nat) /\ Expected(k) = ExpectedIn(written, k)
  BY RunsReadings
<1>6. CASE Open(bytes) = Invalid
  <2>1. ~Open(bytes).ok
    BY <1>6 DEF Invalid
  <2> QED  BY <2>1 DEF Get
<1>7. CASE Open(bytes) = Opened(sparseIndex, x)
  <2>1. Got(Get(bytes, k), ExpectedIn(written, k), FALSE)
    BY <1>1, <1>3, <1>5, <1>7, GetIs
  <2> QED  BY <1>5, <2>1 DEF Got
<1> QED  BY <1>4, <1>6, <1>7

(* Damage that spares the offset of the index: iter_all ends where the     *)
(* records do.                                                             *)
LEMMA DamageIsRead ==
  ASSUME SegInv, OffsetsFit
  PROVE  DamageNeverMisleadsCompaction
<1> SUFFICES ASSUME phase = "damaged", hit \notin OffsetBytes(bytes)
             PROVE  IterAll(bytes) \in {Invalid, [ok |-> TRUE, records |-> written]}
  BY DEF DamageNeverMisleadsCompaction
<1> DEFINE x == Ends(written, Len(written))
           n == x + Len(EncodeIndex(sparseIndex))
<1>1. /\ written \in Seq(Encodables) /\ IndexInv(sparseIndex, written)
      /\ DamagedFile(bytes, written, sparseIndex, hit)
  BY DEF SegInv
<1>2. x < Capacity(OffSize)
  BY RunsReadings DEF OffsetsFit
<1>3. /\ bytes \in Seq(StoredCells) /\ x <= Len(bytes) /\ Answers(bytes, written, FALSE)
      /\ Len(bytes) = n + FooterSize /\ Holds(bytes, n, ToBytes(x, OffSize))
  BY <1>1, DamagedAnswers
<1>4. OpenOffset(bytes) = x
  <2>1. n \in Nat /\ x \in Nat
    <3>1. Len(written) \in Nat /\ Len(written) \in 0..Len(written)
      BY <1>1
    <3>2. sparseIndex \in Seq(IndexEntries)
      BY <1>1 DEF IndexInv
    <3> QED  BY <1>1, <3>1, <3>2, EndsGrow, EncodeIndexIs
  <2> HIDE DEF x, n
  <2> QED  BY <1>2, <1>3, <2>1, OffsetIsRead
<1>5. Open(bytes).ok => Open(bytes).indexOffset = x
  <2> DEFINE e == ReadEntries(bytes, OpenOffset(bytes), Len(bytes) - FooterSize).entries
  <2>1. Open(bytes) = IF OpenChecks(bytes)
                      THEN [ok |-> TRUE, index |-> e, indexOffset |-> OpenOffset(bytes)]
                      ELSE Invalid
    BY OpenIs
  <2> HIDE DEF e, x
  <2> QED  BY <1>4, <2>1 DEF Invalid
<1>6. \/ Got(IterAll(bytes), [ok |-> TRUE, records |-> written], FALSE)
      \/ ~Open(bytes).ok /\ IterAll(bytes) = Invalid
  BY <1>1, <1>3, <1>5, IterAllIs
<1> QED  BY <1>6 DEF Got

(* A finished segment opens, iter_all returns the records that were given  *)
(* to write_all, and get the one of the key, for every key there is: the   *)
(* sparse index leads every search to a place behind which the key lies.   *)
THEOREM SegmentsReadBack == Spec /\ []OffsetsFit => []FinishedReadsBack
<1>1. SegInv /\ OffsetsFit => FinishedReadsBack
  BY FinishedIsRead
<1> QED  BY <1>1, SegInvariant, PTL

(* Whatever byte of the header and the records changes, get answers right  *)
(* or with an error.                                                       *)
THEOREM RecordDamageIsFound == Spec /\ []OffsetsFit => []RecordDamageIsNoticed
<1>1. SegInv /\ OffsetsFit => RecordDamageIsNoticed
  BY RecordDamageIsRead
<1> QED  BY <1>1, SegInvariant, PTL

(* Whatever byte changes of a segment but those of the footer's offset,    *)
(* iter_all returns the segment's records or an error, so that a           *)
(* compaction drops none of them. No checksum covers the offset: see       *)
(* FooterIsChecked.                                                        *)
THEOREM CompactionIsNotMisled == Spec /\ []OffsetsFit => []DamageNeverMisleadsCompaction
<1>1. SegInv /\ OffsetsFit => DamageNeverMisleadsCompaction
  BY DamageIsRead
<1> QED  BY <1>1, SegInvariant, PTL

(***************************************************************************)
(* The writer implements that of SegmentFile                               *)
(***************************************************************************)

(* Ranks are in the order of the keys.                                     *)
LEMMA RankOrder ==
  ASSUME IsFiniteSet(KeyBytes)
  PROVE  /\ \A k \in KeyBytes : Rank(k) \in Nat
         /\ \A a, b \in KeyBytes : Less(a, b) => Rank(a) < Rank(b)
<1> DEFINE B(k) == {x \in KeyBytes : Less(x, k)}
<1>1. \A k : IsFiniteSet(B(k)) /\ Cardinality(B(k)) \in Nat
  <2> SUFFICES ASSUME NEW k PROVE IsFiniteSet(B(k)) /\ Cardinality(B(k)) \in Nat
    OBVIOUS
  <2>1. B(k) \subseteq KeyBytes
    OBVIOUS
  <2> HIDE DEF B
  <2>2. IsFiniteSet(B(k))
    BY <2>1, FS_Subset
  <2> QED  BY <2>2, FS_CardinalityType
<1>2. \A k : Rank(k) = Cardinality(B(k))
  BY DEF Rank
<1>3. ASSUME NEW a \in KeyBytes, NEW b \in KeyBytes, Less(a, b)
      PROVE  B(a) \subseteq B(b) /\ B(a) # B(b)
  <2>1. \A k \in KeyBytes : k \in Seq(Nat)
    BY RunsReadings
  <2>2. ASSUME NEW x \in B(a) PROVE x \in B(b)
    <3>1. x \in KeyBytes /\ Less(x, a)
      OBVIOUS
    <3>2. Less(x, b)
      BY <1>3, <2>1, <3>1, LessTransitive
    <3> QED  BY <3>1, <3>2
  <2>3. a \in B(b) /\ a \notin B(a)
    <3>1. ~Less(a, a)
      BY <2>1, LessIrreflexive
    <3> QED  BY <1>3, <3>1
  <2> QED  BY <2>2, <2>3
<1> HIDE DEF B
<1>4. ASSUME NEW a \in KeyBytes, NEW b \in KeyBytes, Less(a, b) PROVE Rank(a) < Rank(b)
  <2>1. B(a) \subseteq B(b) /\ B(a) # B(b)
    BY <1>3, <1>4
  <2>2. Cardinality(B(a)) <= Cardinality(B(b)) /\ Cardinality(B(a)) # Cardinality(B(b))
    BY <1>1, <2>1, FS_Subset
  <2> QED  BY <1>1, <1>2, <2>2
<1> QED  BY <1>1, <1>2, <1>4

(* A segment as records, and its index.                                    *)
AsRecord(w, i) ==
  [key |-> Rank(w[i].key), cell |-> Cell(w[i]), at |-> Ends(w, i - 1), size |-> Len(Encode(w[i]))]
AsRecords(w) == [i \in DOMAIN w |-> AsRecord(w, i)]
AsIndex(idx) == [i \in DOMAIN idx |-> [key |-> Rank(idx[i].key), at |-> idx[i].at]]

LEMMA LastAdded ==
  ASSUME NEW T, NEW n \in Nat, NEW a \in [1..n -> T], NEW c \in [1..(n + 1) -> T], NEW e \in T,
         \A i \in 1..n : c[i] = a[i], c[n + 1] = e
  PROVE  c = Append(a, e)
<1>1. a \in Seq(T) /\ Len(a) = n
  OBVIOUS
<1>2. c \in Seq(T) /\ Len(c) = n + 1
  OBVIOUS
<1> DEFINE d == Append(a, e)
<1>3. d \in Seq(T) /\ Len(d) = n + 1 /\ (\A i \in 1..n : d[i] = a[i]) /\ d[n + 1] = e
  BY <1>1
<1> HIDE DEF d
<1>4. \A i \in 1..(n + 1) : c[i] = d[i]
  <2> SUFFICES ASSUME NEW i \in 1..(n + 1) PROVE c[i] = d[i]
    OBVIOUS
  <2>1. CASE i = n + 1
    BY <1>3, <2>1
  <2>2. CASE i # n + 1
    <3>1. i \in 1..n
      BY <2>2
    <3> QED  BY <1>3, <3>1
  <2> QED  BY <2>1, <2>2
<1>5. c = d
  BY <1>2, <1>3, <1>4, SeqEqual
<1> QED  BY <1>5 DEF d

LEMMA AppendMapped ==
  ASSUME NEW w \in Seq(Encodables), NEW r \in Encodables
  PROVE  AsRecords(Append(w, r)) =
           Append(AsRecords(w), [key |-> Rank(r.key), cell |-> Cell(r),
                                 at |-> Ends(w, Len(w)), size |-> Len(Encode(r))])
<1> DEFINE v == Append(w, r)
           n == Len(w)
           e == [key |-> Rank(r.key), cell |-> Cell(r), at |-> Ends(w, n), size |-> Len(Encode(r))]
           a == AsRecords(w)
           c == AsRecords(v)
           T == {AsRecord(v, i) : i \in 1..(n + 1)}
<1>1. /\ v \in Seq(Encodables) /\ Len(v) = n + 1 /\ n \in Nat
      /\ \A i \in 1..n : v[i] = w[i]
      /\ v[n + 1] = r
      /\ DOMAIN v = 1..(n + 1) /\ DOMAIN w = 1..n
  OBVIOUS
<1>2. \A i \in 0..n : Ends(v, i) = Ends(w, i)
  BY EndsAppend
<1> HIDE DEF v, n
<1>3. \A i \in 1..n : AsRecord(v, i) = AsRecord(w, i)
  <2> SUFFICES ASSUME NEW i \in 1..n PROVE AsRecord(v, i) = AsRecord(w, i)
    OBVIOUS
  <2>1. i - 1 \in 0..n
    BY <1>1
  <2> QED  BY <1>1, <1>2, <2>1 DEF AsRecord
<1>4. AsRecord(v, n + 1) = e
  <2>1. (n + 1) - 1 = n /\ n \in 0..n
    BY <1>1
  <2> QED  BY <1>1, <1>2, <2>1 DEF AsRecord
<1> HIDE DEF e
<1>5. c = [i \in 1..(n + 1) |-> AsRecord(v, i)] /\ c \in [1..(n + 1) -> T]
  BY <1>1 DEF AsRecords
<1>6. a = [i \in 1..n |-> AsRecord(v, i)] /\ a \in [1..n -> T] /\ e \in T
  <2>1. a = [i \in 1..n |-> AsRecord(w, i)]
    BY <1>1 DEF AsRecords
  <2>2. n + 1 \in 1..(n + 1) /\ \A i \in 1..n : i \in 1..(n + 1)
    BY <1>1
  <2> QED  BY <1>3, <1>4, <2>1, <2>2
<1>7. (\A i \in 1..n : c[i] = a[i]) /\ c[n + 1] = e
  <2>1. n + 1 \in 1..(n + 1) /\ \A i \in 1..n : i \in 1..(n + 1)
    BY <1>1
  <2> HIDE DEF a, c
  <2> QED  BY <1>4, <1>5, <1>6, <2>1
<1> HIDE DEF a, c, T
<1>8. c = Append(a, e)
  BY <1>1, <1>5, <1>6, <1>7, LastAdded
<1> QED  BY <1>8 DEF c, a, e, v, n

LEMMA AppendIndexMapped ==
  ASSUME NEW idx \in Seq(IndexEntries), NEW e \in IndexEntries
  PROVE  AsIndex(Append(idx, e)) = Append(AsIndex(idx), [key |-> Rank(e.key), at |-> e.at])
<1> DEFINE jdx == Append(idx, e)
           n == Len(idx)
           M(x) == [key |-> Rank(x.key), at |-> x.at]
           a == AsIndex(idx)
           c == AsIndex(jdx)
           T == {M(x) : x \in IndexEntries}
<1>1. /\ jdx \in Seq(IndexEntries) /\ Len(jdx) = n + 1 /\ n \in Nat
      /\ \A i \in 1..n : jdx[i] = idx[i] /\ idx[i] \in IndexEntries
      /\ jdx[n + 1] = e
      /\ DOMAIN jdx = 1..(n + 1) /\ DOMAIN idx = 1..n
  OBVIOUS
<1> HIDE DEF jdx, n
<1>2. c = [i \in 1..(n + 1) |-> M(jdx[i])]
  BY <1>1 DEF AsIndex
<1>3. a = [i \in 1..n |-> M(idx[i])]
  BY <1>1 DEF AsIndex
<1> HIDE DEF M
<1>4. a \in [1..n -> T] /\ M(e) \in T
  BY <1>1, <1>3
<1>5. c \in [1..(n + 1) -> T]
  <2> SUFFICES ASSUME NEW i \in 1..(n + 1) PROVE jdx[i] \in IndexEntries
    BY <1>2
  <2> QED  BY <1>1, ElementOfSeq
<1>6. (\A i \in 1..n : c[i] = a[i]) /\ c[n + 1] = M(e)
  <2>1. n + 1 \in 1..(n + 1) /\ \A i \in 1..n : i \in 1..(n + 1)
    BY <1>1
  <2> HIDE DEF a, c
  <2> QED  BY <1>1, <1>2, <1>3, <2>1
<1> HIDE DEF a, c, T
<1>7. c = Append(a, M(e))
  BY <1>1, <1>4, <1>5, <1>6, LastAdded
<1> QED  BY <1>7 DEF c, a, M, jdx, n

(* The refinement mapping in these terms.                                  *)
LEMMA MappingIs ==
  /\ AsRecords(written) = [i \in DOMAIN written |->
                             [key |-> Rank(written[i].key), cell |-> Cell(written[i]),
                              at |-> EndOf(i - 1), size |-> Len(Encode(written[i]))]]
  /\ AsIndex(sparseIndex) = [i \in DOMAIN sparseIndex |->
                               [key |-> Rank(sparseIndex[i].key), at |-> sparseIndex[i].at]]
  /\ EndOf(Len(written)) = Ends(written, Len(written))
<1>1. \A n : EndOf(n) = Ends(written, n)
  BY RunsReadings
<1> QED  BY <1>1 DEF AsRecords, AsRecord, AsIndex

LEMMA MappingNext ==
  /\ AsRecords(written') = [i \in DOMAIN written |->
                              [key |-> Rank(written[i].key), cell |-> Cell(written[i]),
                               at |-> EndOf(i - 1), size |-> Len(Encode(written[i]))]]'
  /\ AsIndex(sparseIndex') = [i \in DOMAIN sparseIndex |->
                                [key |-> Rank(sparseIndex[i].key), at |-> sparseIndex[i].at]]'
  /\ EndOf(Len(written))' = Ends(written', Len(written'))
<1>1. (\A n : EndOf(n) = Ends(written, n))'
  BY RunsReadings, PTL
<1> QED  BY <1>1 DEF AsRecords, AsRecord, AsIndex

(* What the mapping makes of the records changes with them only.           *)
LEMMA SameFile ==
  ASSUME written' = written, sparseIndex' = sparseIndex
  PROVE  /\ [i \in DOMAIN written |->
               [key |-> Rank(written[i].key), cell |-> Cell(written[i]),
                at |-> EndOf(i - 1), size |-> Len(Encode(written[i]))]]'
            = [i \in DOMAIN written |->
                 [key |-> Rank(written[i].key), cell |-> Cell(written[i]),
                  at |-> EndOf(i - 1), size |-> Len(Encode(written[i]))]]
         /\ [i \in DOMAIN sparseIndex |->
               [key |-> Rank(sparseIndex[i].key), at |-> sparseIndex[i].at]]'
            = [i \in DOMAIN sparseIndex |->
                 [key |-> Rank(sparseIndex[i].key), at |-> sparseIndex[i].at]]
         /\ EndOf(Len(written))' = EndOf(Len(written))
<1> DEFINE R == AsRecords(written)
           X == AsIndex(sparseIndex)
           o == Ends(written, Len(written))
<1>1. R' = R /\ X' = X /\ o' = o
  OBVIOUS
<1>2. /\ R = [i \in DOMAIN written |->
                [key |-> Rank(written[i].key), cell |-> Cell(written[i]),
                 at |-> EndOf(i - 1), size |-> Len(Encode(written[i]))]]
      /\ X = [i \in DOMAIN sparseIndex |->
                [key |-> Rank(sparseIndex[i].key), at |-> sparseIndex[i].at]]
      /\ EndOf(Len(written)) = o
  BY MappingIs
<1>3. /\ R' = [i \in DOMAIN written |->
                 [key |-> Rank(written[i].key), cell |-> Cell(written[i]),
                  at |-> EndOf(i - 1), size |-> Len(Encode(written[i]))]]'
      /\ X' = [i \in DOMAIN sparseIndex |->
                 [key |-> Rank(sparseIndex[i].key), at |-> sparseIndex[i].at]]'
      /\ EndOf(Len(written))' = o'
  BY MappingNext
<1> HIDE DEF R, X, o
<1> QED  BY <1>1, <1>2, <1>3

(* The file without records is that of SegmentFile.                        *)
LEMMA InitMapped == Init => SF!Init
<1> SUFFICES ASSUME Init PROVE SF!Init
  OBVIOUS
<1>1. written = <<>> /\ sparseIndex = <<>> /\ phase = "writing"
  BY DEF Init
<1>2. AsRecords(written) = <<>> /\ AsIndex(sparseIndex) = <<>>
  BY <1>1 DEF AsRecords, AsIndex
<1>3. EndOf(Len(written)) = HeaderSize
  <2>1. <<>> \in Seq(Encodables) /\ Len(<<>>) = 0
    OBVIOUS
  <2> QED  BY <1>1, <2>1, EndsAre, MappingIs
<1> QED  BY <1>1, <1>2, <1>3, MappingIs DEF SF!Init

LEMMA WriteRecordMapped ==
  ASSUME IsFiniteSet(KeyBytes), SegInv, NEW r \in DataRecords, WriteRecord(r)
  PROVE  SF!WriteRecord(Rank(r.key), Cell(r), Len(Encode(r)))
<1> DEFINE R == AsRecords(written)
           X == AsIndex(sparseIndex)
           o == Ends(written, Len(written))
           n == Len(written)
<1>1. /\ written \in Seq(Encodables) /\ IndexInv(sparseIndex, written)
      /\ phase = "writing" /\ Len(bytes) = o
  BY DEF SegInv, WriteRecord, GrowingFile
<1>2. /\ written # <<>> => Less(Last(written).key, r.key)
      /\ written' = Append(written, r) /\ phase' = phase
      /\ sparseIndex' = IF n % Interval = 0
                        THEN Append(sparseIndex, [key |-> r.key, at |-> o])
                        ELSE sparseIndex
  BY <1>1 DEF WriteRecord, Ordered
<1>3. r \in Encodables
  BY DEF WriteRecord, Encodables
<1>4. DOMAIN R = 1..n /\ n \in Nat /\ Len(R) = n
  <2>1. R = [i \in 1..n |-> AsRecord(written, i)] /\ n \in Nat
    BY <1>1 DEF AsRecords
  <2> HIDE DEF R, n
  <2> QED  BY <2>1
<1>5. R # <<>> => R[Len(R)].key < Rank(r.key)
  <2> SUFFICES ASSUME R # <<>> PROVE R[n].key < Rank(r.key)
    BY <1>4
  <2>1. n \in 1..n /\ written # <<>> /\ Last(written) = written[n]
    <3>1. n # 0
      <4>1. R = [i \in 1..n |-> AsRecord(written, i)]
        BY <1>4 DEF AsRecords
      <4> QED  BY <4>1
    <3> QED  BY <1>1, <1>4, <3>1 DEF Last
  <2>2. R[n].key = Rank(written[n].key)
    <3>1. R[n] = AsRecord(written, n)
      BY <1>1, <2>1 DEF AsRecords
    <3> QED  BY <3>1 DEF AsRecord
  <2>3. Less(written[n].key, r.key)
    BY <1>2, <2>1
  <2>4. written[n].key \in KeyBytes /\ r.key \in KeyBytes
    <3>1. written[n] \in Encodables
      BY <1>1, <2>1, ElementOfSeq
    <3>2. written[n] \in DataRecords
      BY <3>1 DEF Encodables
    <3> QED  BY <3>2 DEF DataRecords
  <2> QED  BY <2>2, <2>3, <2>4, RankOrder
<1>6. R' = Append(R, [key |-> Rank(r.key), cell |-> Cell(r), at |-> o, size |-> Len(Encode(r))])
  BY <1>1, <1>2, <1>3, AppendMapped
<1>7. Ends(written', Len(written')) = o + Len(Encode(r))
  <2>1. Len(Encode(r)) = SizeOf(r)
    BY EncodeIs
  <2> QED  BY <1>1, <1>2, <1>3, <2>1, EndsAppend
<1>8. X' = IF n % Interval = 0
           THEN Append(X, [key |-> Rank(r.key), at |-> o])
           ELSE X
  <2>1. CASE n % Interval = 0
    <3> DEFINE e == [key |-> r.key, at |-> o]
    <3>1. sparseIndex \in Seq(IndexEntries)
      BY <1>1 DEF IndexInv
    <3>2. e \in IndexEntries
      BY <1>1, <1>3, NewEntry
    <3>3. e.key = r.key /\ e.at = o
      OBVIOUS
    <3>4. sparseIndex' = Append(sparseIndex, e)
      BY <1>2, <2>1
    <3> HIDE DEF e
    <3>5. AsIndex(sparseIndex') = Append(AsIndex(sparseIndex), [key |-> Rank(e.key), at |-> e.at])
      BY <3>1, <3>2, <3>4, AppendIndexMapped
    <3> QED  BY <2>1, <3>3, <3>5
  <2>2. CASE n % Interval # 0
    <3>1. sparseIndex' = sparseIndex
      BY <1>2, <2>2
    <3> QED  BY <2>2, <3>1
  <2> QED  BY <2>1, <2>2
<1>9. /\ R = [i \in DOMAIN written |->
                [key |-> Rank(written[i].key), cell |-> Cell(written[i]),
                 at |-> EndOf(i - 1), size |-> Len(Encode(written[i]))]]
      /\ X = [i \in DOMAIN sparseIndex |->
                [key |-> Rank(sparseIndex[i].key), at |-> sparseIndex[i].at]]
      /\ EndOf(Len(written)) = o
  BY MappingIs
<1>10. /\ R' = [i \in DOMAIN written |->
                  [key |-> Rank(written[i].key), cell |-> Cell(written[i]),
                   at |-> EndOf(i - 1), size |-> Len(Encode(written[i]))]]'
       /\ X' = [i \in DOMAIN sparseIndex |->
                  [key |-> Rank(sparseIndex[i].key), at |-> sparseIndex[i].at]]'
       /\ EndOf(Len(written))' = Ends(written', Len(written'))
  BY MappingNext
<1>11. (IF phase = "damaged" THEN "finished" ELSE phase) = "writing"
       /\ (IF phase = "damaged" THEN "finished" ELSE phase)' = "writing"
  BY <1>1, <1>2
<1> DEFINE e == Len(Encode(r))
           k == Rank(r.key)
           c == Cell(r)
<1> HIDE DEF R, X, o, e, k, c
<1>12. SF!Ordered(k)
  BY <1>5, <1>9 DEF SF!Ordered, k
<1>13. SF!Indexed <=> n % Interval = 0
  BY <1>4, <1>9 DEF SF!Indexed
<1> HIDE DEF n
<1>14. SF!WriteRecord(k, c, e)
  BY <1>6, <1>7, <1>8, <1>9, <1>10, <1>11, <1>12, <1>13 DEF SF!WriteRecord, k, c, e
<1> QED  BY <1>14 DEF k, c, e

(* Each step of the writer is one of SegmentFile; damage is none.          *)
LEMMA StepMapped ==
  ASSUME IsFiniteSet(KeyBytes), SegInv, [Next]_vars
  PROVE  [SF!Next]_SF!vars
<1>1. ASSUME UNCHANGED vars PROVE UNCHANGED SF!vars
  <2>1. written' = written /\ sparseIndex' = sparseIndex /\ phase' = phase
    BY <1>1 DEF vars
  <2> QED  BY <2>1, SameFile DEF SF!vars
<1>2. ASSUME NEW r \in DataRecords, WriteRecord(r) PROVE SF!Next
  <2>1. SF!WriteRecord(Rank(r.key), Cell(r), Len(Encode(r)))
    BY <1>2, WriteRecordMapped
  <2>2. Rank(r.key) \in {Rank(k) : k \in KeyBytes}
    <3>1. r.key \in KeyBytes
      BY DEF DataRecords
    <3> QED  BY <3>1
  <2>3. Cell(r) \in {Cell(q) : q \in DataRecords}
        /\ Len(Encode(r)) \in {Len(Encode(q)) : q \in DataRecords}
    OBVIOUS
  <2> QED  BY <2>1, <2>2, <2>3, Zenon DEF SF!Next
<1>3. ASSUME NEW r \in DataRecords, RefuseRecord(r) PROVE SF!Next
  <2>1. written' = written /\ sparseIndex' = sparseIndex /\ phase = "writing" /\ phase' = "failed"
    BY <1>3 DEF RefuseRecord
  <2>2. SF!Fail
    BY <2>1, SameFile DEF SF!Fail
  <2> QED  BY <2>2, Zenon DEF SF!Next
<1>4. ASSUME Finish PROVE SF!Next
  <2>1. written' = written /\ sparseIndex' = sparseIndex /\ phase = "writing" /\ phase' = "finished"
    BY <1>4 DEF Finish
  <2>2. SF!Finish
    BY <2>1, SameFile DEF SF!Finish
  <2> QED  BY <2>2, Zenon DEF SF!Next
<1>5. ASSUME Damage PROVE UNCHANGED SF!vars
  <2>1. written' = written /\ sparseIndex' = sparseIndex /\ phase = "finished" /\ phase' = "damaged"
    BY <1>5 DEF Damage
  <2> QED  BY <2>1, SameFile DEF SF!vars
<1> QED  BY <1>1, <1>2, <1>3, <1>4, <1>5 DEF Next

(* Every step of the writer, byte by byte, is one of SegmentFile's writer, *)
(* whose theorems so hold of the bytes: keys rise, records lie end to end. *)
THEOREM ImplementsSegments ==
  ASSUME IsFiniteSet(KeyBytes)
  PROVE  Spec => ImplementsSegmentFile
<1>1. SegInv /\ [Next]_vars => [SF!Next]_SF!vars
  BY StepMapped
<1> QED  BY <1>1, InitMapped, SegInvariant, PTL DEF Spec, ImplementsSegmentFile, SF!Spec

===============================================================================
