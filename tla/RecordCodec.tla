----------------------------- MODULE RecordCodec ------------------------------
(***************************************************************************)
(* Record::encode and Record::decode of src/src/record.rs, byte by byte.   *)
(* The log and the segments hold records in this form.                     *)
(***************************************************************************)
EXTENDS Integers, SequencesExt

CONSTANTS
  KeyBytes,      \* the keys, as sequences of bytes
  ValBytes,      \* the values, as sequences of bytes
  Base,          \* a byte is a number below Base
  LenSize,       \* U32_SIZE: bytes of a length field
  CrcSize,       \* CRC_SIZE: bytes of a checksum
  MaxFieldLen,   \* MAX_FIELD_LEN
  CrcByte        \* what a byte of a checksum reads as, where it is not one

Bytes == 0..(Base - 1)

(* How many numbers some bytes can tell apart.                             *)
Capacity(size) ==
  LET power[i \in 0..size] == IF i = 0 THEN 1 ELSE Base * power[i - 1]
  IN power[size]

ASSUME FormatAssumption ==
  /\ Base \in Nat /\ Base > 1
  /\ LenSize \in Nat \ {0}
  /\ CrcSize \in Nat \ {0}
  /\ MaxFieldLen \in Nat /\ MaxFieldLen < Capacity(LenSize)
  /\ CrcByte \in Bytes
  /\ KeyBytes \cup ValBytes \subseteq Seq(Bytes)

-----------------------------------------------------------------------------
(* Record::encode *)

DataRecords ==
  [op : {"set"}, key : KeyBytes, val : ValBytes]
    \cup [op : {"delete"}, key : KeyBytes, val : {<<>>}]

OpByte(op) == IF op = "set" THEN 0 ELSE 1

(* A stored byte: its number, and the content it is a checksum of, if any. *)
(* Checksums of different contents differ: the CRC is taken to be ideal.   *)
Plain(n) == [num |-> n, of |-> <<>>, part |-> 0]

(* The checksum leaves the operation byte out.                             *)
Checksum_bug(content) ==
  [i \in 1..CrcSize |-> [num |-> CrcByte, of |-> Tail(content), part |-> i]]

Checksum(content) ==
  [i \in 1..CrcSize |-> [num |-> CrcByte, of |-> content, part |-> i]]

PlainSeq(s) == [i \in DOMAIN s |-> Plain(s[i])]
Numbers(cells) == [i \in DOMAIN cells |-> cells[i].num]

(* Little-endian numbers: the lowest digit comes first.                    *)
ToBytes(n, size) ==
  LET rest[i \in 0..size] == IF i = 0 THEN n ELSE rest[i - 1] \div Base
  IN [i \in 1..size |-> Plain(rest[i - 1] % Base)]
FromBytes(cells) ==
  LET value[i \in 0..Len(cells)] ==
        IF i = Len(cells) THEN 0 ELSE cells[i + 1].num + Base * value[i + 1]
  IN value[0]

(* encode refuses a field that decode would not accept.                    *)
Encodable(r) == Len(r.key) <= MaxFieldLen /\ Len(r.val) <= MaxFieldLen

Encode(r) ==
  LET body == <<Plain(OpByte(r.op))>>
                \o ToBytes(Len(r.key), LenSize) \o PlainSeq(r.key)
                \o ToBytes(Len(r.val), LenSize) \o PlainSeq(r.val)
  IN body \o Checksum(body)

-----------------------------------------------------------------------------
(* Record::decode *)

Truncated == [kind |-> "truncated"]
Corrupt == [kind |-> "corrupt"]

(* A file that ends inside a length field is called corrupt.               *)
Decode_bug(b) ==
  LET keyStart == 1 + LenSize
      keyLen   == FromBytes(SubSeq(b, 2, keyStart))
      keyEnd   == keyStart + keyLen
      valStart == keyEnd + LenSize
      valLen   == FromBytes(SubSeq(b, keyEnd + 1, valStart))
      valEnd   == valStart + valLen
      end      == valEnd + CrcSize
  IN IF b = <<>> THEN Truncated
     ELSE IF b[1].num \notin {0, 1} THEN Corrupt
     ELSE IF Len(b) < keyStart THEN Corrupt
     ELSE IF keyLen > MaxFieldLen THEN Corrupt
     ELSE IF Len(b) < valStart THEN Corrupt
     ELSE IF valLen > MaxFieldLen THEN Corrupt
     ELSE IF Len(b) < end THEN Truncated
     ELSE IF b[1].num = 1 /\ valLen # 0 THEN Corrupt
     ELSE IF SubSeq(b, valEnd + 1, end) # Checksum(SubSeq(b, 1, valEnd)) THEN Corrupt
     ELSE [kind |-> "ok", size |-> end,
           record |-> [op  |-> IF b[1].num = 0 THEN "set" ELSE "delete",
                       key |-> Numbers(SubSeq(b, keyStart + 1, keyEnd)),
                       val |-> Numbers(SubSeq(b, valStart + 1, valEnd))]]

(* The record at the front of some bytes, and its size; or the early       *)
(* return that decode makes, in the order of its checks.                   *)
Decode(b) ==
  LET keyStart == 1 + LenSize
      keyLen   == FromBytes(SubSeq(b, 2, keyStart))
      keyEnd   == keyStart + keyLen
      valStart == keyEnd + LenSize
      valLen   == FromBytes(SubSeq(b, keyEnd + 1, valStart))
      valEnd   == valStart + valLen
      end      == valEnd + CrcSize
  IN IF b = <<>> THEN Truncated
     ELSE IF b[1].num \notin {0, 1} THEN Corrupt
     ELSE IF Len(b) < keyStart THEN Truncated
     ELSE IF keyLen > MaxFieldLen THEN Corrupt
     ELSE IF Len(b) < valStart THEN Truncated
     ELSE IF valLen > MaxFieldLen THEN Corrupt
     ELSE IF Len(b) < end THEN Truncated
     ELSE IF b[1].num = 1 /\ valLen # 0 THEN Corrupt
     ELSE IF SubSeq(b, valEnd + 1, end) # Checksum(SubSeq(b, 1, valEnd)) THEN Corrupt
     ELSE [kind |-> "ok", size |-> end,
           record |-> [op  |-> IF b[1].num = 0 THEN "set" ELSE "delete",
                       key |-> Numbers(SubSeq(b, keyStart + 1, keyEnd)),
                       val |-> Numbers(SubSeq(b, valStart + 1, valEnd))]]

=============================================================================
