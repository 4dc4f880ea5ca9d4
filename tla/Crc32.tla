--------------------------------- MODULE Crc32 ---------------------------------
(***************************************************************************)
(* The checksum of src/src/crc32.rs, bit by bit. A word is the set of the  *)
(* positions of its bits that are one, position 0 being the lowest.        *)
(*                                                                         *)
(* Two streams go through the loop of `checksum` side by side: what was    *)
(* written and what is read back, which differ in one burst of bytes.      *)
(***************************************************************************)
EXTENDS Integers

CONSTANTS
  Poly,      \* POLY
  Alphabet,  \* the bytes of the streams
  MaxFed     \* bound: bytes of a stream

Bits == 0..31
Low == 0..7
Words == SUBSET Bits
ByteWords == SUBSET Low

ASSUME CrcAssumption ==
  /\ Poly \in Words
  /\ 31 \in Poly
  /\ Alphabet \subseteq ByteWords
  /\ MaxFed \in Nat

VARIABLES
  crc,     \* the register of `checksum` for what was written
  other,   \* the same for what is read back
  serial,  \* the register of a division bit by bit, of what was written
  fed,     \* the bytes that went through
  burst,   \* how many of them the burst spans so far
  over     \* is the burst over?

crcVars == <<crc, other, serial, fed, burst, over>>

-----------------------------------------------------------------------------
Xor(a, b) == (a \ b) \cup (b \ a)
Shift(w, n) == {i \in Bits : i + n \in w}
Ones == Bits

(* One round of the inner loop of build_table.                             *)
Half(w) == IF 0 \in w THEN Xor(Shift(w, 1), Poly) ELSE Shift(w, 1)

(* The inner loop stops one round early.                                   *)
Table_bug(b) == Half(Half(Half(Half(Half(Half(Half(b)))))))

(* The entry of TABLE for a byte: eight rounds.                            *)
Table(b) == Half(Half(Half(Half(Half(Half(Half(Half(b))))))))

(* The byte enters after the look-up.                                      *)
Step_bug(w, b) == Xor(Xor(Shift(w, 8), Table(w \cap Low)), b)

(* A byte goes through the loop of `checksum`.                             *)
Step(w, b) == Xor(Shift(w, 8), Table(Xor(w, b) \cap Low))

(* What `checksum` returns of the register.                                *)
Final(w) == Xor(w, Ones)

(* The reference: the remainder of the polynomial division, the bits of a  *)
(* byte coming in one at a time, lowest first, with no table.              *)
Divide(w, b) ==
  LET In(v, i) == Half(Xor(v, IF i \in b THEN {0} ELSE {}))
  IN In(In(In(In(In(In(In(In(w, 0), 1), 2), 3), 4), 5), 6), 7)

-----------------------------------------------------------------------------
CrcInit ==
  /\ crc = Ones /\ other = Ones /\ serial = Ones
  /\ fed = 0
  /\ burst = 0
  /\ over = FALSE

(* A byte is written and perhaps another one read back.                    *)
Feed(b, c) ==
  /\ fed < MaxFed
  /\ crc' = Step(crc, b)
  /\ other' = Step(other, c)
  /\ serial' = Divide(serial, b)
  /\ fed' = fed + 1

Same ==
  /\ \E b \in Alphabet : Feed(b, b)
  /\ over' = (burst > 0)
  /\ UNCHANGED burst

(* The burst begins with a byte that differs and spans at most four.       *)
Differ ==
  /\ ~over /\ burst < 4
  /\ \E b, c \in Alphabet : (burst = 0 => b # c) /\ Feed(b, c)
  /\ burst' = burst + 1
  /\ UNCHANGED over

CrcNext == Same \/ Differ

CrcSpec == CrcInit /\ [][CrcNext]_crcVars

-----------------------------------------------------------------------------
(* Whatever precedes and follows it, a burst of damaged bytes that spans at *)
(* most four changes the checksum: the ideal checksum that RecordCodec     *)
(* assumes is, for such damage, the real one.                              *)
BurstIsSeen == burst > 0 => Final(crc) # Final(other)

(* The table is a shortcut: `checksum` computes the remainder of the       *)
(* division of the stream by POLY.                                         *)
TableIsShortcut == crc = serial

=============================================================================
