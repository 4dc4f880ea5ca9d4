------------------------------- MODULE MCParts -------------------------------
(***************************************************************************)
(* Four parts of the engine that are algorithms on data of their own, for  *)
(* TLC. They do not interact: a behaviour takes the steps of one of them.  *)
(***************************************************************************)
EXTENDS Merge, Memtable, Crc32, MarkerFile, TLC

CONSTANTS k1, k2, v1, v2, v3
MCKeyLen == k1 :> 0 @@ k2 :> 3
MCValLen == v1 :> 0 @@ v2 :> 1 @@ v3 :> 4

(* A number as a word.                                                      *)
Word(n) == {i \in Bits : i < 30 /\ (n \div 2 ^ i) % 2 = 1}

(* The polynomial 0xEDB88320, whose upper half is 0xEDB8, and bytes at both *)
(* ends of the register.                                                    *)
MCPoly == {i + 16 : i \in Word(60856)} \cup Word(33568)
MCAlphabet == {Word(0), Word(1), Word(128)}

VARIABLE part  \* the part that runs

MCInit ==
  /\ part \in {"merge", "memtable", "crc", "marker"}
  /\ part # "merge" => inputs = <<>>
  /\ part # "marker" => file = <<>>
  /\ Init /\ MemInit /\ CrcInit /\ MarkerInit

MCNext ==
  /\ UNCHANGED part
  /\ \/ part = "merge" /\ Next /\ UNCHANGED <<memVars, crcVars, markerVars>>
     \/ part = "memtable" /\ MemNext /\ UNCHANGED <<vars, crcVars, markerVars>>
     \/ part = "crc" /\ CrcNext /\ UNCHANGED <<vars, memVars, markerVars>>
     \/ part = "marker" /\ MarkerNext /\ UNCHANGED <<vars, memVars, crcVars>>

MCSpec == MCInit /\ [][MCNext]_<<part, vars, memVars, crcVars, markerVars>>
=============================================================================
