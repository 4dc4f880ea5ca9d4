------------------------------- MODULE WalFile -------------------------------
(***************************************************************************)
(* wal.log byte by byte: Wal::append, replay and truncate of               *)
(* src/src/wal.rs, over the codec of RecordCodec.                          *)
(*                                                                         *)
(* The file may be cut inside a record (by a crash or a failed write), be  *)
(* written to behind such a cut, and have one stored byte damaged. `log` is *)
(* the history that the Store's model keeps instead of the bytes: what was *)
(* appended, with Torn for a cut record.                                   *)
(***************************************************************************)
EXTENDS TornLog, RecordCodec

CONSTANTS
  MaxAppends,    \* bound: records in the file
  MaxDamaged     \* bound: records in a file that is damaged

ASSUME TornAssumption == Torn \notin DataRecords

VARIABLES
  file,    \* the file
  log,      \* what was appended to it
  damaged   \* has a stored byte changed?

walVars == <<file, log, damaged>>

-----------------------------------------------------------------------------
(* The loop of Wal::replay: the records it applies, where it stops and why. *)
Scan(b) ==
  LET From[o \in 0..Len(b)] ==
        LET d == Decode(SubSeq(b, o + 1, Len(b)))
        IN IF o = Len(b)
           THEN [records |-> <<>>, end |-> o, outcome |-> "clean"]
           ELSE IF d.kind = "ok"
           THEN [From[o + d.size] EXCEPT !.records = <<d.record>> \o @]
           ELSE [records |-> <<>>, end |-> o, outcome |-> d.kind]
  IN From[0]

-----------------------------------------------------------------------------
WalInit ==
  /\ file = <<>>
  /\ log = <<>>
  /\ damaged = FALSE

(* The file position is not moved to the end before writing.               *)
WalAppend_bug(r) ==
  LET enc == Encode(r)
  IN /\ Len(log) < MaxAppends /\ ~damaged
     /\ Encodable(r)
     /\ file' = enc \o SubSeq(file, Len(enc) + 1, Len(file))
     /\ log' = Append(log, r)
     /\ UNCHANGED damaged

WalAppend(r) ==
  /\ Len(log) < MaxAppends /\ ~damaged
  /\ Encodable(r)
  /\ file' = file \o Encode(r)
  /\ log' = Append(log, r)
  /\ UNCHANGED damaged

(* The process dies, or write_all fails, when n bytes are written.         *)
AppendCut(r) ==
  /\ Len(log) < MaxAppends /\ ~damaged
  /\ Encodable(r)
  /\ \E n \in 1..(Len(Encode(r)) - 1) : file' = file \o SubSeq(Encode(r), 1, n)
  /\ log' = Append(log, Torn)
  /\ UNCHANGED damaged

(* Wal::replay cuts the file where a truncated record begins; on any other *)
(* error it returns, and leaves the file alone.                            *)
Replay ==
  /\ Scan(file).outcome = "truncated"
  /\ file' = SubSeq(file, 1, Scan(file).end)
  /\ log' = Scan(file).records
  /\ damaged' = FALSE

Truncate ==
  /\ file # <<>>
  /\ file' = <<>>
  /\ log' = <<>>
  /\ damaged' = FALSE

(* A stored byte is read back as another one.                              *)
DamageWal ==
  /\ ~damaged /\ Len(log) <= MaxDamaged
  /\ \E i \in DOMAIN file, n \in Bytes :
       /\ Plain(n) # file[i]
       /\ file' = [file EXCEPT ![i] = Plain(n)]
  /\ damaged' = TRUE
  /\ UNCHANGED log

WalNext ==
  \/ \E r \in DataRecords : WalAppend(r) \/ AppendCut(r)
  \/ Replay
  \/ Truncate
  \/ DamageWal

WalSpec == WalInit /\ [][WalNext]_walVars

-----------------------------------------------------------------------------
(* Replay applies exactly the records before the first cut one, whatever   *)
(* was written behind the cut: the Store's model of Wal::replay.           *)
ReplayReadsValidPrefix ==
  ~damaged => Scan(file).records = ValidPrefix(log)

(* Replay refuses a file only if something follows a cut record: a crash   *)
(* by itself never makes a log that cannot be opened.                      *)
CrashTailIsForgiven ==
  ~damaged /\ Scan(file).outcome = "corrupt" => BuriedTear(log)

(* One damaged byte may hide records, as MAX_FIELD_LEN's comment concedes, *)
(* but replay applies nothing that was not written, and in its order.      *)
DamageNeverInvents ==
  IsPrefix(Scan(file).records, ValidPrefix(log))

=============================================================================
