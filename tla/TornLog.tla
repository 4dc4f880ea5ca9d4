-------------------------------- MODULE TornLog --------------------------------
(***************************************************************************)
(* A write-ahead log as the engine sees it: a sequence of records, of      *)
(* which some may have been cut by a crash or a failed write. WalFile shows *)
(* that the bytes of wal.log and their decoder behave like this.           *)
(***************************************************************************)
EXTENDS Sequences, FiniteSetsExt

CONSTANT Torn    \* a record of which only a prefix reached the log

(* The decoder reads records until one is torn. What follows a torn record *)
(* cannot be told from the missing rest of it.                             *)
TornAt(log) == {i \in DOMAIN log : log[i] = Torn}
ValidPrefix(log) ==
  IF TornAt(log) = {} THEN log ELSE SubSeq(log, 1, Min(TornAt(log)) - 1)
BuriedTear(log) == TornAt(log) # {} /\ Min(TornAt(log)) < Len(log)

=============================================================================
