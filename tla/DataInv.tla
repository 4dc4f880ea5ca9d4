-------------------------------- MODULE DataInv --------------------------------
(***************************************************************************)
(* Beyond StoreInv: what the files, the memtable and the log of the Store  *)
(* hold at each control point, so that no step loses a write. FilesInv     *)
(* holds whatever fails, LogInv if the two calls of Spared do not.         *)
(***************************************************************************)
EXTENDS StoreInv

(* Where the segments are open.                                            *)
Serving == Running \cup {"replay"}

(* Where no call is being served.                                          *)
Between == Opening \cup Resolved \cup {"idle"}

(* Where the memtable is on its way to a segment.                          *)
Flushing == {"flush_clear", "flush_create", "flush_finish", "flush_rename",
             "flush_open", "flush_undo"}
(* Where it is there, and the log still has to be emptied.                 *)
Flushed == {"wal_set_len", "wal_trunc_sync"}

Compacting == {"compact_plan", "old_remove", "marker_remove"}
                \cup Merging \cup Undoing
(* Where a compaction's segment may be installed, under nextGen.           *)
Installing == {"compact_rename", "compact_open", "undo_final", "undo_marker",
               "undo_marker_last"}
(* Where it is open, and what it replaced is being removed.                *)
Removing == {"old_remove", "marker_remove"}

(* What the open segments say of a key, and what a merge of them would.    *)
OpenCell(k) == FirstCell([i \in DOMAIN readers |-> readers[i].data], k)
Compacted == [k \in Keys |-> Live(OpenCell(k))]

(* What would be read of a key if the memtable were rebuilt from the log.  *)
Replayed(k) == Live(IF LoggedCell(k) # Absent THEN LoggedCell(k) ELSE OpenCell(k))

(* The answers to a read of k that the memory and the files allow.         *)
Views(k) == IF pc \in Running THEN {Get(k), Replayed(k)} ELSE {Recovered(k)}

-----------------------------------------------------------------------------
(* Which call each control point serves.                                   *)
CallInv ==
  /\ pc \in Between => call = NoCall
  /\ pc \notin Between => call.op # "none"
  /\ pc \in Compacting => call.op = "compact"
  /\ pc \in Opening \cup Resolved => ret \in {"none", "open_err"}

(* What is on its way to a segment, and whether it has got there.          *)
MemInv ==
  /\ pc \in Flushing => mem # EmptyMap
  /\ pc \in Compacting => mem = EmptyMap
  /\ pc \in Flushing \cup Flushed /\ call.op = "write" => mem[call.key] = call.cell
  /\ pc = "flush_rename" => tmps[nextGen] = mem
  /\ pc = "flush_open" => segs[nextGen] = mem
  /\ pc \in Flushed => \A k \in Keys : mem[k] # Absent => OpenCell(k) = mem[k]

(* What a compaction makes; what one that failed may have left under the   *)
(* next generation, if nothing was written since; and no flush left it.    *)
MergeInv ==
  /\ pc \in {"marker_check", "marker_create", "marker_rename", "compact_rename"} =>
       tmps[nextGen] = Compacted
  /\ pc \in Serving /\ nextGen \in Present(segs) /\ mem = EmptyMap =>
       Len(readers) >= 2 /\ segs[nextGen] = Compacted

(* The segments on disk are the open ones, one leftover under the next     *)
(* generation, and, beside a marker only, those it has replaced.           *)
PresentInv ==
  /\ pc \in Serving =>
       \A g \in Present(segs) : g <= nextGen
  /\ pc \in {"replay"} \cup Flushed \cup Removing =>
       nextGen \notin Present(segs)
  /\ pc \in Serving /\ (marker = NoMarker \/ pc \in Installing \cup {"marker_remove"}) =>
       Present(segs) \ {nextGen} \subseteq ReaderGens
  /\ pc = "old_remove" => Present(segs) \subseteq ReaderGens \cup todo
  /\ pc \in Removing => Len(readers) = 1
  /\ pc \in {"marker_create", "marker_rename", "marker_undo"} => marker = NoMarker
  /\ pc \in {"sweep_tmp", "sweep_marker"} => Present(segs) \cap marker.old = {}
  /\ pc = "old_sweep" => Present(segs) \cap marker.old \subseteq todo
  /\ pc \in {"rollback_tmp", "rollback_marker"} => segs[marker.output] = NoFile

(* Inductive whatever fails.                                               *)
FilesInv ==
  /\ IInv
  /\ CallInv
  /\ MemInv
  /\ MergeInv
  /\ PresentInv

-----------------------------------------------------------------------------
(* The calls whose failure loses a write: see MCTornAppend, MCLostMarker.  *)
Spared == {"wal_append", "undo_marker"} \cap Failing = {}

(* Only a crash tears the log, and a running process does not see it. What *)
(* is being written is the last record; a flush that ends has emptied it.  *)
TailInv ==
  /\ \A i \in TornAt(wal) : i = Len(wal) /\ pc \notin Running
  /\ pc = "wal_sync" =>
       wal # <<>> /\ wal[Len(wal)] = [key |-> call.key, cell |-> call.cell]
  /\ pc = "wal_trunc_sync" => wal = <<>>

(* A marker beside a running process is that of the compaction it is in,   *)
(* or of one whose segment is open, and then nothing it lists is.          *)
PendingInv ==
  pc \in Running /\ marker # NoMarker =>
    \/ marker = [output |-> nextGen, old |-> ReaderGens] /\ pc \in Installing
    \/ /\ marker.output \in ReaderGens
       /\ marker.old \cap ReaderGens = {}
       /\ Present(segs) \ {nextGen} \subseteq ReaderGens \cup marker.old

(* A leftover says nothing that is not in the log or read already.         *)
LeftoverInv ==
  pc \in Running /\ nextGen \in Present(segs) =>
    \A k \in Keys : segs[nextGen][k] # Absent /\ LoggedCell(k) = Absent =>
      Live(segs[nextGen][k]) = Get(k)

(* Inductive if the two calls do not fail.                                 *)
LogInv ==
  /\ FilesInv
  /\ TailInv
  /\ PendingInv
  /\ LeftoverInv

(* Without errors of the log's sync, reads show what is in the log, but    *)
(* for a record whose call has not returned.                               *)
AgreeInv ==
  pc \in Running =>
    \A k \in Keys : Get(k) = Replayed(k) \/ (pc = "wal_sync" /\ k = call.key)

(* What reopening would find is among the answers that reads allow.        *)
RecoveredInViews == \A k \in Keys : Recovered(k) \in Views(k)

=============================================================================
