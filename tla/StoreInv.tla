------------------------------- MODULE StoreInv -------------------------------
(***************************************************************************)
(* The inductive invariant behind the safety theorems of StoreProofs: what *)
(* each control point of the Store may rely on, whatever calls have failed *)
(* and wherever the process has died before.                               *)
(***************************************************************************)
EXTENDS Store

(* Where Store::open has no store yet, and holds no open segment.          *)
Opening == {"down"} \cup (OpenErrors \ {"replay"})
(* Where a pending compaction has been resolved.                           *)
Resolved == {"temps", "load", "replay"}
Running == Points \ (Opening \cup Resolved)
(* Where recovery rolls a pending compaction forward.                      *)
Sweeping == {"validate", "old_sweep", "sweep_tmp", "sweep_marker"}

BeforeFlushed == {"wal_append", "wal_sync", "flush_clear", "flush_create",
                  "flush_finish", "flush_rename", "flush_open", "flush_undo"}
Merging == {"compact_create", "compact_finish", "marker_check",
            "marker_create", "marker_rename", "compact_rename",
            "compact_open"}
Undoing == {"marker_undo", "undo_final", "undo_marker", "undo_marker_last",
            "undo_tmp"}
UsesNextGen == BeforeFlushed \cup Merging \cup Undoing
                 \cup {"wal_set_len", "wal_trunc_sync", "compact_plan"}

(* The log is written for a write only.                                    *)
WriteInv == pc \in {"wal_append", "wal_sync"} => call.op = "write"

(* A call that may flush and then compact has two generations to use.      *)
GenInv ==
  /\ pc \in UsesNextGen => nextGen <= MaxGen
  /\ pc \in BeforeFlushed => nextGen < MaxGen

(* What is renamed is finished, and what is opened is there.               *)
InstallInv ==
  /\ pc \in {"flush_rename", "marker_check", "marker_create",
             "marker_rename", "compact_rename"} => tmps[nextGen] \in Maps
  /\ pc \in {"flush_open", "compact_open"} => segs[nextGen] \in Maps

(* The open segments: newest first, on disk, older than the next one.      *)
ReadersInv ==
  /\ pc \in Opening => readers = <<>>
  /\ pc \in Merging => Len(readers) >= 2
  /\ ReadersNewestFirst
  /\ ReadersMatchFiles
  /\ \A i \in DOMAIN readers : readers[i].gen < nextGen

(* What is being removed is not being read.                                *)
RemovalInv ==
  /\ pc = "old_remove" => \A i \in DOMAIN readers : readers[i].gen \notin todo
  /\ pc = "old_sweep" => todo \subseteq marker.old

(* A marker seen by a running process names the next generation, and then  *)
(* nothing it lists is gone, or it names an open segment.                  *)
MarkerInv ==
  /\ Recoverable
  /\ pc \in Resolved => marker = NoMarker
  /\ pc \in Sweeping =>
       marker # NoMarker /\ segs[marker.output] # NoFile
  /\ pc \in {"compact_rename", "compact_open"} =>
       marker = [output |-> nextGen, old |-> ReaderGens]
  /\ pc = "old_remove" => marker.output \in ReaderGens
  /\ pc \in Running /\ marker # NoMarker =>
       \/ marker.output = nextGen /\ marker.old \subseteq Present(segs)
       \/ marker.output \in ReaderGens

(* A marker names a generation that exists.                                *)
MarkerType == marker # NoMarker => marker.output \in Gens

(* The inductive invariant: it holds initially and every step keeps it.    *)
IInv ==
  /\ TypeOK
  /\ WriteInv
  /\ GenInv
  /\ InstallInv
  /\ ReadersInv
  /\ RemovalInv
  /\ MarkerInv
  /\ MarkerType

=============================================================================
