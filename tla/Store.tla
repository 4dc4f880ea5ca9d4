------------------------------- MODULE Store -------------------------------
(***************************************************************************)
(* The storage engine of src/src/store.rs over src/src/wal.rs: a memtable, *)
(* a write-ahead log, immutable segments, flush, full compaction with its  *)
(* marker file, and the recovery that reopening runs.                      *)
(*                                                                         *)
(* Every action is one file-system call of the code together with the      *)
(* memory updates that follow it, so a crash may fall between any two.     *)
(* A crash is the death of the process: the files keep what was written.   *)
(* A Store is owned by one caller at a time (the concurrent test wraps it  *)
(* in Arc<Mutex<Store>>), so calls do not overlap.                         *)
(***************************************************************************)
EXTENDS KeyMaps, TornLog

CONSTANTS
  Partial,         \* a segment file that is not finished
  NoFile,          \* no file has that name
  FlushThreshold,  \* memtable entries at which a write flushes
  MaxGen,          \* bound: segment generations
  MaxWal,          \* bound: records in the log when a write begins
  Failing          \* control points whose system call may return an error

Gens == 1..MaxGen
Records == [key : Keys, cell : Cells]

Markers == [output : Nat, old : SUBSET Gens]
NoMarker == [output |-> 0, old |-> {}]

Calls == [op : {"none", "compact"}]
           \cup [op : {"write"}, key : Keys, cell : Cells]
NoCall == [op |-> "none"]

(* Points whose error is handed straight to the caller by `?`.            *)
CallErrors == {"wal_sync", "flush_clear", "flush_create", "flush_finish",
               "flush_rename", "wal_set_len", "wal_trunc_sync",
               "compact_plan", "compact_create", "compact_finish",
               "old_remove", "marker_remove"}
(* The same inside Store::open, where an error means there is no store.   *)
OpenErrors == {"recover", "rollback_tmp", "rollback_marker", "validate",
               "old_sweep", "sweep_tmp", "sweep_marker", "temps", "load",
               "replay"}
(* Points whose error the code handles, or ignores with `let _ =`.        *)
HandledErrors == {"wal_append", "flush_open", "flush_undo", "marker_check",
                  "marker_create", "marker_rename", "marker_undo",
                  "compact_rename", "compact_open", "undo_final",
                  "undo_marker", "undo_tmp"}
FaultPoints == CallErrors \cup OpenErrors \cup HandledErrors
Points == FaultPoints \cup {"down", "idle", "undo_marker_last"}

ASSUME FilesAssumption ==
  /\ Torn \notin Records
  /\ Partial \notin Maps
  /\ NoFile \notin Maps \cup {Partial}
ASSUME BoundsAssumption ==
  /\ FlushThreshold \in Nat \ {0}
  /\ MaxGen \in Nat \ {0}
  /\ MaxWal \in Nat
ASSUME FailingAssumption == Failing \subseteq FaultPoints

VARIABLES
  \* files
  wal,        \* wal.log: records, or Torn
  segs,       \* segment_<g>.seg: contents, or NoFile
  tmps,       \* segment_<g>.seg.tmp: contents, Partial or NoFile
  marker,     \* compaction.pending, or NoMarker
  markerTmp,  \* does compaction.pending.tmp exist?
  \* the process's memory
  mem,        \* memtable
  readers,    \* Store::segments: open segments, newest first
  nextGen,    \* next_segment_generation
  \* control
  pc,         \* the system call that comes next
  call,       \* the call being served
  todo,       \* old generations still to be removed
  ret         \* result of the last call

disk == <<wal, segs, tmps, marker, markerTmp>>
memory == <<mem, readers, nextGen>>
control == <<pc, call, todo, ret>>
vars == <<disk, memory, control>>

-----------------------------------------------------------------------------
(* Reading *)

Present(files) == {g \in Gens : files[g] # NoFile}

(* Names in ..._bug are seeded bugs: definitions to put in place of the one *)
(* that follows, each breaking one of the properties below.                *)

(* A deleted key in the memtable falls through to the segments.            *)
Get_bug(k) ==
  IF mem[k] \in Vals
  THEN mem[k]
  ELSE Live(FirstCell([i \in DOMAIN readers |-> readers[i].data], k))

(* Store::get: the memtable, then the segments from newest to oldest.      *)
Get(k) ==
  IF mem[k] # Absent
  THEN Live(mem[k])
  ELSE Live(FirstCell([i \in DOMAIN readers |-> readers[i].data], k))

(* The memtable that applying the records of a log in order leaves.        *)
Applied(log) ==
  [k \in Keys |->
    LET hits == {i \in DOMAIN log : log[i] # Torn /\ log[i].key = k}
    IN IF hits = {} THEN Absent ELSE log[Max(hits)].cell]

OverThreshold(m) ==
  Cardinality({k \in Keys : m[k] # Absent}) >= FlushThreshold

(* The generations of the open segments, as the marker records them.       *)
ReaderGens == {readers[i].gen : i \in DOMAIN readers}

(* Lowest generation first.                                                *)
Listings_bug(S) ==
  {l \in [1..Cardinality(S) -> S] :
     /\ \A i, j \in DOMAIN l : i < j => l[i] < l[j]
     /\ \A g \in S : \E i \in DOMAIN l : l[i] = g}

(* The listing of a set of generations, highest first.                     *)
Listings(S) ==
  {l \in [1..Cardinality(S) -> S] :
     /\ \A i, j \in DOMAIN l : i < j => l[i] > l[j]
     /\ \A g \in S : \E i \in DOMAIN l : l[i] = g}

(* The inputs are not reversed: the oldest cell survives.                  *)
Merged_bug ==
  [k \in Keys |->
     Live(FirstCell([i \in DOMAIN readers |->
                       segs[readers[Len(readers) + 1 - i].gen]], k))]

(* compact_all over the files of the open segments: the newest cell of     *)
(* each key survives, and a tombstone is dropped with what it hides.       *)
Merged ==
  [k \in Keys |->
     Live(FirstCell([i \in DOMAIN readers |-> segs[readers[i].gen]], k))]

-----------------------------------------------------------------------------
(* Control *)

At(p) == pc = p
Goto(p) == pc' = p /\ UNCHANGED <<call, todo, ret>>
Fails(p) == p \in Failing

(* The call returns to its caller.                                         *)
Return(r) ==
  /\ pc' = "idle"
  /\ ret' = r
  /\ call' = NoCall
  /\ todo' = {}

Begin(c, p) ==
  /\ At("idle")
  /\ nextGen < MaxGen
  /\ call' = c
  /\ pc' = p
  /\ ret' = "none"
  /\ UNCHANGED <<disk, memory, todo>>

Init ==
  /\ wal = <<>>
  /\ segs = [g \in Gens |-> NoFile]
  /\ tmps = [g \in Gens |-> NoFile]
  /\ marker = NoMarker
  /\ markerTmp = FALSE
  /\ mem = EmptyMap
  /\ readers = <<>>
  /\ nextGen = 1
  /\ pc = "down"
  /\ call = NoCall
  /\ todo = {}
  /\ ret = "none"

-----------------------------------------------------------------------------
(* Calls of the client *)

(* Store::set and Store::delete; MaxWal and MaxGen (in Begin) are bounds.  *)
Write(k, cell) ==
  /\ Len(wal) < MaxWal
  /\ Begin([op |-> "write", key |-> k, cell |-> cell], "wal_append")

Set(k, v) == Write(k, v)
Delete(k) == Write(k, Tomb)

(* The memtable is not flushed first.                                      *)
Compact_bug == Begin([op |-> "compact"], "compact_plan")

(* Store::compact first flushes what the memtable holds.                   *)
Compact ==
  Begin([op |-> "compact"],
        IF mem = EmptyMap THEN "compact_plan" ELSE "flush_clear")

(* Store::verify replays the log, which cuts a torn tail off the file.     *)
Verify ==
  /\ At("idle")
  /\ TornAt(wal) # {}
  /\ wal' = ValidPrefix(wal)
  /\ UNCHANGED <<segs, tmps, marker, markerTmp, memory, control>>

-----------------------------------------------------------------------------
(* Wal::append, then the memtable *)

WalAppend ==
  /\ At("wal_append")
  /\ wal' = Append(wal, [key |-> call.key, cell |-> call.cell])
  /\ Goto("wal_sync")
  /\ UNCHANGED <<segs, tmps, marker, markerTmp, memory>>

(* write_all stops early: none or some of the record's bytes are there.    *)
WalAppendFails ==
  /\ At("wal_append") /\ Fails("wal_append")
  /\ wal' \in {wal, Append(wal, Torn)}
  /\ Return("err")
  /\ UNCHANGED <<segs, tmps, marker, markerTmp, memory>>

WalSync ==
  /\ At("wal_sync")
  /\ mem' = [mem EXCEPT ![call.key] = call.cell]
  /\ IF OverThreshold(mem') THEN Goto("flush_clear") ELSE Return("ok")
  /\ UNCHANGED <<disk, readers, nextGen>>

WriteStep == WalAppend \/ WalAppendFails \/ WalSync

-----------------------------------------------------------------------------
(* Store::flush_memtable *)

FlushClearTemp ==
  /\ At("flush_clear")
  /\ tmps' = [tmps EXCEPT ![nextGen] = NoFile]
  /\ Goto("flush_create")
  /\ UNCHANGED <<wal, segs, marker, markerTmp, memory>>

(* The segment is renamed before it is finished.                           *)
FlushCreate_bug ==
  /\ At("flush_create")
  /\ tmps' = [tmps EXCEPT ![nextGen] = Partial]
  /\ Goto("flush_rename")
  /\ UNCHANGED <<wal, segs, marker, markerTmp, memory>>

FlushCreate ==
  /\ At("flush_create")
  /\ tmps' = [tmps EXCEPT ![nextGen] = Partial]
  /\ Goto("flush_finish")
  /\ UNCHANGED <<wal, segs, marker, markerTmp, memory>>

(* The log is emptied before the segment is installed.                     *)
FlushFinish_bug ==
  /\ At("flush_finish")
  /\ tmps' = [tmps EXCEPT ![nextGen] = mem]
  /\ wal' = <<>>
  /\ Goto("flush_rename")
  /\ UNCHANGED <<segs, marker, markerTmp, memory>>

FlushFinish ==
  /\ At("flush_finish")
  /\ tmps' = [tmps EXCEPT ![nextGen] = mem]
  /\ Goto("flush_rename")
  /\ UNCHANGED <<wal, segs, marker, markerTmp, memory>>

(* fs::rename of the temporary segment: it replaces a file of that name.   *)
InstallSegment ==
  /\ segs' = [segs EXCEPT ![nextGen] = tmps[nextGen]]
  /\ tmps' = [tmps EXCEPT ![nextGen] = NoFile]

FlushRename ==
  /\ At("flush_rename")
  /\ InstallSegment
  /\ Goto("flush_open")
  /\ UNCHANGED <<wal, marker, markerTmp, memory>>

(* The new segment is pushed behind the older ones.                        *)
FlushOpen_bug ==
  /\ At("flush_open")
  /\ readers' = Append(readers, [gen |-> nextGen, data |-> segs[nextGen]])
  /\ nextGen' = nextGen + 1
  /\ Goto("wal_set_len")
  /\ UNCHANGED <<disk, mem>>

FlushOpen ==
  /\ At("flush_open")
  /\ readers' = <<[gen |-> nextGen, data |-> segs[nextGen]]>> \o readers
  /\ nextGen' = nextGen + 1
  /\ Goto("wal_set_len")
  /\ UNCHANGED <<disk, mem>>

FlushOpenFails ==
  /\ At("flush_open") /\ Fails("flush_open")
  /\ Goto("flush_undo")
  /\ UNCHANGED <<disk, memory>>

(* `let _ = fs::remove_file(&final_path)`: the file may stay.              *)
RemoveFinal(p) ==
  \/ segs' = [segs EXCEPT ![nextGen] = NoFile]
  \/ Fails(p) /\ UNCHANGED segs

(* The flush is tried again until it succeeds.                             *)
FlushUndo_bug ==
  /\ At("flush_undo")
  /\ RemoveFinal("flush_undo")
  /\ Goto("flush_clear")
  /\ UNCHANGED <<wal, tmps, marker, markerTmp, memory>>

FlushUndo ==
  /\ At("flush_undo")
  /\ RemoveFinal("flush_undo")
  /\ Return("err")
  /\ UNCHANGED <<wal, tmps, marker, markerTmp, memory>>

(* Wal::truncate is set_len(0) and then sync_all.                          *)
WalSetLen ==
  /\ At("wal_set_len")
  /\ wal' = <<>>
  /\ Goto("wal_trunc_sync")
  /\ UNCHANGED <<segs, tmps, marker, markerTmp, memory>>

WalTruncSync ==
  /\ At("wal_trunc_sync")
  /\ mem' = EmptyMap
  /\ IF call.op = "write" THEN Return("ok") ELSE Goto("compact_plan")
  /\ UNCHANGED <<disk, readers, nextGen>>

FlushStep ==
  \/ FlushClearTemp \/ FlushCreate \/ FlushFinish \/ FlushRename
  \/ FlushOpen \/ FlushOpenFails \/ FlushUndo \/ WalSetLen \/ WalTruncSync

-----------------------------------------------------------------------------
(* Store::compact after the flush, with write_compaction_marker *)

CompactPlan ==
  /\ At("compact_plan")
  /\ IF Len(readers) < 2
     THEN Return("ok") /\ UNCHANGED tmps
     ELSE Goto("compact_create") /\ tmps' = [tmps EXCEPT ![nextGen] = NoFile]
  /\ UNCHANGED <<wal, segs, marker, markerTmp, memory>>

(* compact_all reads its inputs back from their paths: one that is missing *)
(* fails the call.                                                         *)
CompactCreate ==
  /\ At("compact_create")
  /\ IF ReaderGens \subseteq Present(segs)
     THEN /\ tmps' = [tmps EXCEPT ![nextGen] = Partial]
          /\ Goto("compact_finish")
     ELSE Return("err") /\ UNCHANGED tmps
  /\ UNCHANGED <<wal, segs, marker, markerTmp, memory>>

CompactFinish ==
  /\ At("compact_finish")
  /\ tmps' = [tmps EXCEPT ![nextGen] = Merged]
  /\ Goto("marker_check")
  /\ UNCHANGED <<wal, segs, marker, markerTmp, memory>>

(* A marker left by an earlier compaction stops this one.                  *)
MarkerCheck ==
  /\ At("marker_check")
  /\ IF marker = NoMarker
     THEN Goto("marker_create") /\ markerTmp' = FALSE
     ELSE Goto("undo_tmp") /\ UNCHANGED markerTmp
  /\ UNCHANGED <<wal, segs, tmps, marker, memory>>

MarkerCheckFails ==
  /\ At("marker_check") /\ Fails("marker_check")
  /\ Goto("undo_tmp")
  /\ UNCHANGED <<disk, memory>>

MarkerCreate ==
  /\ At("marker_create")
  /\ markerTmp' = TRUE
  /\ Goto("marker_rename")
  /\ UNCHANGED <<wal, segs, tmps, marker, memory>>

MarkerRename ==
  /\ At("marker_rename")
  /\ marker' = [output |-> nextGen, old |-> ReaderGens]
  /\ markerTmp' = FALSE
  /\ Goto("compact_rename")
  /\ UNCHANGED <<wal, segs, tmps, memory>>

(* The temporary marker may be missing, unfinished or whole.               *)
MarkerWriteFails ==
  /\ \/ At("marker_create") /\ Fails("marker_create")
     \/ At("marker_rename") /\ Fails("marker_rename")
  /\ Goto("marker_undo")
  /\ markerTmp' = TRUE \/ UNCHANGED markerTmp
  /\ UNCHANGED <<wal, segs, tmps, marker, memory>>

MarkerUndo ==
  /\ At("marker_undo")
  /\ markerTmp' = FALSE \/ (Fails("marker_undo") /\ UNCHANGED markerTmp)
  /\ Goto("undo_tmp")
  /\ UNCHANGED <<wal, segs, tmps, marker, memory>>

CompactRename ==
  /\ At("compact_rename")
  /\ InstallSegment
  /\ Goto("compact_open")
  /\ UNCHANGED <<wal, marker, markerTmp, memory>>

CompactRenameFails ==
  /\ At("compact_rename") /\ Fails("compact_rename")
  /\ Goto("undo_marker")
  /\ UNCHANGED <<disk, memory>>

(* The list of the files to remove is made after the swap.                 *)
Replaced_bug == {nextGen}
Replaced == ReaderGens

(* The replaced segments stay open.                                        *)
Replacement_bug == <<[gen |-> nextGen, data |-> segs[nextGen]]>> \o readers
Replacement == <<[gen |-> nextGen, data |-> segs[nextGen]]>>

(* The generation is not used up.                                          *)
GenAfterCompaction_bug == nextGen
GenAfterCompaction == nextGen + 1

(* The validated replacement takes over; the old files are now garbage.    *)
CompactOpen ==
  /\ At("compact_open")
  /\ readers' = Replacement
  /\ nextGen' = GenAfterCompaction
  /\ todo' = Replaced
  /\ pc' = "old_remove"
  /\ UNCHANGED <<disk, mem, call, ret>>

CompactOpenFails ==
  /\ At("compact_open") /\ Fails("compact_open")
  /\ Goto("undo_final")
  /\ UNCHANGED <<disk, memory>>

UndoFinal ==
  /\ At("undo_final")
  /\ RemoveFinal("undo_final")
  /\ Goto("undo_marker_last")
  /\ UNCHANGED <<wal, tmps, marker, markerTmp, memory>>

(* The undo forgets the marker.                                            *)
RemoveMarkerIgnoringErrors_bug == UNCHANGED marker

(* `let _ = fs::remove_file(marker)`: the marker may stay.                 *)
RemoveMarkerIgnoringErrors ==
  marker' = NoMarker \/ (Fails("undo_marker") /\ UNCHANGED marker)

UndoMarker ==
  /\ \/ At("undo_marker") /\ Goto("undo_tmp")
     \/ At("undo_marker_last") /\ Return("err")
  /\ RemoveMarkerIgnoringErrors
  /\ UNCHANGED <<wal, segs, tmps, markerTmp, memory>>

UndoTmp ==
  /\ At("undo_tmp")
  /\ \/ tmps' = [tmps EXCEPT ![nextGen] = NoFile]
     \/ Fails("undo_tmp") /\ UNCHANGED tmps
  /\ Return("err")
  /\ UNCHANGED <<wal, segs, marker, markerTmp, memory>>

RemoveOld ==
  /\ At("old_remove") /\ todo # {}
  /\ IF segs[Max(todo)] = NoFile
     THEN Return("err") /\ UNCHANGED segs
     ELSE /\ segs' = [segs EXCEPT ![Max(todo)] = NoFile]
          /\ todo' = todo \ {Max(todo)}
          /\ UNCHANGED <<pc, call, ret>>
  /\ UNCHANGED <<wal, tmps, marker, markerTmp, memory>>

RemoveOldDone ==
  /\ At("old_remove") /\ todo = {}
  /\ Goto("marker_remove")
  /\ UNCHANGED <<disk, memory>>

RemoveMarker ==
  /\ At("marker_remove")
  /\ marker' = NoMarker
  /\ Return("ok")
  /\ UNCHANGED <<wal, segs, tmps, markerTmp, memory>>

CompactStep ==
  \/ CompactPlan \/ CompactCreate \/ CompactFinish
  \/ MarkerCheck \/ MarkerCheckFails \/ MarkerCreate \/ MarkerRename
  \/ MarkerWriteFails \/ MarkerUndo
  \/ CompactRename \/ CompactRenameFails \/ CompactOpen \/ CompactOpenFails
  \/ UndoFinal \/ UndoMarker \/ UndoTmp
  \/ RemoveOld \/ RemoveOldDone \/ RemoveMarker

-----------------------------------------------------------------------------
(* Store::open: recover_pending_compaction, remove_stale_temp_files,       *)
(* load_segments, Wal::replay *)

Refuse ==
  /\ pc' = "down"
  /\ ret' = "open_err"
  /\ todo' = {}
  /\ UNCHANGED call

Restart ==
  /\ At("down")
  /\ pc' = "recover"
  /\ ret' = "none"
  /\ UNCHANGED <<disk, memory, call, todo>>

(* What read_compaction_marker insists on.                                 *)
WellFormed(m) ==
  /\ Cardinality(m.old) >= 2
  /\ \A g \in m.old : g < m.output

(* The replaced segments are demanded in every case.                       *)
RollsForward_bug ==
  /\ WellFormed(marker)
  /\ segs[marker.output] # NoFile
  /\ marker.old \subseteq Present(segs)

(* The output exists: what is left of the old segments goes.               *)
RollsForward ==
  /\ WellFormed(marker)
  /\ segs[marker.output] # NoFile

(* It does not: the old segments, which must all exist, stay.              *)
RollsBack ==
  /\ WellFormed(marker)
  /\ segs[marker.output] = NoFile
  /\ marker.old \subseteq Present(segs)

Recover ==
  /\ At("recover")
  /\ markerTmp' = FALSE
  /\ CASE marker = NoMarker -> Goto("temps")
       [] marker # NoMarker /\ RollsForward -> Goto("validate")
       [] marker # NoMarker /\ RollsBack -> Goto("rollback_tmp")
       [] OTHER -> Refuse
  /\ UNCHANGED <<wal, segs, tmps, marker, memory>>

(* Both endings of a pending compaction drop its temporary segment and     *)
(* then its marker.                                                        *)
DropTemp ==
  /\ \/ At("rollback_tmp") /\ Goto("rollback_marker")
     \/ At("sweep_tmp") /\ Goto("sweep_marker")
  /\ tmps' = [tmps EXCEPT ![marker.output] = NoFile]
  /\ UNCHANGED <<wal, segs, marker, markerTmp, memory>>

(* The marker is left for the next open.                                   *)
DropMarker_bug ==
  /\ At("rollback_marker") \/ At("sweep_marker")
  /\ Goto("temps")
  /\ UNCHANGED <<disk, memory>>

DropMarker ==
  /\ At("rollback_marker") \/ At("sweep_marker")
  /\ marker' = NoMarker
  /\ Goto("temps")
  /\ UNCHANGED <<wal, segs, tmps, markerTmp, memory>>

Validate ==
  /\ At("validate")
  /\ pc' = "old_sweep"
  /\ todo' = marker.old
  /\ UNCHANGED <<disk, memory, call, ret>>

SweepOld ==
  /\ At("old_sweep") /\ todo # {}
  /\ segs' = [segs EXCEPT ![Max(todo)] = NoFile]
  /\ todo' = todo \ {Max(todo)}
  /\ UNCHANGED <<wal, tmps, marker, markerTmp, memory, pc, call, ret>>

SweepOldDone ==
  /\ At("old_sweep") /\ todo = {}
  /\ Goto("sweep_tmp")
  /\ UNCHANGED <<disk, memory>>

RemoveStaleTemp ==
  /\ At("temps")
  /\ \E g \in Present(tmps) : tmps' = [tmps EXCEPT ![g] = NoFile]
  /\ UNCHANGED <<wal, segs, marker, markerTmp, memory, control>>

RemoveStaleTempsDone ==
  /\ At("temps") /\ Present(tmps) = {}
  /\ Goto("load")
  /\ UNCHANGED <<disk, memory>>

(* The highest generation is used again.                                   *)
FirstFree_bug == IF Present(segs) = {} THEN 1 ELSE Max(Present(segs))
FirstFree == IF Present(segs) = {} THEN 1 ELSE Max(Present(segs)) + 1

LoadSegments ==
  /\ At("load")
  /\ \E l \in Listings(Present(segs)) :
       readers' = [i \in DOMAIN l |-> [gen |-> l[i], data |-> segs[l[i]]]]
  /\ nextGen' = FirstFree
  /\ Goto("replay")
  /\ UNCHANGED <<disk, mem>>

Replay ==
  /\ At("replay")
  /\ wal' = ValidPrefix(wal)
  /\ mem' = Applied(wal')
  /\ pc' = "idle"
  /\ UNCHANGED <<segs, tmps, marker, markerTmp, readers, nextGen>>
  /\ UNCHANGED <<call, todo, ret>>

Forget ==
  /\ mem' = EmptyMap
  /\ readers' = <<>>
  /\ nextGen' = 1

(* Bytes after a torn record make it look corrupt rather than cut short.   *)
ReplayFails ==
  /\ At("replay") /\ BuriedTear(wal)
  /\ Refuse
  /\ Forget
  /\ UNCHANGED disk

OpenStep ==
  \/ Restart \/ Recover \/ DropTemp \/ DropMarker
  \/ Validate \/ SweepOld \/ SweepOldDone
  \/ RemoveStaleTemp \/ RemoveStaleTempsDone
  \/ LoadSegments \/ Replay \/ ReplayFails

-----------------------------------------------------------------------------
(* Failures *)

CallError ==
  /\ pc \in CallErrors \cap Failing
  /\ Return("err")
  /\ UNCHANGED <<disk, memory>>

OpenError ==
  /\ pc \in OpenErrors \cap Failing
  /\ Refuse
  /\ Forget
  /\ UNCHANGED disk

(* The process dies. A record being appended may be cut anywhere.          *)
Crash ==
  /\ pc # "down"
  /\ wal' \in IF At("wal_append") THEN {wal, Append(wal, Torn)} ELSE {wal}
  /\ Forget
  /\ pc' = "down"
  /\ call' = NoCall
  /\ todo' = {}
  /\ ret' = "none"
  /\ UNCHANGED <<segs, tmps, marker, markerTmp>>

-----------------------------------------------------------------------------
Client ==
  \/ \E k \in Keys, v \in Vals : Set(k, v)
  \/ \E k \in Keys : Delete(k)
  \/ Compact
  \/ Verify

(* The steps the code takes by itself, once called or started.             *)
Progress == WriteStep \/ FlushStep \/ CompactStep \/ OpenStep

Next == Client \/ Progress \/ CallError \/ OpenError \/ Crash

Spec == Init /\ [][Next]_vars

(* A running process is scheduled, and a stopped one is started again.     *)
FairSpec == Spec /\ WF_vars(Progress)

-----------------------------------------------------------------------------
(* What reopening the store now would return for a key *)

(* The segments that are left once a pending compaction is resolved.       *)
Survivors ==
  IF marker # NoMarker /\ segs[marker.output] # NoFile
  THEN Present(segs) \ marker.old
  ELSE Present(segs)

SurvivorCell(k) ==
  LET hits == {g \in Survivors : segs[g][k] # Absent}
  IN IF hits = {} THEN Absent ELSE segs[Max(hits)][k]

LoggedCell(k) == Applied(ValidPrefix(wal))[k]

Recovered(k) ==
  Live(IF LoggedCell(k) # Absent THEN LoggedCell(k) ELSE SurvivorCell(k))

-----------------------------------------------------------------------------
(* Correctness *)

(* Types of the variables of the Store, its files and its control state.   *)
TypeOK ==
  /\ wal \in Seq(Records \cup {Torn})
  /\ segs \in [Gens -> Maps \cup {NoFile}]
  /\ tmps \in [Gens -> Maps \cup {Partial, NoFile}]
  /\ marker \in Markers
  /\ markerTmp \in BOOLEAN
  /\ mem \in Maps
  /\ readers \in Seq([gen : Gens, data : Maps])
  /\ nextGen \in 1..(MaxGen + 1)
  /\ pc \in Points
  /\ call \in Calls
  /\ todo \in SUBSET Gens
  /\ ret \in {"none", "ok", "err", "open_err"}

(* At rest, Store::get returns what a process started now would recover:   *)
(* memory and files never disagree, through flush, compaction, recovery.   *)
ReadsMatchRecovery ==
  At("idle") => \A k \in Keys : Get(k) = Recovered(k)

(* Store::verify's "Segments must always be newest -> oldest".             *)
ReadersNewestFirst ==
  \A i, j \in DOMAIN readers : i < j => readers[i].gen > readers[j].gen

(* Every open segment is on disk, unchanged, under the name by which the   *)
(* next compaction reads it back: nothing removes or overwrites a file     *)
(* that the running process serves from.                                   *)
ReadersMatchFiles ==
  \A i \in DOMAIN readers : segs[readers[i].gen] = readers[i].data

(* recover_pending_compaction never has to report "cannot roll back": when *)
(* the output is not there, every segment it was to replace still is.      *)
Recoverable ==
  marker # NoMarker =>
    /\ WellFormed(marker)
    /\ segs[marker.output] # NoFile \/ marker.old \subseteq Present(segs)

(* An installed segment file is never rewritten in place, unless it is what *)
(* a failed flush or compaction left: then no reader has it open and its   *)
(* number has not been used up.                                            *)
NoOverwrite ==
  \A g \in Gens :
    segs[g] # NoFile /\ segs'[g] \notin {segs[g], NoFile} =>
      g = nextGen /\ \A i \in DOMAIN readers : readers[i].gen # g
SegmentsImmutable == [][NoOverwrite]_vars

(* A compaction that reports success has left one segment, which holds all *)
(* that the process serves, and no marker; unless there was only one open, *)
(* beside a marker whose clean-up failed earlier, and so nothing to do.    *)
CompactionComplete ==
  [][(call.op = "compact" /\ pc' = "idle" /\ ret' = "ok"
        /\ (At("compact_plan") => marker = NoMarker)) =>
       /\ Cardinality(Present(segs')) <= 1
       /\ marker' = NoMarker
       /\ mem' = EmptyMap]_vars

(* Once crashes stop, reopening gets through recovery to a store that      *)
(* serves calls: no order of crashes leaves files that cannot be opened.   *)
OpenCompletes ==
  []<><<Crash>>_vars \/ (At("down") ~> At("idle"))

(* Every call returns, or the process dies under it.                       *)
CallsReturn == (call # NoCall) ~> (call = NoCall)

(* A compaction that has put its marker in place removes it again, or its  *)
(* caller is told of an error; and whatever made it leave the marker, the  *)
(* next open that is not cut short finishes it or rolls it back.           *)
MarkerResolved ==
  \/ []<><<Crash>>_vars
  \/ /\ At("compact_rename") ~> (marker = NoMarker \/ (At("idle") /\ ret = "err"))
     /\ At("down") ~> marker = NoMarker

=============================================================================
