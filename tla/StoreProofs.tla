----------------------------- MODULE StoreProofs -----------------------------
(***************************************************************************)
(* Safety of the Store, for all values of its constants. Whatever system   *)
(* calls fail, StoreInv!IInv is inductive, and so is DataInv!FilesInv,     *)
(* which says what files and memtable hold; DataInv!LogInv, which says     *)
(* what the log holds, is inductive if the calls of Spared do not fail.    *)
(***************************************************************************)
EXTENDS DataInv, SequenceTheorems, OrderLemmas

-----------------------------------------------------------------------------
(* What the operators of the model return *)

LEMMA EmptyMapType == EmptyMap \in Maps
BY DEF EmptyMap, Maps

LEMMA NoMarkerType == NoMarker \in Markers
BY DEF NoMarker, Markers

LEMMA NoCallType == NoCall \in Calls
BY DEF NoCall, Calls

LEMMA LiveType ==
  ASSUME NEW c \in Cells \cup {Absent}
  PROVE  Live(c) \in Vals \cup {Absent}
BY DEF Live, Cells

LEMMA FirstCellType ==
  ASSUME NEW n \in Nat, NEW maps \in [1..n -> Maps], NEW k \in Keys
  PROVE  FirstCell(maps, k) \in Cells \cup {Absent}
<1> DEFINE hits == {i \in DOMAIN maps : maps[i][k] # Absent}
<1>1. CASE hits = {}
  BY <1>1 DEF FirstCell
<1>2. CASE hits # {}
  <2>1. hits \subseteq Nat
    OBVIOUS
  <2>2. Min(hits) \in hits
    BY <1>2, <2>1, MinIsLeast
  <2>3. maps[Min(hits)] \in Maps
    BY <2>2
  <2> QED
    BY <1>2, <2>3 DEF FirstCell, Maps
<1> QED
  BY <1>1, <1>2

LEMMA AppliedType ==
  ASSUME NEW log \in Seq(Records \cup {Torn})
  PROVE  Applied(log) \in Maps
<1>1. SUFFICES ASSUME NEW k \in Keys
               PROVE  Applied(log)[k] \in Cells \cup {Absent}
  BY DEF Applied, Maps
<1> DEFINE hits == {i \in DOMAIN log : log[i] # Torn /\ log[i].key = k}
<1>2. Applied(log)[k] = IF hits = {} THEN Absent ELSE log[Max(hits)].cell
  BY DEF Applied
<1>3. CASE hits # {}
  <2>1. hits \subseteq Nat /\ Len(log) \in Nat /\ \A i \in hits : i <= Len(log)
    OBVIOUS
  <2>2. Max(hits) \in hits
    <3> HIDE DEF hits
    <3> QED BY <1>3, <2>1, MaxIsGreatest
  <2>3. log[Max(hits)] \in Records
    BY <2>2
  <2> QED
    BY <1>2, <1>3, <2>3 DEF Records
<1> QED
  BY <1>2, <1>3

LEMMA ValidPrefixType ==
  ASSUME NEW log \in Seq(Records \cup {Torn})
  PROVE  ValidPrefix(log) \in Seq(Records \cup {Torn})
<1>1. CASE TornAt(log) = {}
  BY <1>1 DEF ValidPrefix
<1>2. CASE TornAt(log) # {}
  <2>1. TornAt(log) \subseteq Nat /\ TornAt(log) \subseteq 1..Len(log)
    BY DEF TornAt
  <2>2. Min(TornAt(log)) \in 1..Len(log)
    BY <1>2, <2>1, MinIsLeast
  <2>3. SubSeq(log, 1, Min(TornAt(log)) - 1) \in Seq(Records \cup {Torn})
    BY <2>2
  <2> QED
    BY <1>2, <2>3 DEF ValidPrefix
<1> QED
  BY <1>1, <1>2

LEMMA GensAreNat == Gens \subseteq Nat /\ \A g \in Gens : 1 <= g /\ g <= MaxGen
  BY BoundsAssumption DEF Gens

(* Max picks a member of a set of generations, and the greatest.           *)
LEMMA MaxGeneration ==
  ASSUME NEW S, S \subseteq Gens, S # {}
  PROVE  Max(S) \in S /\ \A g \in S : g <= Max(S)
<1>1. S \subseteq Nat /\ \A g \in S : g <= MaxGen
  BY GensAreNat
<1> QED
  BY <1>1, MaxIsGreatest, BoundsAssumption

(* load_segments hands out a generation above all that exist.              *)
LEMMA FirstFreeIsNew ==
  ASSUME TypeOK
  PROVE  /\ FirstFree \in 1..(MaxGen + 1)
         /\ \A g \in Present(segs) : g < FirstFree
<1>1. Present(segs) \subseteq Gens
  BY DEF Present
<1>2. CASE Present(segs) = {}
  BY <1>2, BoundsAssumption DEF FirstFree
<1>3. CASE Present(segs) # {}
  <2>1. /\ Max(Present(segs)) \in Gens
        /\ \A g \in Present(segs) : g <= Max(Present(segs))
    BY <1>1, <1>3, MaxGeneration
  <2>2. FirstFree = Max(Present(segs)) + 1
    BY <1>3 DEF FirstFree
  <2> QED
    <3>1. Max(Present(segs)) \in Nat /\ Max(Present(segs)) <= MaxGen
      BY <2>1, GensAreNat
    <3>2. \A g \in Present(segs) : g \in Nat
      BY <1>1, GensAreNat
    <3> QED
      BY <2>1, <2>2, <3>1, <3>2, BoundsAssumption
<1> QED
  BY <1>2, <1>3

LEMMA SequenceIsFunction ==
  ASSUME NEW S, NEW s \in Seq(S)
  PROVE  s \in [1..Len(s) -> S] /\ Len(s) \in Nat /\ DOMAIN s = 1..Len(s)
OBVIOUS

LEMMA PushFront ==
  ASSUME NEW S, NEW x \in S, NEW s \in Seq(S)
  PROVE  <<x>> \in Seq(S) /\ <<x>> \o s \in Seq(S)
OBVIOUS

LEMMA ReadersAreFunction ==
  ASSUME TypeOK
  PROVE  /\ readers \in [1..Len(readers) -> [gen : Gens, data : Maps]]
         /\ Len(readers) \in Nat
         /\ DOMAIN readers = 1..Len(readers)
<1>1. readers \in Seq([gen : Gens, data : Maps])
  BY DEF TypeOK
<1> QED
  BY <1>1, SequenceIsFunction

LEMMA MergedType ==
  ASSUME TypeOK, ReadersMatchFiles
  PROVE  Merged \in Maps
<1> DEFINE maps == [i \in DOMAIN readers |-> segs[readers[i].gen]]
<1>1. /\ readers \in [1..Len(readers) -> [gen : Gens, data : Maps]]
      /\ Len(readers) \in Nat
  BY ReadersAreFunction
<1>2. maps \in [1..Len(readers) -> Maps]
  BY <1>1 DEF ReadersMatchFiles
<1>3. ASSUME NEW k \in Keys
      PROVE  Live(FirstCell(maps, k)) \in Cells \cup {Absent}
  <2>1. FirstCell(maps, k) \in Cells \cup {Absent}
    BY <1>1, <1>2, FirstCellType
  <2> QED
    BY <2>1, LiveType DEF Cells
<1> QED
  BY <1>3 DEF Merged, Maps

LEMMA GensFinite == IsFiniteSet(Gens)
  BY BoundsAssumption, FS_Interval DEF Gens

(* The marker a compaction writes is one that recovery accepts.            *)
LEMMA NewMarker ==
  ASSUME TypeOK, ReadersInv, Len(readers) >= 2
  PROVE  /\ ReaderGens \subseteq Present(segs)
         /\ \A g \in ReaderGens : g < nextGen
         /\ Cardinality(ReaderGens) >= 2
<1>1. /\ readers \in [1..Len(readers) -> [gen : Gens, data : Maps]]
      /\ Len(readers) \in Nat
  BY ReadersAreFunction
<1>2. ReaderGens \subseteq Present(segs)
  BY <1>1, FilesAssumption DEF ReaderGens, Present, ReadersInv, ReadersMatchFiles
<1>3. \A g \in ReaderGens : g < nextGen
  BY DEF ReaderGens, ReadersInv
<1>4. IsFiniteSet(ReaderGens)
  <2>1. ReaderGens \in SUBSET Gens
    BY <1>1 DEF ReaderGens
  <2> QED
    BY <2>1, GensFinite, FS_Subset
<1>5. 1 \in DOMAIN readers /\ 2 \in DOMAIN readers
  BY <1>1
<1>6. readers[1].gen \in ReaderGens /\ readers[2].gen \in ReaderGens
  BY <1>5 DEF ReaderGens
<1>7. readers[1].gen # readers[2].gen
  <2>1. readers[1].gen > readers[2].gen
    BY <1>5 DEF ReadersInv, ReadersNewestFirst
  <2>2. readers[1].gen \in Nat /\ readers[2].gen \in Nat
    BY <1>1, <1>5, GensAreNat
  <2> QED
    BY <2>1, <2>2
<1>8. Cardinality(ReaderGens) >= 2
  BY <1>4, <1>6, <1>7, TwoElements
<1> QED
  BY <1>2, <1>3, <1>8

-----------------------------------------------------------------------------
(* Footprints: which steps change which part of the state, and what they   *)
(* do to the control state. *)

USE DEF
  Next, Client, Set, Delete, Write, Verify, Begin, Progress,
  WriteStep, WalAppend, WalAppendFails, WalSync,
  FlushStep, FlushClearTemp, FlushCreate, FlushFinish, FlushRename,
  FlushOpen, FlushOpenFails, FlushUndo, WalSetLen, WalTruncSync,
  CompactStep, CompactPlan, CompactCreate, CompactFinish, MarkerCheck,
  MarkerCheckFails, MarkerCreate, MarkerRename, MarkerWriteFails, MarkerUndo,
  CompactRename, CompactRenameFails, CompactOpen, CompactOpenFails,
  UndoFinal, UndoMarker, UndoTmp, RemoveOld, RemoveOldDone, RemoveMarker,
  OpenStep, Restart, Recover, DropTemp, DropMarker, Validate, SweepOld,
  SweepOldDone, RemoveStaleTemp, RemoveStaleTempsDone, LoadSegments, Replay,
  ReplayFails, CallError, OpenError, Crash,
  At, Goto, Return, Refuse, Forget, vars, disk, memory, control

LEMMA WalChanges ==
  ASSUME Next
  PROVE  \/ UNCHANGED wal
         \/ WalAppend \/ WalAppendFails \/ WalSetLen \/ Replay \/ Verify \/ Crash
BY SMTT(30) DEF Compact

LEMMA SegsChanges ==
  ASSUME Next
  PROVE  \/ UNCHANGED segs
         \/ FlushRename \/ FlushUndo \/ CompactRename \/ UndoFinal
         \/ RemoveOld \/ SweepOld
BY SMTT(30) DEF Compact

LEMMA TmpsChanges ==
  ASSUME Next
  PROVE  \/ UNCHANGED tmps
         \/ \E g : tmps' = [tmps EXCEPT ![g] = NoFile]
         \/ FlushCreate \/ FlushFinish \/ FlushRename
         \/ CompactCreate \/ CompactFinish \/ CompactRename
BY SMTT(30) DEF Compact

LEMMA MarkerChanges ==
  ASSUME Next
  PROVE  \/ UNCHANGED marker
         \/ MarkerRename
         \/ marker' = NoMarker
BY SMTT(30) DEF Compact, RemoveMarkerIgnoringErrors

LEMMA MemChanges ==
  ASSUME Next
  PROVE  UNCHANGED mem \/ WalSync \/ Replay \/ mem' = EmptyMap
BY SMTT(30) DEF Compact

LEMMA ReadersChanges ==
  ASSUME Next
  PROVE  \/ UNCHANGED <<readers, nextGen>>
         \/ FlushOpen \/ CompactOpen \/ LoadSegments
         \/ readers' = <<>> /\ nextGen' = 1 /\ pc' = "down"
BY SMTT(30) DEF Compact

LEMMA TodoChanges ==
  ASSUME Next
  PROVE  \/ todo' \in {todo, {}}
         \/ CompactOpen \/ RemoveOld \/ Validate \/ SweepOld
BY SMTT(30) DEF Compact

LEMMA CallChanges ==
  ASSUME Next
  PROVE  \/ call' \in {call, NoCall, [op |-> "compact"]}
         \/ \E k \in Keys, c \in Cells : call' = [op |-> "write", key |-> k, cell |-> c]
BY SMTT(30) DEF Compact, Cells

LEMMA ControlType ==
  ASSUME TypeOK, Next
  PROVE  /\ pc' \in Points
         /\ ret' \in {"none", "ok", "err", "open_err"}
         /\ markerTmp' \in BOOLEAN
<1>1. pc' \in Points
  BY SMTT(30) DEF Compact, TypeOK, Points, FaultPoints, CallErrors, OpenErrors,
                  HandledErrors
<1>2. ret' \in {"none", "ok", "err", "open_err"}
  BY SMTT(30) DEF Compact, TypeOK
<1>3. UNCHANGED markerTmp \/ markerTmp' = TRUE \/ markerTmp' = FALSE
  BY ZenonT(30) DEF Compact
<1>4. markerTmp' \in BOOLEAN
  BY <1>3, Zenon DEF TypeOK
<1> QED
  BY <1>1, <1>2, <1>4

LEMMA WriteInvStep ==
  ASSUME WriteInv, Next
  PROVE  WriteInv'
BY SMTT(30) DEF Compact, WriteInv, CallErrors, OpenErrors

LEMMA GenInvStep ==
  ASSUME TypeOK, GenInv, Next
  PROVE  GenInv'
<1>1. nextGen \in Nat /\ MaxGen \in Nat
  BY BoundsAssumption DEF TypeOK
<1> QED
  BY <1>1, SMTT(30) DEF Compact, GenInv, GenAfterCompaction, UsesNextGen,
       Merging, Undoing, BeforeFlushed, CallErrors, OpenErrors

(* What is renamed or opened has just been put there.                      *)
LEMMA InstallSteps ==
  ASSUME Next,
         pc' \in {"flush_rename", "flush_open", "marker_check", "marker_create",
                 "marker_rename", "compact_rename", "compact_open"}
  PROVE  \/ FlushFinish \/ FlushRename \/ CompactFinish \/ MarkerCheck
         \/ MarkerCreate \/ MarkerRename \/ CompactRename
BY SMTT(30) DEF Compact, CallErrors, OpenErrors

LEMMA ReadersControl ==
  ASSUME TypeOK, ReadersInv, Next
  PROVE  /\ pc' \in Opening => readers' = <<>>
         /\ pc' \in Merging => Len(readers') >= 2
<1>1. pc' \in Opening => readers' = <<>>
  BY SMTT(30) DEF Compact, TypeOK, ReadersInv, Opening, Points, FaultPoints,
                  CallErrors, OpenErrors, HandledErrors
<1>2. pc' \in Merging => Len(readers') >= 2
  BY SMTT(30) DEF Compact, TypeOK, ReadersInv, Merging, Points, FaultPoints,
                  CallErrors, OpenErrors, HandledErrors
<1> QED
  BY <1>1, <1>2

LEMMA RemovalControl ==
  ASSUME Next
  PROVE  /\ pc' = "old_remove" => CompactOpen \/ RemoveOld
         /\ pc' = "old_sweep" => Validate \/ SweepOld
BY SMTT(30) DEF Compact, CallErrors, OpenErrors

LEMMA MarkerControl ==
  ASSUME MarkerInv, Next
  PROVE  /\ pc' \in Resolved => marker' = NoMarker
         /\ pc' \in {"compact_rename", "compact_open"} =>
              MarkerRename \/ CompactRename
         /\ pc' \in Running => pc \in Running \cup {"replay"}
<1>1. pc' \in Resolved => marker' = NoMarker
  BY SMTT(30) DEF Compact, MarkerInv, Resolved, CallErrors, OpenErrors
<1>2. pc' \in {"compact_rename", "compact_open"} => MarkerRename \/ CompactRename
  BY SMTT(30) DEF Compact, CallErrors, OpenErrors
<1>3. pc' \in Running => pc \in Running \cup {"replay"}
  BY SMTT(30) DEF Compact, Running, Resolved, Opening, Points, FaultPoints,
                  CallErrors, OpenErrors, HandledErrors
<1> QED
  BY <1>1, <1>2, <1>3

LEMMA SweepControl ==
  ASSUME MarkerInv, Next, pc' \in Sweeping
  PROVE  /\ marker' # NoMarker /\ UNCHANGED marker
         /\ segs[marker.output] # NoFile
         /\ pc \in Sweeping \cup {"recover"}
BY SMTT(30) DEF Compact, MarkerInv, Sweeping, RollsForward, CallErrors, OpenErrors

HIDE DEF
  Next, Client, Set, Delete, Write, Verify, Begin, Progress,
  WriteStep, WalAppend, WalAppendFails, WalSync,
  FlushStep, FlushClearTemp, FlushCreate, FlushFinish, FlushRename,
  FlushOpen, FlushOpenFails, FlushUndo, WalSetLen, WalTruncSync,
  CompactStep, CompactPlan, CompactCreate, CompactFinish, MarkerCheck,
  MarkerCheckFails, MarkerCreate, MarkerRename, MarkerWriteFails, MarkerUndo,
  CompactRename, CompactRenameFails, CompactOpen, CompactOpenFails,
  UndoFinal, UndoMarker, UndoTmp, RemoveOld, RemoveOldDone, RemoveMarker,
  OpenStep, Restart, Recover, DropTemp, DropMarker, Validate, SweepOld,
  SweepOldDone, RemoveStaleTemp, RemoveStaleTempsDone, LoadSegments, Replay,
  ReplayFails, CallError, OpenError, Crash,
  At, Goto, Return, Refuse, Forget, vars, disk, memory, control

-----------------------------------------------------------------------------
(* Every step keeps the invariant, part by part *)

LEMMA NextGenIsGen ==
  ASSUME TypeOK, GenInv, pc \in UsesNextGen
  PROVE  nextGen \in Gens
BY BoundsAssumption DEF TypeOK, GenInv, Gens

LEMMA InstallInvStep ==
  ASSUME IInv, Next
  PROVE  InstallInv'
<1>1. TypeOK /\ GenInv /\ InstallInv /\ ReadersMatchFiles
  BY DEF IInv, ReadersInv
<1>2. CASE FlushFinish
  <2>1. nextGen \in Gens /\ mem \in Maps
    BY <1>1, <1>2, NextGenIsGen
       DEF FlushFinish, At, UsesNextGen, BeforeFlushed, TypeOK
  <2>2. tmps' = [tmps EXCEPT ![nextGen] = mem] /\ nextGen' = nextGen
    BY <1>2 DEF FlushFinish, memory
  <2>3. tmps'[nextGen'] \in Maps
    BY <1>1, <2>1, <2>2 DEF TypeOK
  <2> QED
    BY <1>2, <2>3 DEF FlushFinish, Goto, InstallInv
<1>3. CASE CompactFinish
  <2>1. nextGen \in Gens /\ Merged \in Maps
    BY <1>1, <1>3, NextGenIsGen, MergedType
       DEF CompactFinish, At, UsesNextGen, Merging
  <2>2. tmps' = [tmps EXCEPT ![nextGen] = Merged] /\ nextGen' = nextGen
    BY <1>3 DEF CompactFinish, memory
  <2>3. tmps'[nextGen'] \in Maps
    BY <1>1, <2>1, <2>2 DEF TypeOK
  <2> QED
    BY <1>3, <2>3 DEF CompactFinish, Goto, InstallInv
<1>4. CASE FlushRename \/ CompactRename
  <2>1. nextGen \in Gens /\ tmps[nextGen] \in Maps
    BY <1>1, <1>4, NextGenIsGen
       DEF FlushRename, CompactRename, At, UsesNextGen, BeforeFlushed, Merging,
           InstallInv
  <2>2. segs' = [segs EXCEPT ![nextGen] = tmps[nextGen]] /\ nextGen' = nextGen
    BY <1>4 DEF FlushRename, CompactRename, InstallSegment, memory
  <2>3. segs'[nextGen'] \in Maps
    BY <1>1, <2>1, <2>2 DEF TypeOK
  <2> QED
    BY <1>4, <2>3 DEF FlushRename, CompactRename, Goto, InstallInv
<1>5. CASE MarkerCheck \/ MarkerCreate \/ MarkerRename
  BY <1>1, <1>5
     DEF MarkerCheck, MarkerCreate, MarkerRename, At, Goto, memory, InstallInv
<1> QED
  BY <1>2, <1>3, <1>4, <1>5, InstallSteps DEF InstallInv

(* No step touches a file that the process serves from.                    *)
LEMMA OpenFilesUntouched ==
  ASSUME IInv, Next
  PROVE  \A i \in DOMAIN readers : segs'[readers[i].gen] = segs[readers[i].gen]
<1>1. TypeOK /\ ReadersInv /\ RemovalInv
  BY DEF IInv
<1>2. SUFFICES ASSUME NEW i \in DOMAIN readers
               PROVE  segs'[readers[i].gen] = segs[readers[i].gen]
  OBVIOUS
<1> DEFINE r == readers[i].gen
<1>3. r \in Gens /\ r \in Nat
  BY <1>1, ReadersAreFunction, GensAreNat
<1>4. r < nextGen /\ nextGen \in Nat
  BY <1>1 DEF ReadersInv, TypeOK
<1>5. DOMAIN segs = Gens
  BY <1>1 DEF TypeOK
<1>6. CASE FlushRename \/ CompactRename \/ FlushUndo \/ UndoFinal
  <2>1. segs' = segs \/ \E c : segs' = [segs EXCEPT ![nextGen] = c]
    BY <1>6 DEF FlushRename, CompactRename, FlushUndo, UndoFinal,
                InstallSegment, RemoveFinal
  <2> QED
    BY <1>3, <1>4, <1>5, <2>1
<1>7. CASE RemoveOld
  <2>1. todo \subseteq Gens /\ todo # {} /\ r \notin todo
    BY <1>1, <1>7 DEF RemoveOld, At, RemovalInv, TypeOK
  <2>2. Max(todo) \in todo
    BY <2>1, MaxGeneration
  <2>3. segs' = segs \/ segs' = [segs EXCEPT ![Max(todo)] = NoFile]
    BY <1>7 DEF RemoveOld
  <2> QED
    BY <1>3, <1>5, <2>1, <2>2, <2>3
<1>8. CASE SweepOld
  BY <1>1, <1>8 DEF SweepOld, At, ReadersInv, Opening, OpenErrors
<1>9. CASE UNCHANGED segs
  BY <1>9
<1> QED
  BY <1>6, <1>7, <1>8, <1>9, SegsChanges

(* The segment that a flush or a compaction opens.                         *)
LEMMA OpenedSegment ==
  ASSUME IInv, FlushOpen \/ CompactOpen
  PROVE  [gen |-> nextGen, data |-> segs[nextGen]] \in [gen : Gens, data : Maps]
<1>1. nextGen \in Gens
  BY NextGenIsGen DEF IInv, FlushOpen, CompactOpen, At, UsesNextGen,
                      BeforeFlushed, Merging
<1>2. segs[nextGen] \in Maps
  BY DEF IInv, InstallInv, FlushOpen, CompactOpen, At
<1> QED
  BY <1>1, <1>2

LEMMA ReadersInvStep ==
  ASSUME IInv, Next
  PROVE  ReadersInv'
<1>1. TypeOK /\ ReadersInv /\ ReadersNewestFirst /\ ReadersMatchFiles
  BY DEF IInv, ReadersInv
<1>2. /\ readers \in [1..Len(readers) -> [gen : Gens, data : Maps]]
      /\ readers \in Seq([gen : Gens, data : Maps])
      /\ Len(readers) \in Nat
      /\ DOMAIN readers = 1..Len(readers)
  BY <1>1, ReadersAreFunction DEF TypeOK
<1>3. \A i \in DOMAIN readers : readers[i].gen \in Nat /\ readers[i].gen < nextGen
  BY <1>1, <1>2, GensAreNat DEF ReadersInv
<1>4. nextGen \in Nat
  BY <1>1 DEF TypeOK
<1> DEFINE Good == /\ ReadersNewestFirst
                   /\ ReadersMatchFiles
                   /\ \A i \in DOMAIN readers : readers[i].gen < nextGen
<1>5. CASE UNCHANGED <<readers, nextGen>>
  <2>1. ReadersNewestFirst'
    BY <1>1, <1>5 DEF ReadersNewestFirst
  <2>2. ReadersMatchFiles'
    BY <1>1, <1>5, OpenFilesUntouched DEF ReadersMatchFiles
  <2>3. Good'
    BY <1>3, <1>5, <2>1, <2>2
  <2> QED
    BY <1>1, <2>3, ReadersControl DEF ReadersInv
<1>6. CASE FlushOpen
  <2> DEFINE new == [gen |-> nextGen, data |-> segs[nextGen]]
  <2>1. new \in [gen : Gens, data : Maps]
    BY <1>6, OpenedSegment
  <2>2. readers' = <<new>> \o readers /\ nextGen' = nextGen + 1 /\ segs' = segs
    BY <1>6 DEF FlushOpen, disk
  <2>3. /\ Len(readers') = Len(readers) + 1
        /\ DOMAIN readers' = 1..(Len(readers) + 1)
        /\ readers'[1] = new
        /\ \A i \in 2..(Len(readers) + 1) : readers'[i] = readers[i - 1]
    <3> HIDE DEF new
    <3>1. <<new>> \in Seq([gen : Gens, data : Maps])
      BY <2>1
    <3> QED
      BY <1>2, <2>2, <3>1
  <2>4. new.gen = nextGen /\ new.data = segs[nextGen]
    OBVIOUS
  <2>5. \A i \in 2..(Len(readers) + 1) : i - 1 \in DOMAIN readers
    BY <1>2
  <2> HIDE DEF new
  <2>6. \A i \in DOMAIN readers' :
           /\ readers'[i].gen \in Nat /\ readers'[i].gen <= nextGen
           /\ i # 1 => readers'[i].gen < nextGen
           /\ segs'[readers'[i].gen] = readers'[i].data
    <3> TAKE i \in DOMAIN readers'
    <3>1. CASE i = 1
      BY <1>4, <2>2, <2>3, <2>4, <3>1
    <3>2. CASE i # 1
      <4>1. i \in 2..(Len(readers) + 1) /\ i - 1 \in DOMAIN readers
        BY <1>2, <2>3, <3>2
      <4>2. readers'[i] = readers[i - 1]
        BY <2>3, <4>1
      <4>3. /\ readers[i - 1].gen \in Nat /\ readers[i - 1].gen < nextGen
            /\ segs[readers[i - 1].gen] = readers[i - 1].data
        BY <1>1, <1>3, <4>1 DEF ReadersMatchFiles
      <4> QED
        BY <1>4, <2>2, <4>2, <4>3
    <3> QED
      BY <3>1, <3>2
  <2>7. ReadersNewestFirst'
    <3> SUFFICES ASSUME NEW i \in DOMAIN readers', NEW j \in DOMAIN readers', i < j
                 PROVE  readers'[i].gen > readers'[j].gen
      BY DEF ReadersNewestFirst
    <3>1. j \in 2..(Len(readers) + 1) /\ i \in 1..(Len(readers) + 1)
      BY <1>2, <2>3
    <3>2. CASE i = 1
      BY <1>4, <2>3, <2>4, <2>6, <3>1, <3>2
    <3>3. CASE i # 1
      <4>1. i \in 2..(Len(readers) + 1)
        BY <3>1, <3>3
      <4>2. readers[i - 1].gen > readers[j - 1].gen
        <5>1. i - 1 < j - 1
          BY <3>1, <4>1
        <5> QED
          BY <1>1, <2>5, <3>1, <4>1, <5>1 DEF ReadersNewestFirst
      <4> QED
        BY <2>3, <3>1, <4>1, <4>2
    <3> QED
      BY <3>2, <3>3
  <2>8. \A i \in DOMAIN readers' : readers'[i].gen < nextGen'
    BY <1>4, <2>2, <2>6
  <2> QED
    BY <1>1, <2>6, <2>7, <2>8, ReadersControl DEF ReadersInv, ReadersMatchFiles
<1>7. CASE CompactOpen
  <2>1. readers' = <<[gen |-> nextGen, data |-> segs[nextGen]]>>
        /\ nextGen' = nextGen + 1 /\ segs' = segs
    BY <1>7 DEF CompactOpen, Replacement, GenAfterCompaction, disk
  <2>2. DOMAIN readers' = {1} /\ readers'[1].gen = nextGen
        /\ readers'[1].data = segs[nextGen]
    BY <2>1
  <2>3. Good'
    BY <1>4, <2>1, <2>2 DEF ReadersNewestFirst, ReadersMatchFiles
  <2> QED
    BY <1>1, <2>3, ReadersControl DEF ReadersInv
<1>8. CASE LoadSegments
  <2>1. PICK l \in Listings(Present(segs)) :
          readers' = [i \in DOMAIN l |-> [gen |-> l[i], data |-> segs[l[i]]]]
    BY <1>8 DEF LoadSegments
  <2>2. /\ l \in [1..Cardinality(Present(segs)) -> Present(segs)]
        /\ \A i, j \in DOMAIN l : i < j => l[i] > l[j]
    BY <2>1 DEF Listings
  <2>3. nextGen' = FirstFree /\ segs' = segs
    BY <1>8 DEF LoadSegments, disk
  <2>4. DOMAIN readers' = DOMAIN l
        /\ \A i \in DOMAIN l : readers'[i].gen = l[i] /\ readers'[i].data = segs[l[i]]
    BY <2>1
  <2>5. \A i \in DOMAIN l : l[i] \in Present(segs)
    BY <2>2
  <2>6. Good'
    BY <1>1, <2>2, <2>3, <2>4, <2>5, FirstFreeIsNew
       DEF ReadersNewestFirst, ReadersMatchFiles
  <2> QED
    BY <1>1, <2>6, ReadersControl DEF ReadersInv
<1>9. CASE readers' = <<>> /\ nextGen' = 1
  <2>1. DOMAIN readers' = {}
    BY <1>9
  <2>2. Good'
    BY <2>1 DEF ReadersNewestFirst, ReadersMatchFiles
  <2> QED
    BY <1>1, <2>2, ReadersControl DEF ReadersInv
<1> QED
  BY <1>5, <1>6, <1>7, <1>8, <1>9, ReadersChanges

LEMMA RemovalInvStep ==
  ASSUME IInv, Next
  PROVE  RemovalInv'
<1>1. TypeOK /\ ReadersInv /\ RemovalInv /\ ReadersInv'
  BY ReadersInvStep DEF IInv
<1>2. CASE CompactOpen
  <2>1. \A i \in DOMAIN readers : readers[i].gen \in Nat /\ readers[i].gen < nextGen
    BY <1>1, ReadersAreFunction, GensAreNat DEF ReadersInv
  <2>2. nextGen \notin ReaderGens
    BY <2>1 DEF ReaderGens
  <2>3. readers' = <<[gen |-> nextGen, data |-> segs[nextGen]]>>
        /\ todo' = ReaderGens /\ pc' = "old_remove"
    BY <1>2 DEF CompactOpen, Replacement, Replaced
  <2>4. DOMAIN readers' = {1} /\ readers'[1].gen = nextGen
    BY <2>3
  <2> QED
    BY <2>2, <2>3, <2>4 DEF RemovalInv
<1>3. CASE RemoveOld /\ pc' = "old_remove"
  <2>1. todo' \subseteq todo /\ readers' = readers /\ pc = "old_remove"
    BY <1>3 DEF RemoveOld, At, Return, memory
  <2> QED
    BY <1>1, <1>3, <2>1 DEF RemovalInv
<1>4. CASE Validate
  BY <1>4 DEF Validate, RemovalInv, disk
<1>5. CASE SweepOld
  BY <1>1, <1>5 DEF SweepOld, RemovalInv, At
<1>6. CASE pc' \notin {"old_remove", "old_sweep"}
  BY <1>6 DEF RemovalInv
<1> QED
  BY <1>2, <1>3, <1>4, <1>5, <1>6, RemovalControl

LEMMA MarkerTypeStep ==
  ASSUME IInv, Next
  PROVE  MarkerType'
<1>1. TypeOK /\ GenInv /\ MarkerType
  BY DEF IInv
<1>2. CASE MarkerRename
  <2>1. nextGen \in Gens
    BY <1>1, <1>2, NextGenIsGen DEF MarkerRename, At, UsesNextGen, Merging
  <2>2. marker'.output = nextGen
    BY <1>2 DEF MarkerRename
  <2> QED
    BY <2>1, <2>2 DEF MarkerType
<1>3. CASE UNCHANGED marker \/ marker' = NoMarker
  BY <1>1, <1>3 DEF MarkerType
<1> QED
  BY <1>2, <1>3, MarkerChanges

(* A step keeps every segment file but those it has reason to remove.      *)
LEMMA SegsKept ==
  ASSUME IInv, Next, NEW g \in Present(segs)
  PROVE  \/ g \in Present(segs')
         \/ g = nextGen /\ pc \in {"flush_undo", "undo_final"}
         \/ g \in todo /\ pc \in {"old_remove", "old_sweep"}
<1>1. TypeOK /\ InstallInv /\ GenInv /\ g \in Gens
  BY DEF IInv, Present
<1>2. CASE FlushRename \/ CompactRename
  <2>1. tmps[nextGen] # NoFile
    BY <1>1, <1>2, FilesAssumption DEF FlushRename, CompactRename, At, InstallInv
  <2>2. segs' = [segs EXCEPT ![nextGen] = tmps[nextGen]]
    BY <1>2 DEF FlushRename, CompactRename, InstallSegment
  <2> QED
    BY <1>1, <2>1, <2>2 DEF Present, TypeOK
<1>3. CASE FlushUndo \/ UndoFinal
  <2>1. segs' = segs \/ segs' = [segs EXCEPT ![nextGen] = NoFile]
    BY <1>3 DEF FlushUndo, UndoFinal, RemoveFinal
  <2>2. pc \in {"flush_undo", "undo_final"}
    BY <1>3 DEF FlushUndo, UndoFinal, At
  <2> QED
    BY <1>1, <2>1, <2>2 DEF Present, TypeOK
<1>4. CASE RemoveOld \/ SweepOld
  <2>1. todo \subseteq Gens /\ todo # {} /\ pc \in {"old_remove", "old_sweep"}
    BY <1>1, <1>4 DEF RemoveOld, SweepOld, At, TypeOK
  <2>2. Max(todo) \in todo
    BY <2>1, MaxGeneration
  <2>3. segs' = segs \/ segs' = [segs EXCEPT ![Max(todo)] = NoFile]
    BY <1>4 DEF RemoveOld, SweepOld
  <2> QED
    BY <1>1, <2>1, <2>2, <2>3 DEF Present, TypeOK
<1>5. CASE UNCHANGED segs
  BY <1>5 DEF Present
<1> QED
  BY <1>2, <1>3, <1>4, <1>5, SegsChanges

(* A marker in force at a running process, or at one that resumes it.      *)
LEMMA RecoverableStep ==
  ASSUME IInv, Next
  PROVE  Recoverable'
<1>1. TypeOK /\ ReadersInv /\ RemovalInv /\ MarkerInv /\ MarkerType /\ Recoverable
  BY DEF IInv, MarkerInv
<1>2. SUFFICES ASSUME marker' # NoMarker
               PROVE  /\ WellFormed(marker')
                      /\ \/ marker'.output \in Present(segs')
                         \/ marker'.old \subseteq Present(segs')
  <2>1. marker' # NoMarker => marker'.output \in Gens
    BY MarkerTypeStep DEF MarkerType
  <2> QED
    BY <2>1 DEF Recoverable, Present
<1>3. CASE MarkerRename
  <2>1. Len(readers) >= 2
    BY <1>1, <1>3 DEF MarkerRename, At, ReadersInv, Merging
  <2>2. marker' = [output |-> nextGen, old |-> ReaderGens] /\ segs' = segs
    BY <1>3 DEF MarkerRename
  <2> QED
    BY <1>1, <2>1, <2>2, NewMarker DEF WellFormed, Present
<1>4. CASE UNCHANGED marker
  <2>1. marker # NoMarker /\ WellFormed(marker) /\ marker.output \in Gens
    BY <1>1, <1>2, <1>4 DEF Recoverable, MarkerType
  <2>2. \A g \in marker.old : g \in Nat /\ g < marker.output
    BY <1>1, <2>1, GensAreNat DEF WellFormed, TypeOK, Markers
  <2>3. marker.output \in Nat /\ nextGen \in Nat
    <3>1. marker.output \in Nat
      BY <2>1, GensAreNat
    <3>2. nextGen \in 1..(MaxGen + 1)
      BY <1>1 DEF TypeOK
    <3> QED
      BY <3>1, <3>2
  <2>4. CASE pc \in {"flush_undo", "undo_final", "old_remove"}
    <3>1. pc \in Running
      BY <2>4 DEF Running, Points, FaultPoints, CallErrors, OpenErrors,
                  HandledErrors, Opening, Resolved
    <3>2. CASE marker.output = nextGen /\ marker.old \subseteq Present(segs)
                /\ pc # "old_remove"
      <4>1. \A g \in marker.old : g # nextGen
        BY <2>2, <2>3, <3>2
      <4>2. marker.old \subseteq Present(segs')
        BY <2>4, <3>2, <4>1, SegsKept
      <4> QED
        BY <1>4, <2>1, <4>2
    <3>3. CASE marker.output \in ReaderGens
      <4>1. PICK i \in DOMAIN readers : readers[i].gen = marker.output
        BY <3>3 DEF ReaderGens
      <4>2. segs[marker.output] \in Maps /\ segs'[marker.output] = segs[marker.output]
        BY <1>1, <4>1, ReadersAreFunction, OpenFilesUntouched
           DEF ReadersInv, ReadersMatchFiles
      <4>3. marker.output \in Present(segs')
        BY <2>1, <4>2, FilesAssumption DEF Present
      <4> QED
        BY <1>4, <2>1, <4>3
    <3> QED
      BY <1>1, <2>1, <2>4, <3>1, <3>2, <3>3 DEF MarkerInv
  <2>5. CASE pc = "old_sweep"
    <3>1. todo \subseteq marker.old /\ marker.output \in Present(segs)
      BY <1>1, <2>1, <2>5 DEF RemovalInv, MarkerInv, Sweeping, Present
    <3>2. marker.output \notin todo
      BY <2>2, <2>3, <3>1
    <3>3. marker.output \in Present(segs')
      BY <2>5, <3>1, <3>2, SegsKept
    <3> QED
      BY <1>4, <2>1, <3>3
  <2>6. CASE pc \notin {"flush_undo", "undo_final", "old_remove", "old_sweep"}
    <3>1. Present(segs) \subseteq Present(segs')
      BY <2>6, SegsKept
    <3>2. marker.output \in Present(segs) \/ marker.old \subseteq Present(segs)
      BY <1>1, <2>1 DEF Recoverable, Present
    <3> QED
      BY <1>4, <2>1, <3>1, <3>2
  <2> QED
    BY <2>4, <2>5, <2>6
<1> QED
  BY <1>2, <1>3, <1>4, MarkerChanges

LEMMA MarkerInvStep ==
  ASSUME IInv, Next
  PROVE  MarkerInv'
<1>1. TypeOK /\ ReadersInv /\ RemovalInv /\ MarkerInv /\ MarkerType /\ Recoverable
  BY DEF IInv, MarkerInv
<1>2. (pc \in Sweeping => marker # NoMarker /\ segs[marker.output] # NoFile)'
  <2> SUFFICES ASSUME pc' \in Sweeping
               PROVE  (marker # NoMarker /\ segs[marker.output] # NoFile)'
    OBVIOUS
  <2>1. /\ marker' # NoMarker /\ marker' = marker
        /\ segs[marker.output] # NoFile
        /\ pc \in Sweeping \cup {"recover"}
    BY <1>1, SweepControl
  <2>2. marker.output \in Present(segs)
    BY <1>1, <2>1 DEF MarkerType, Present
  <2>3. marker.output \notin todo \/ pc # "old_sweep"
    <3>1. \A g \in marker.old : g \in Nat /\ g < marker.output
      BY <1>1, <2>1, GensAreNat DEF Recoverable, WellFormed, TypeOK, Markers
    <3>2. marker.output \in Nat
      BY <1>1 DEF TypeOK, Markers
    <3>3. marker.output \notin marker.old
      BY <3>1, <3>2
    <3> QED
      BY <1>1, <3>3 DEF RemovalInv
  <2>4. pc \notin {"flush_undo", "undo_final", "old_remove"}
    BY <2>1 DEF Sweeping
  <2>5. marker.output \in Present(segs')
    BY <2>2, <2>3, <2>4, SegsKept
  <2> QED
    BY <2>1, <2>5 DEF Present
<1>3. (pc \in {"compact_rename", "compact_open"} =>
         marker = [output |-> nextGen, old |-> ReaderGens])'
  <2>1. CASE MarkerRename
    BY <2>1 DEF MarkerRename, ReaderGens, memory
  <2>2. CASE CompactRename
    BY <1>1, <2>2 DEF CompactRename, At, MarkerInv, ReaderGens, memory
  <2> QED
    BY <1>1, <2>1, <2>2, MarkerControl
<1>4. (pc = "old_remove" => marker.output \in ReaderGens)'
  <2>1. CASE CompactOpen
    <3>1. marker'.output = nextGen
      BY <1>1, <2>1 DEF CompactOpen, At, MarkerInv, disk
    <3>2. readers' = <<[gen |-> nextGen, data |-> segs[nextGen]]>>
      BY <2>1 DEF CompactOpen, Replacement
    <3>3. 1 \in DOMAIN readers' /\ readers'[1].gen = nextGen
      BY <3>2
    <3> QED
      BY <3>1, <3>3 DEF ReaderGens
  <2>2. CASE RemoveOld
    BY <1>1, <2>2 DEF RemoveOld, At, MarkerInv, ReaderGens, memory
  <2> QED
    BY <2>1, <2>2, RemovalControl
<1>5. (pc \in Running /\ marker # NoMarker =>
         \/ marker.output = nextGen /\ marker.old \subseteq Present(segs)
         \/ marker.output \in ReaderGens)'
  <2> SUFFICES ASSUME pc' \in Running, marker' # NoMarker
               PROVE  \/ /\ marker'.output = nextGen'
                         /\ marker'.old \subseteq Present(segs')
                      \/ marker'.output \in ReaderGens'
    BY DEF Present
  <2>1. CASE MarkerRename
    <3>1. Len(readers) >= 2
      BY <1>1, <2>1 DEF MarkerRename, At, ReadersInv, Merging
    <3> QED
      BY <1>1, <2>1, <3>1, NewMarker DEF MarkerRename, memory, Present
  <2>2. CASE UNCHANGED marker
    <3>1. pc \in Running
      <4>1. pc \in Running \cup {"replay"}
        BY <1>1, MarkerControl
      <4>2. pc # "replay"
        BY <1>1, <2>2 DEF MarkerInv, Resolved
      <4> QED
        BY <4>1, <4>2
    <3>2. \/ marker.output = nextGen /\ marker.old \subseteq Present(segs)
          \/ marker.output \in ReaderGens
      BY <1>1, <2>2, <3>1 DEF MarkerInv
    <3>3. CASE UNCHANGED <<readers, nextGen>>
      <4>1. CASE marker.output \in ReaderGens
        BY <2>2, <3>3, <4>1 DEF ReaderGens
      <4>2. CASE /\ marker.output = nextGen /\ marker.old \subseteq Present(segs)
                 /\ marker.output \notin ReaderGens
        <5>1. pc \notin {"old_remove", "old_sweep"}
          BY <1>1, <3>1, <4>2 DEF MarkerInv, Running, Opening, OpenErrors
        <5>2. \A g \in marker.old : g < marker.output
          BY <1>1, <2>2 DEF Recoverable, WellFormed
        <5>3. marker.output \in Nat
          BY <1>1 DEF TypeOK, Markers
        <5>4. \A g \in marker.old : g # nextGen
          BY <4>2, <5>2, <5>3
        <5>5. marker.old \subseteq Present(segs')
          BY <4>2, <5>1, <5>4, SegsKept
        <5> QED
          BY <2>2, <3>3, <4>2, <5>5
      <4> QED
        BY <3>2, <4>1, <4>2
    <3>4. CASE FlushOpen
      <4>1. /\ readers' = <<[gen |-> nextGen, data |-> segs[nextGen]]>> \o readers
            /\ [gen |-> nextGen, data |-> segs[nextGen]] \in [gen : Gens, data : Maps]
        BY <3>4, OpenedSegment DEF FlushOpen
      <4>2. readers \in Seq([gen : Gens, data : Maps])
        BY <1>1 DEF TypeOK
      <4>3. 1 \in DOMAIN readers' /\ readers'[1].gen = nextGen
        BY <4>1, <4>2
      <4>4. \A i \in DOMAIN readers :
               i + 1 \in DOMAIN readers' /\ readers'[i + 1] = readers[i]
        BY <4>1, <4>2
      <4> QED
        BY <2>2, <3>2, <4>3, <4>4 DEF ReaderGens
    <3>5. CASE CompactOpen
      BY <1>4, <3>5 DEF CompactOpen
    <3>6. CASE LoadSegments \/ pc' = "down"
      BY <3>6 DEF LoadSegments, Goto, Running, Resolved, Opening
    <3> QED
      BY <3>3, <3>4, <3>5, <3>6, ReadersChanges
  <2> QED
    BY <2>1, <2>2, MarkerChanges
<1> QED
  BY <1>1, <1>2, <1>3, <1>4, <1>5, MarkerControl, RecoverableStep DEF MarkerInv

-----------------------------------------------------------------------------
(* Every step keeps the types *)

LEMMA WalType ==
  ASSUME IInv, Next
  PROVE  wal' \in Seq(Records \cup {Torn})
<1>1. wal \in Seq(Records \cup {Torn}) /\ call \in Calls
  BY DEF IInv, TypeOK
<1>2. Append(wal, Torn) \in Seq(Records \cup {Torn})
  BY <1>1
<1>3. CASE WalAppend
  <2>1. call.op = "write"
    BY <1>3 DEF WalAppend, At, IInv, WriteInv
  <2>2. [key |-> call.key, cell |-> call.cell] \in Records
    BY <1>1, <2>1 DEF Calls, Records
  <2>3. wal' = Append(wal, [key |-> call.key, cell |-> call.cell])
    BY <1>3 DEF WalAppend
  <2> QED
    BY <1>1, <2>2, <2>3
<1>4. CASE WalAppendFails \/ Crash
  BY <1>1, <1>2, <1>4 DEF WalAppendFails, Crash
<1>5. CASE WalSetLen
  BY <1>5 DEF WalSetLen
<1>6. CASE Replay \/ Verify
  BY <1>1, <1>6, ValidPrefixType DEF Replay, Verify
<1>7. CASE UNCHANGED wal
  BY <1>1, <1>7
<1> QED
  BY <1>3, <1>4, <1>5, <1>6, <1>7, WalChanges

LEMMA FilesType ==
  ASSUME IInv, Next
  PROVE  /\ segs' \in [Gens -> Maps \cup {NoFile}]
         /\ tmps' \in [Gens -> Maps \cup {Partial, NoFile}]
<1>1. /\ TypeOK /\ GenInv /\ ReadersMatchFiles
      /\ segs \in [Gens -> Maps \cup {NoFile}]
      /\ tmps \in [Gens -> Maps \cup {Partial, NoFile}]
  BY DEF IInv, TypeOK, ReadersInv
<1>2. segs' \in [Gens -> Maps \cup {NoFile}]
  <2>1. CASE FlushRename \/ CompactRename
    <3>1. tmps[nextGen] \in Maps
      BY <2>1 DEF FlushRename, CompactRename, At, IInv, InstallInv
    <3>2. segs' = [segs EXCEPT ![nextGen] = tmps[nextGen]]
      BY <2>1 DEF FlushRename, CompactRename, InstallSegment
    <3> QED
      BY <1>1, <3>1, <3>2
  <2>2. CASE \/ UNCHANGED segs \/ FlushUndo \/ UndoFinal
             \/ RemoveOld \/ SweepOld
    <3>1. segs' = segs \/ \E g : segs' = [segs EXCEPT ![g] = NoFile]
      BY <2>2 DEF FlushUndo, UndoFinal, RemoveFinal, RemoveOld, SweepOld
    <3> QED
      BY <1>1, <3>1
  <2> QED
    BY <2>1, <2>2, SegsChanges
<1>3. tmps' \in [Gens -> Maps \cup {Partial, NoFile}]
  <2>1. mem \in Maps /\ Merged \in Maps
    BY <1>1, MergedType DEF TypeOK
  <2>2. UNCHANGED tmps \/ \E g, c : /\ tmps' = [tmps EXCEPT ![g] = c]
                                   /\ c \in {NoFile, Partial, mem, Merged}
    <3>1. CASE FlushCreate \/ FlushFinish \/ CompactFinish
      BY <3>1 DEF FlushCreate, FlushFinish, CompactFinish
    <3>2. CASE FlushRename \/ CompactRename
      BY <3>2 DEF FlushRename, CompactRename, InstallSegment
    <3>3. CASE CompactCreate
      BY <3>3 DEF CompactCreate
    <3> QED
      BY <3>1, <3>2, <3>3, TmpsChanges
  <2> QED
    BY <1>1, <2>1, <2>2
<1> QED
  BY <1>2, <1>3

LEMMA MemoryType ==
  ASSUME IInv, Next
  PROVE  /\ mem' \in Maps
         /\ readers' \in Seq([gen : Gens, data : Maps])
         /\ nextGen' \in 1..(MaxGen + 1)
<1>1. TypeOK /\ GenInv /\ mem \in Maps /\ readers \in Seq([gen : Gens, data : Maps])
  BY DEF IInv, TypeOK
<1>2. mem' \in Maps
  <2>1. CASE WalSync
    <3>1. call \in Calls /\ call.op = "write"
      BY <1>1, <2>1 DEF WalSync, At, IInv, WriteInv, TypeOK
    <3>2. call.key \in Keys /\ call.cell \in Cells
      BY <3>1 DEF Calls
    <3>3. mem' = [mem EXCEPT ![call.key] = call.cell]
      BY <2>1 DEF WalSync
    <3> QED
      BY <1>1, <3>2, <3>3 DEF Maps
  <2>2. CASE Replay
    BY <2>2, WalType, AppliedType DEF Replay
  <2> QED
    BY <1>1, <2>1, <2>2, MemChanges, EmptyMapType
<1>3. /\ readers' \in Seq([gen : Gens, data : Maps])
      /\ nextGen' \in 1..(MaxGen + 1)
  <2>1. CASE UNCHANGED <<readers, nextGen>>
    BY <1>1, <2>1 DEF TypeOK
  <2>2. CASE FlushOpen \/ CompactOpen
    <3> DEFINE new == [gen |-> nextGen, data |-> segs[nextGen]]
    <3>1. new \in [gen : Gens, data : Maps]
      BY <2>2, OpenedSegment
    <3>2. readers' \in {<<new>>, <<new>> \o readers} /\ nextGen' = nextGen + 1
      BY <2>2 DEF FlushOpen, CompactOpen, Replacement, GenAfterCompaction
    <3>3. nextGen \in Gens
      BY <1>1, <2>2, NextGenIsGen DEF FlushOpen, CompactOpen, At, UsesNextGen,
                                      BeforeFlushed, Merging
    <3>4. nextGen' \in 1..(MaxGen + 1)
      BY <3>2, <3>3, BoundsAssumption DEF Gens
    <3> HIDE DEF new
    <3>5. readers' \in Seq([gen : Gens, data : Maps])
      BY <1>1, <3>1, <3>2, PushFront
    <3> QED
      BY <3>4, <3>5
  <2>3. CASE LoadSegments
    <3>1. PICK l \in Listings(Present(segs)) :
            readers' = [i \in DOMAIN l |-> [gen |-> l[i], data |-> segs[l[i]]]]
      BY <2>3 DEF LoadSegments
    <3> DEFINE n == Cardinality(Present(segs))
    <3>2. l \in [1..n -> Present(segs)]
      BY <3>1 DEF Listings
    <3>3. n \in Nat
      <4>1. IsFiniteSet(Present(segs))
        BY GensFinite, FS_Subset DEF Present
      <4> QED
        BY <4>1, FS_CardinalityType
    <3>4. \A i \in 1..n : [gen |-> l[i], data |-> segs[l[i]]] \in [gen : Gens, data : Maps]
      BY <1>1, <3>2 DEF Present, TypeOK
    <3> HIDE DEF n
    <3>5. readers' \in [1..n -> [gen : Gens, data : Maps]]
      BY <3>1, <3>2, <3>4
    <3>6. readers' \in Seq([gen : Gens, data : Maps])
      BY <3>3, <3>5, SeqDef
    <3>7. nextGen' = FirstFree
      BY <2>3 DEF LoadSegments
    <3> QED
      BY <1>1, <3>6, <3>7, FirstFreeIsNew
  <2>4. CASE readers' = <<>> /\ nextGen' = 1
    BY <2>4, BoundsAssumption
  <2> QED
    BY <2>1, <2>2, <2>3, <2>4, ReadersChanges
<1> QED
  BY <1>2, <1>3

LEMMA ControlStateType ==
  ASSUME IInv, Next
  PROVE  call' \in Calls /\ todo' \in SUBSET Gens
<1>1. /\ TypeOK /\ call \in Calls /\ todo \in SUBSET Gens
      /\ marker \in Markers
  BY DEF IInv, TypeOK
<1>2. call' \in Calls
  <2>1. call' \in {call, NoCall, [op |-> "compact"]} => call' \in Calls
    BY <1>1, NoCallType DEF Calls
  <2>2. (\E k \in Keys, c \in Cells : call' = [op |-> "write", key |-> k, cell |-> c])
          => call' \in Calls
    BY DEF Calls
  <2> QED
    BY <2>1, <2>2, CallChanges
<1>3. todo' \in SUBSET Gens
  <2>1. CASE CompactOpen
    <3>1. ReaderGens \subseteq Gens
      BY <1>1, ReadersAreFunction DEF ReaderGens
    <3> QED
      BY <2>1, <3>1 DEF CompactOpen, Replaced
  <2>2. CASE RemoveOld \/ SweepOld
    BY <1>1, <2>2 DEF RemoveOld, SweepOld, Return
  <2>3. CASE Validate
    BY <1>1, <2>3 DEF Validate, Markers
  <2>4. CASE todo' \in {todo, {}}
    BY <1>1, <2>4
  <2> QED
    BY <2>1, <2>2, <2>3, <2>4, TodoChanges
<1> QED
  BY <1>2, <1>3

LEMMA MarkersType ==
  ASSUME IInv, Next
  PROVE  marker' \in Markers
<1>1. TypeOK /\ marker \in Markers /\ nextGen \in Nat
  BY DEF IInv, TypeOK
<1>2. CASE MarkerRename
  <2>1. ReaderGens \subseteq Gens
    BY <1>1, ReadersAreFunction DEF ReaderGens
  <2> QED
    BY <1>1, <1>2, <2>1 DEF MarkerRename, Markers
<1> QED
  BY <1>1, <1>2, MarkerChanges, NoMarkerType

LEMMA TypeStep ==
  ASSUME IInv, Next
  PROVE  TypeOK'
<1>1. TypeOK
  BY DEF IInv
<1> QED
  BY <1>1, WalType, FilesType, MarkersType, MemoryType, ControlStateType, ControlType
     DEF TypeOK

-----------------------------------------------------------------------------
(* The theorems *)

LEMMA InitIInv == Init => IInv
<1> SUFFICES ASSUME Init PROVE IInv
  OBVIOUS
<1> USE DEF Init
<1>1. TypeOK
  <2>1. /\ wal \in Seq(Records \cup {Torn})
        /\ readers \in Seq([gen : Gens, data : Maps])
    OBVIOUS
  <2>2. /\ segs \in [Gens -> Maps \cup {NoFile}]
        /\ tmps \in [Gens -> Maps \cup {Partial, NoFile}]
    OBVIOUS
  <2>3. nextGen \in 1..(MaxGen + 1) /\ todo \in SUBSET Gens
    BY BoundsAssumption
  <2> QED
    BY <2>1, <2>2, <2>3, EmptyMapType, NoMarkerType, NoCallType DEF TypeOK, Points
<1>2. WriteInv /\ GenInv /\ InstallInv /\ RemovalInv
  BY DEF WriteInv, GenInv, InstallInv, RemovalInv, UsesNextGen, BeforeFlushed,
         Merging, Undoing
<1>3. ReadersInv
  BY DEF ReadersInv, ReadersNewestFirst, ReadersMatchFiles, Opening, Merging
<1>4. MarkerInv /\ MarkerType
  BY DEF MarkerInv, MarkerType, Recoverable, Resolved, Running, Sweeping, Opening
<1> QED
  BY <1>1, <1>2, <1>3, <1>4 DEF IInv

(* IInv is inductive: one lemma for each of its parts.                     *)
LEMMA StepIInv == IInv /\ [Next]_vars => IInv'
<1> SUFFICES ASSUME IInv, [Next]_vars PROVE IInv'
  OBVIOUS
<1>1. CASE Next
  BY <1>1, TypeStep, WriteInvStep, GenInvStep, InstallInvStep, ReadersInvStep,
     RemovalInvStep, MarkerInvStep, MarkerTypeStep
     DEF IInv
<1>2. CASE UNCHANGED vars
  <2>1. UNCHANGED <<wal, segs, tmps, marker, markerTmp, mem, readers, nextGen,
                    pc, call, todo, ret>>
    BY <1>2 DEF vars, disk, memory, control
  <2> QED
    BY <2>1 DEF IInv, TypeOK, WriteInv, GenInv, InstallInv, ReadersInv,
      RemovalInv, MarkerInv, MarkerType, ReadersNewestFirst, ReadersMatchFiles,
      Recoverable, WellFormed, ReaderGens, Present
<1> QED
  BY <1>1, <1>2

(* Whatever system calls fail and wherever the process is killed, every    *)
(* control point of store.rs finds the files and the memory it relies on.  *)
THEOREM InductiveInvariant == Spec => []IInv
BY InitIInv, StepIInv, PTL DEF Spec

(* The variables of the store keep their types.                            *)
THEOREM TypeCorrect == Spec => []TypeOK
<1>1. IInv => TypeOK
  BY DEF IInv
<1> QED
  BY <1>1, InductiveInvariant, PTL

(* Store::segments stays ordered from the newest segment to the oldest:    *)
(* what Store::get relies on to stop at its first hit.                     *)
THEOREM NewestFirst == Spec => []ReadersNewestFirst
<1>1. IInv => ReadersNewestFirst
  BY DEF IInv, ReadersInv
<1> QED
  BY <1>1, InductiveInvariant, PTL

(* No step of a flush, a compaction, an undo or a recovery removes or      *)
(* overwrites the file of a segment the running process serves from.       *)
THEOREM OpenSegmentsAreSafe == Spec => []ReadersMatchFiles
<1>1. IInv => ReadersMatchFiles
  BY DEF IInv, ReadersInv
<1> QED
  BY <1>1, InductiveInvariant, PTL

(* Any marker on disk is one that recover_pending_compaction can finish or *)
(* roll back: its output is there, or all the segments it replaces are.    *)
THEOREM AlwaysRecoverable == Spec => []Recoverable
<1>1. IInv => Recoverable
  BY DEF IInv, MarkerInv
<1> QED
  BY <1>1, InductiveInvariant, PTL

(* A segment file is only ever replaced under the number that is not used   *)
(* up, and no open segment has that one: flushes and compactions install   *)
(* over nothing but what a failed one of them has left.                    *)
THEOREM SegmentsNeverRewritten == Spec => SegmentsImmutable
<1>1. IInv /\ [Next]_vars => [NoOverwrite]_vars
  <2>1. SUFFICES ASSUME IInv, Next PROVE NoOverwrite
    OBVIOUS
  <2>2. TypeOK /\ ReadersInv /\ RemovalInv
    BY <2>1 DEF IInv
  <2>3. SUFFICES ASSUME NEW g \in Gens,
                        segs[g] # NoFile, segs'[g] \notin {segs[g], NoFile}
                 PROVE  g = nextGen /\ \A i \in DOMAIN readers : readers[i].gen # g
    BY DEF NoOverwrite
  <2>4. DOMAIN segs = Gens
    BY <2>2 DEF TypeOK
  <2>5. g = nextGen
    <3>1. CASE FlushRename \/ CompactRename \/ FlushUndo \/ UndoFinal
      <4>1. segs' = segs \/ \E c : segs' = [segs EXCEPT ![nextGen] = c]
        BY <3>1 DEF FlushRename, CompactRename, FlushUndo, UndoFinal,
                    InstallSegment, RemoveFinal
      <4> QED
        BY <2>3, <2>4, <4>1
    <3>2. CASE RemoveOld \/ SweepOld
      <4>1. segs' = segs \/ segs' = [segs EXCEPT ![Max(todo)] = NoFile]
        BY <3>2 DEF RemoveOld, SweepOld
      <4> QED
        BY <2>3, <2>4, <4>1
    <3>3. CASE UNCHANGED segs
      BY <2>3, <3>3
    <3> QED
      BY <2>1, <3>1, <3>2, <3>3, SegsChanges
  <2>6. \A i \in DOMAIN readers : readers[i].gen \in Nat /\ readers[i].gen < nextGen
    BY <2>2, ReadersAreFunction, GensAreNat DEF ReadersInv
  <2>7. nextGen \in Nat
    BY <2>2 DEF TypeOK
  <2> QED
    BY <2>5, <2>6, <2>7
<1> QED
  BY <1>1, InductiveInvariant, PTL DEF Spec, SegmentsImmutable

-----------------------------------------------------------------------------
(* What the files, the memtable and the log hold *)

(* To read a value that was read gives the same.                           *)
LEMMA LiveTwice ==
  ASSUME NEW c
  PROVE  Live(Live(c)) = Live(c)
BY ValuesAssumption DEF Live, Cells

LEMMA LiveAbsent == Live(Absent) = Absent
BY DEF Live

(* The first of a sequence of maps that mentions a key.                    *)
IsFirst(maps, k, i) ==
  /\ maps[i][k] # Absent
  /\ \A j \in DOMAIN maps : j < i => maps[j][k] = Absent

(* It decides.                                                             *)
LEMMA FirstCellIs ==
  ASSUME NEW n \in Nat, NEW maps, DOMAIN maps = 1..n, NEW k, NEW i \in 1..n,
         IsFirst(maps, k, i)
  PROVE  FirstCell(maps, k) = maps[i][k]
<1> DEFINE hits == {j \in DOMAIN maps : maps[j][k] # Absent}
<1>1. i \in hits /\ hits \subseteq Nat
  BY DEF IsFirst
<1>2. \A j \in hits : i <= j
  BY DEF IsFirst
<1>3. Min(hits) = i
  <2> HIDE DEF hits
  <2> QED BY <1>1, <1>2, MinIs
<1> QED
  BY <1>1, <1>3 DEF FirstCell

LEMMA FirstCellNone ==
  ASSUME NEW maps, NEW k, \A j \in DOMAIN maps : maps[j][k] = Absent
  PROVE  FirstCell(maps, k) = Absent
BY DEF FirstCell

(* There is one, or the key is in none.                                    *)
LEMMA FirstCellCases ==
  ASSUME NEW n \in Nat, NEW maps, DOMAIN maps = 1..n, NEW k
  PROVE  \/ \A j \in 1..n : maps[j][k] = Absent
         \/ \E i \in 1..n : IsFirst(maps, k, i)
<1> DEFINE hits == {j \in 1..n : maps[j][k] # Absent}
<1>1. SUFFICES ASSUME hits # {}
               PROVE  \E i \in 1..n : IsFirst(maps, k, i)
  OBVIOUS
<1>2. hits \subseteq Nat
  OBVIOUS
<1>3. PICK i \in hits : \A j \in hits : i <= j
  <2> HIDE DEF hits
  <2> QED BY <1>1, <1>2, LeastExists
<1>4. \A j \in 1..n : j < i => maps[j][k] = Absent
  BY <1>3
<1> QED
  BY <1>3, <1>4 DEF IsFirst

-----------------------------------------------------------------------------
(* Logs *)

LEMMA LogIsFunction ==
  ASSUME NEW log \in Seq(Records \cup {Torn})
  PROVE  /\ Len(log) \in Nat /\ DOMAIN log = 1..Len(log)
         /\ \A i \in 1..Len(log) : log[i] \in Records \cup {Torn}
OBVIOUS

LEMMA AppliedEmpty == Applied(<<>>) = EmptyMap
BY DEF Applied, EmptyMap

(* The last record of a key is what the log says of it.                    *)
LEMMA AppliedIs ==
  ASSUME NEW log \in Seq(Records \cup {Torn}), NEW i \in 1..Len(log), log[i] # Torn,
         log[i].key \in Keys,
         \A j \in 1..Len(log) : j > i => log[j] = Torn \/ log[j].key # log[i].key
  PROVE  Applied(log)[log[i].key] = log[i].cell
<1> DEFINE k == log[i].key
           hits == {j \in DOMAIN log : log[j] # Torn /\ log[j].key = k}
<1>1. Len(log) \in Nat /\ DOMAIN log = 1..Len(log)
  BY LogIsFunction
<1>2. i \in hits /\ hits \subseteq Nat /\ \A j \in hits : j <= i
  BY <1>1
<1>3. Max(hits) = i
  <2> HIDE DEF hits
  <2> QED BY <1>2, MaxIs
<1>4. Applied(log)[k] = IF hits = {} THEN Absent ELSE log[Max(hits)].cell
  BY DEF Applied
<1> QED
  BY <1>2, <1>3, <1>4

(* Whole logs are read to the end.                                         *)
LEMMA WholeLog ==
  ASSUME NEW log, TornAt(log) = {}
  PROVE  ValidPrefix(log) = log
BY DEF ValidPrefix

(* What can be read of a log has no cut, and is read as it is.             *)
LEMMA ValidPrefixIsWhole ==
  ASSUME NEW log \in Seq(Records \cup {Torn})
  PROVE  TornAt(ValidPrefix(log)) = {}
<1>1. CASE TornAt(log) = {}
  BY <1>1 DEF ValidPrefix
<1>2. CASE TornAt(log) # {}
  <2> DEFINE m == Min(TornAt(log))
  <2>1. TornAt(log) \subseteq Nat /\ TornAt(log) \subseteq 1..Len(log)
    BY DEF TornAt
  <2>2. m \in 1..Len(log) /\ \A i \in TornAt(log) : m <= i
    BY <1>2, <2>1, MinIsLeast
  <2>3. ValidPrefix(log) = SubSeq(log, 1, m - 1)
    BY <1>2 DEF ValidPrefix
  <2> HIDE DEF m
  <2>4. /\ DOMAIN SubSeq(log, 1, m - 1) = 1..(m - 1)
        /\ \A i \in 1..(m - 1) : SubSeq(log, 1, m - 1)[i] = log[i]
    BY <2>2
  <2>5. \A i \in 1..(m - 1) : i \notin TornAt(log) /\ i \in DOMAIN log
    BY <2>2
  <2> QED
    BY <2>3, <2>4, <2>5 DEF TornAt
<1> QED
  BY <1>1, <1>2

LEMMA ValidPrefixTwice ==
  ASSUME NEW log \in Seq(Records \cup {Torn})
  PROVE  ValidPrefix(ValidPrefix(log)) = ValidPrefix(log)
BY ValidPrefixIsWhole, WholeLog

(* An append that is cut takes nothing with it.                            *)
LEMMA TornAppend ==
  ASSUME NEW log \in Seq(Records \cup {Torn}), TornAt(log) = {}
  PROVE  /\ ValidPrefix(Append(log, Torn)) = log
         /\ TornAt(Append(log, Torn)) = {Len(log) + 1}
<1> DEFINE longer == Append(log, Torn)
           n == Len(log)
<1>1. /\ n \in Nat /\ DOMAIN log = 1..n /\ DOMAIN longer = 1..(n + 1)
      /\ \A i \in 1..n : longer[i] = log[i]
      /\ longer[n + 1] = Torn
  OBVIOUS
<1>2. \A i \in 1..n : log[i] # Torn
  BY <1>1 DEF TornAt
<1>3. TornAt(longer) = {n + 1}
  BY <1>1, <1>2 DEF TornAt
<1>4. Min(TornAt(longer)) = n + 1
  BY <1>1, <1>3, MinIs
<1>5. SubSeq(longer, 1, n) = log
  OBVIOUS
<1>6. ValidPrefix(longer) = SubSeq(longer, 1, (n + 1) - 1)
  BY <1>3, <1>4, Zenon DEF ValidPrefix
<1>7. (n + 1) - 1 = n
  BY <1>1
<1> QED
  BY <1>3, <1>5, <1>6, <1>7, Zenon

(* A whole record that is appended to a whole log is the last of its key.  *)
LEMMA WholeAppend ==
  ASSUME NEW log \in Seq(Records \cup {Torn}), TornAt(log) = {}, NEW r \in Records
  PROVE  /\ TornAt(Append(log, r)) = {}
         /\ Applied(Append(log, r)) = [Applied(log) EXCEPT ![r.key] = r.cell]
<1> DEFINE longer == Append(log, r)
           n == Len(log)
<1>1. /\ n \in Nat /\ DOMAIN log = 1..n /\ DOMAIN longer = 1..(n + 1)
      /\ \A i \in 1..n : longer[i] = log[i]
      /\ longer[n + 1] = r
      /\ longer \in Seq(Records \cup {Torn}) /\ Len(longer) = n + 1
  OBVIOUS
<1>2. r # Torn /\ r.key \in Keys
  BY FilesAssumption DEF Records
<1>3. TornAt(longer) = {}
  BY <1>1, <1>2 DEF TornAt
<1>4. Applied(longer)[r.key] = r.cell
  <2> HIDE DEF longer
  <2>1. n + 1 \in 1..Len(longer) /\ \A j \in 1..Len(longer) : ~ (j > n + 1)
    BY <1>1
  <2> QED
    BY <1>1, <1>2, <2>1, AppliedIs
<1>5. ASSUME NEW k \in Keys, k # r.key
      PROVE  Applied(longer)[k] = Applied(log)[k]
  <2> DEFINE Hits(l) == {i \in DOMAIN l : l[i] # Torn /\ l[i].key = k}
  <2>1. Hits(longer) = Hits(log)
    BY <1>1, <1>5
  <2>2. \A i \in Hits(log) : longer[i] = log[i]
    BY <1>1
  <2>3. CASE Hits(log) = {}
    BY <2>1, <2>3 DEF Applied
  <2>4. CASE Hits(log) # {}
    <3>1. Hits(log) \subseteq Nat /\ \A i \in Hits(log) : i <= n
      BY <1>1
    <3>2. Max(Hits(log)) \in Hits(log)
      <4> HIDE DEF Hits
      <4> QED BY <1>1, <2>4, <3>1, MaxIsGreatest
    <3>3. longer[Max(Hits(longer))].cell = log[Max(Hits(log))].cell
      BY <2>1, <2>2, <3>2
    <3>4. /\ Applied(longer)[k] = IF Hits(longer) = {} THEN Absent ELSE longer[Max(Hits(longer))].cell
          /\ Applied(log)[k] = IF Hits(log) = {} THEN Absent ELSE log[Max(Hits(log))].cell
      BY DEF Applied
    <3> QED
      BY <2>1, <3>3, <3>4
  <2> QED
    BY <2>3, <2>4
<1>6. /\ Applied(longer) = [k \in Keys |-> Applied(longer)[k]]
      /\ Applied(log) = [k \in Keys |-> Applied(log)[k]]
  BY DEF Applied
<1>7. \A k \in Keys : Applied(longer)[k] = [Applied(log) EXCEPT ![r.key] = r.cell][k]
  BY <1>2, <1>4, <1>5, <1>6
<1>8. Applied(longer) = [Applied(log) EXCEPT ![r.key] = r.cell]
  <2>1. DOMAIN [Applied(log) EXCEPT ![r.key] = r.cell] = Keys
    BY <1>6
  <2> HIDE DEF longer
  <2> QED
    BY <1>6, <1>7, <2>1
<1> QED
  BY <1>3, <1>8

-----------------------------------------------------------------------------
(* Open segments *)

(* A segment in front of the others hides them for the keys it mentions.   *)
LEMMA FrontCell ==
  ASSUME NEW rs \in Seq([gen : Gens, data : Maps]),
         NEW r \in [gen : Gens, data : Maps], NEW k
  PROVE  FirstCell([i \in DOMAIN (<<r>> \o rs) |-> (<<r>> \o rs)[i].data], k) =
           IF r.data[k] # Absent
           THEN r.data[k]
           ELSE FirstCell([i \in DOMAIN rs |-> rs[i].data], k)
<1> DEFINE n == Len(rs)
           maps == [i \in DOMAIN rs |-> rs[i].data]
           more == [i \in DOMAIN (<<r>> \o rs) |-> (<<r>> \o rs)[i].data]
<1>1. /\ n \in Nat /\ DOMAIN rs = 1..n
      /\ DOMAIN (<<r>> \o rs) = 1..(n + 1)
      /\ (<<r>> \o rs)[1] = r
      /\ \A i \in 1..n : (<<r>> \o rs)[i + 1] = rs[i]
  OBVIOUS
<1>2. /\ DOMAIN maps = 1..n /\ DOMAIN more = 1..(n + 1)
      /\ more[1] = r.data
      /\ \A i \in 1..n : more[i + 1] = maps[i]
  BY <1>1
<1>3. n \in Nat /\ n + 1 \in Nat /\ 1 \in 1..(n + 1)
  BY <1>1
<1>4. \A j \in 1..(n + 1) : j = 1 \/ (j - 1 \in 1..n /\ (j - 1) + 1 = j)
  BY <1>1
<1> HIDE DEF n, maps, more
<1>5. CASE r.data[k] # Absent
  <2>1. IsFirst(more, k, 1)
    BY <1>2, <1>3, <1>5 DEF IsFirst
  <2>2. FirstCell(more, k) = more[1][k]
    BY <1>2, <1>3, <2>1, FirstCellIs
  <2> QED
    BY <1>2, <1>5, <2>2 DEF more
<1>6. CASE r.data[k] = Absent
  <2>1. CASE \A j \in 1..n : maps[j][k] = Absent
    <3>1. \A j \in 1..(n + 1) : more[j][k] = Absent
      BY <1>2, <1>4, <1>6, <2>1
    <3>2. FirstCell(more, k) = Absent /\ FirstCell(maps, k) = Absent
      BY <1>2, <2>1, <3>1, FirstCellNone
    <3> QED
      BY <1>6, <3>2 DEF more, maps
  <2>2. CASE \E i \in 1..n : IsFirst(maps, k, i)
    <3>1. PICK i \in 1..n : IsFirst(maps, k, i)
      BY <2>2
    <3>2. FirstCell(maps, k) = maps[i][k]
      BY <1>2, <1>3, <3>1, FirstCellIs
    <3>3. i + 1 \in 1..(n + 1) /\ i \in Nat
      BY <1>3, <3>1
    <3>4. IsFirst(more, k, i + 1)
      <4>1. ASSUME NEW j \in 1..(n + 1), j < i + 1
            PROVE  more[j][k] = Absent
        <5>1. j = 1 \/ (j - 1 \in 1..n /\ j - 1 < i /\ (j - 1) + 1 = j)
          BY <1>3, <1>4, <3>3, <4>1
        <5> QED
          BY <1>2, <1>6, <3>1, <5>1 DEF IsFirst
      <4> QED
        BY <1>2, <3>1, <4>1 DEF IsFirst
    <3>5. FirstCell(more, k) = more[i + 1][k]
      BY <1>2, <1>3, <3>3, <3>4, FirstCellIs
    <3>6. FirstCell(more, k) = FirstCell(maps, k)
      BY <1>2, <3>1, <3>2, <3>5
    <3> QED
      BY <1>6, <3>6, Zenon DEF more, maps
  <2> QED
    BY <1>2, <1>3, <2>1, <2>2, FirstCellCases
<1> QED
  BY <1>5, <1>6

LEMMA OnlyCell ==
  ASSUME NEW r, NEW k
  PROVE  FirstCell([i \in DOMAIN <<r>> |-> <<r>>[i].data], k) = r.data[k]
<1> DEFINE maps == [i \in DOMAIN <<r>> |-> <<r>>[i].data]
<1>1. DOMAIN maps = 1..1 /\ maps[1] = r.data
  OBVIOUS
<1>2. 1 \in Nat /\ 1 \in 1..1 /\ \A j \in 1..1 : j = 1
  OBVIOUS
<1> HIDE DEF maps
<1>3. CASE maps[1][k] # Absent
  <2>1. {i \in DOMAIN maps : maps[i][k] # Absent} = {1}
    BY <1>1, <1>2, <1>3
  <2>2. Min({1}) = 1
    BY MinIs
  <2>3. FirstCell(maps, k) = maps[1][k]
    BY <2>1, <2>2 DEF FirstCell
  <2> QED
    BY <1>1, <2>3 DEF maps
<1>4. CASE maps[1][k] = Absent
  BY <1>1, <1>2, <1>4, FirstCellNone DEF maps
<1> QED
  BY <1>3, <1>4

LEMMA OpenCellType ==
  ASSUME TypeOK, NEW k \in Keys
  PROVE  OpenCell(k) \in Cells \cup {Absent}
<1> DEFINE maps == [i \in DOMAIN readers |-> readers[i].data]
<1>1. maps \in [1..Len(readers) -> Maps] /\ Len(readers) \in Nat
  BY ReadersAreFunction
<1> HIDE DEF maps
<1>2. FirstCell(maps, k) \in Cells \cup {Absent}
  BY <1>1, FirstCellType
<1> QED
  BY <1>2 DEF OpenCell, maps

LEMMA CompactedType ==
  ASSUME TypeOK
  PROVE  Compacted \in Maps
<1>1. \A k \in Keys : Live(OpenCell(k)) \in Cells \cup {Absent}
  BY OpenCellType, LiveType DEF Cells
<1> QED
  BY <1>1 DEF Compacted, Maps

(* The files a compaction reads are those that are open.                   *)
LEMMA MergedIsCompacted ==
  ASSUME ReadersMatchFiles
  PROVE  Merged = Compacted
<1>1. [i \in DOMAIN readers |-> segs[readers[i].gen]] =
        [i \in DOMAIN readers |-> readers[i].data]
  BY DEF ReadersMatchFiles
<1> QED
  BY <1>1 DEF Merged, Compacted, OpenCell

(* The first open segment that mentions a key has the newest file of those *)
(* that do.                                                                *)
LEMMA OpenCellIsNewest ==
  ASSUME TypeOK, ReadersNewestFirst, ReadersMatchFiles, NEW k,
         NEW hits, hits = {g \in ReaderGens : segs[g][k] # Absent}
  PROVE  OpenCell(k) = IF hits = {} THEN Absent ELSE segs[Max(hits)][k]
<1> DEFINE n == Len(readers)
           maps == [i \in DOMAIN readers |-> readers[i].data]
<1>1. n \in Nat /\ DOMAIN readers = 1..n /\ \A i \in 1..n : readers[i].gen \in Gens
  BY ReadersAreFunction
<1>2. DOMAIN maps = 1..n /\ \A i \in 1..n : maps[i] = segs[readers[i].gen]
  BY <1>1 DEF ReadersMatchFiles
<1>3. OpenCell(k) = FirstCell(maps, k)
  BY DEF OpenCell
<1>4. \A g : g \in ReaderGens <=> \E i \in 1..n : g = readers[i].gen
  BY <1>1 DEF ReaderGens
<1> HIDE DEF n, maps
<1>5. CASE \A j \in 1..n : maps[j][k] = Absent
  <2>1. hits = {}
    BY <1>2, <1>4, <1>5
  <2>2. FirstCell(maps, k) = Absent
    BY <1>2, <1>5, FirstCellNone
  <2> QED
    BY <1>3, <2>1, <2>2
<1>6. CASE \E i \in 1..n : IsFirst(maps, k, i)
  <2>1. PICK i \in 1..n : IsFirst(maps, k, i)
    BY <1>6
  <2>2. FirstCell(maps, k) = maps[i][k]
    BY <1>1, <1>2, <2>1, FirstCellIs
  <2>3. readers[i].gen \in hits
    BY <1>2, <1>4, <2>1 DEF IsFirst
  <2>4. hits \subseteq Nat
    <3>1. hits \subseteq ReaderGens
      OBVIOUS
    <3>2. ReaderGens \subseteq Gens
      BY <1>1, <1>4
    <3> QED
      BY <3>1, <3>2, GensAreNat
  <2>5. ASSUME NEW g \in hits
        PROVE  g <= readers[i].gen
    <3>1. PICK j \in 1..n : g = readers[j].gen
      BY <1>4
    <3>2. ~ (j < i)
      BY <1>2, <2>1, <3>1 DEF IsFirst
    <3>3. i = j \/ i < j
      BY <1>1, <3>2
    <3>4. i = j \/ readers[i].gen > readers[j].gen
      BY <1>1, <3>3 DEF ReadersNewestFirst
    <3>5. readers[i].gen \in Nat /\ readers[j].gen \in Nat
      BY <2>3, <2>4, <3>1
    <3> QED
      BY <3>1, <3>4, <3>5
  <2>6. Max(hits) = readers[i].gen
    BY <2>3, <2>4, <2>5, MaxIs
  <2>7. maps[i] = segs[readers[i].gen] /\ hits # {}
    BY <1>2, <2>1, <2>3
  <2>8. FirstCell(maps, k) = segs[Max(hits)][k]
    BY <2>2, <2>6, <2>7
  <2> QED
    BY <1>3, <2>7, <2>8
<1>7. n \in Nat /\ DOMAIN maps = 1..n
  BY <1>1, <1>2
<1> QED
  BY <1>5, <1>6, <1>7, FirstCellCases

(* Reopening finds what is open now, if the same segments survive.         *)
LEMMA SurvivorsAreOpen ==
  ASSUME TypeOK, ReadersNewestFirst, ReadersMatchFiles, NEW k,
         Survivors = ReaderGens
  PROVE  SurvivorCell(k) = OpenCell(k)
<1> DEFINE hits == {g \in ReaderGens : segs[g][k] # Absent}
<1>1. SurvivorCell(k) = IF hits = {} THEN Absent ELSE segs[Max(hits)][k]
  BY DEF SurvivorCell
<1>2. OpenCell(k) = IF hits = {} THEN Absent ELSE segs[Max(hits)][k]
  <2> HIDE DEF hits
  <2>1. hits = {g \in ReaderGens : segs[g][k] # Absent}
    BY DEF hits
  <2> QED
    BY <2>1, OpenCellIsNewest
<1> HIDE DEF hits
<1> QED
  BY <1>1, <1>2

(* A leftover under the next generation hides them as a newer segment.     *)
LEMMA LeftoverSurvives ==
  ASSUME TypeOK, ReadersInv, NEW k, nextGen \in Gens,
         Survivors = ReaderGens \cup {nextGen}
  PROVE  SurvivorCell(k) = IF segs[nextGen][k] # Absent
                           THEN segs[nextGen][k]
                           ELSE OpenCell(k)
<1> DEFINE open == {g \in ReaderGens : segs[g][k] # Absent}
           hits == {g \in Survivors : segs[g][k] # Absent}
<1>1. ReadersNewestFirst /\ ReadersMatchFiles /\ \A g \in ReaderGens : g < nextGen
  BY DEF ReadersInv, ReaderGens
<1>2. SurvivorCell(k) = IF hits = {} THEN Absent ELSE segs[Max(hits)][k]
  BY DEF SurvivorCell
<1>3. OpenCell(k) = IF open = {} THEN Absent ELSE segs[Max(open)][k]
  <2> HIDE DEF open
  <2>1. open = {g \in ReaderGens : segs[g][k] # Absent}
    BY DEF open
  <2> QED
    BY <1>1, <2>1, OpenCellIsNewest
<1>4. CASE segs[nextGen][k] # Absent
  <2>1. nextGen \in hits
    BY <1>4
  <2>2. hits \subseteq Nat
    <3>1. ReaderGens \subseteq Nat /\ nextGen \in Nat
      BY ReadersAreFunction, GensAreNat DEF ReaderGens
    <3> QED
      BY <3>1
  <2>3. \A g \in hits : g <= nextGen
    <3>1. \A g \in hits : g \in ReaderGens \/ g = nextGen
      OBVIOUS
    <3>2. \A g \in hits : g \in Nat /\ nextGen \in Nat
      BY <2>1, <2>2
    <3> HIDE DEF hits
    <3> QED
      BY <1>1, <3>1, <3>2
  <2>4. Max(hits) = nextGen
    <3> HIDE DEF hits
    <3> QED BY <2>1, <2>2, <2>3, MaxIs
  <2> QED
    BY <1>2, <1>4, <2>1, <2>4
<1>5. CASE segs[nextGen][k] = Absent
  <2>1. hits = open
    BY <1>5
  <2> QED
    BY <1>2, <1>3, <1>5, <2>1, Zenon
<1> QED
  BY <1>4, <1>5

-----------------------------------------------------------------------------
(* Footprints: which steps enter a control point, and with what *)

USE DEF
  Next, Client, Set, Delete, Write, Verify, Begin, Progress,
  WriteStep, WalAppend, WalAppendFails, WalSync,
  FlushStep, FlushClearTemp, FlushCreate, FlushFinish, FlushRename,
  FlushOpen, FlushOpenFails, FlushUndo, WalSetLen, WalTruncSync,
  CompactStep, CompactPlan, CompactCreate, CompactFinish, MarkerCheck,
  MarkerCheckFails, MarkerCreate, MarkerRename, MarkerWriteFails, MarkerUndo,
  CompactRename, CompactRenameFails, CompactOpen, CompactOpenFails,
  UndoFinal, UndoMarker, UndoTmp, RemoveOld, RemoveOldDone, RemoveMarker,
  OpenStep, Restart, Recover, DropTemp, DropMarker, Validate, SweepOld,
  SweepOldDone, RemoveStaleTemp, RemoveStaleTempsDone, LoadSegments, Replay,
  ReplayFails, CallError, OpenError, Crash,
  At, Goto, Return, Refuse, Forget, vars, disk, memory, control,
  Compact, CallErrors, OpenErrors,
  Opening, Resolved, Serving, Between, Flushing, Flushed, Merging, Undoing,
  Compacting, Installing, Removing

LEMMA BetweenCalls ==
  ASSUME CallInv, Next, pc' \in Between
  PROVE  call' = NoCall
BY SMTT(60) DEF CallInv, NoCall

LEMMA DuringCalls ==
  ASSUME CallInv, Next, pc' \notin Between
  PROVE  call'.op # "none"
BY SMTT(60) DEF CallInv

LEMMA CompactCalls ==
  ASSUME TypeOK, CallInv, Next, pc' \in Compacting
  PROVE  call'.op = "compact"
<1>1. call.op \in {"none", "write", "compact"}
  BY DEF TypeOK, Calls
<1> QED
  BY <1>1, SMTT(60) DEF CallInv, NoCall

(* A memtable on its way to a segment was there when the flush began.      *)
LEMMA FlushingMem ==
  ASSUME MemInv, Next, pc' \in Flushing
  PROVE  \/ WalSync /\ OverThreshold(mem')
         \/ mem' # EmptyMap
BY SMTT(60) DEF MemInv

LEMMA CompactingMem ==
  ASSUME MemInv, Next, pc' \in Compacting
  PROVE  mem' = EmptyMap
BY SMTT(60) DEF MemInv

LEMMA FlushedCell ==
  ASSUME MemInv, Next, pc' \in Flushing \cup Flushed, call'.op = "write"
  PROVE  WalSync \/ (/\ call' = call /\ mem' = mem
                     /\ pc \in Flushing \cup Flushed)
BY SMTT(60)

LEMMA FlushSteps ==
  ASSUME Next
  PROVE  /\ pc' = "flush_rename" => FlushFinish
         /\ pc' = "flush_open" => FlushRename
         /\ pc' \in Flushed => FlushOpen \/ WalSetLen
BY SMTT(60)

LEMMA MergeSteps ==
  ASSUME Next
  PROVE  pc' \in {"marker_check", "marker_create", "marker_rename", "compact_rename"} =>
           CompactFinish \/ MarkerCheck \/ MarkerCreate \/ MarkerRename
BY SMTT(60)

(* How a process that has its segments open came to where it is.           *)
LEMMA ServingSteps ==
  ASSUME TypeOK, Next, pc' \in Serving
  PROVE  \/ LoadSegments
         \/ /\ pc \in Serving
            /\ \/ UNCHANGED <<segs, readers, nextGen>>
               \/ FlushRename \/ FlushUndo \/ FlushOpen
               \/ CompactRename \/ UndoFinal \/ CompactOpen \/ RemoveOld
<1>1. pc \in Points
  BY DEF TypeOK
<1> QED
  BY <1>1, SMTT(60) DEF Running, Points, FaultPoints, HandledErrors

LEMMA ServingMem ==
  ASSUME Next, pc' \in Serving
  PROVE  UNCHANGED mem \/ WalSync \/ Replay \/ WalTruncSync
BY SMTT(60) DEF Running, Points, FaultPoints, HandledErrors

(* The control points at which PresentInv says more.                       *)
LEMMA PresentControl ==
  ASSUME Next
  PROVE  /\ pc' \in Flushed => FlushOpen \/ WalSetLen
         /\ pc' = "replay" => LoadSegments
         /\ pc' = "old_remove" => CompactOpen \/ (RemoveOld /\ UNCHANGED call)
         /\ pc' = "marker_remove" => RemoveOldDone
         /\ pc' \in {"marker_create", "marker_rename", "marker_undo"} =>
              \/ pc = "marker_check" /\ marker' = NoMarker
              \/ pc \in {"marker_create", "marker_rename"} /\ UNCHANGED marker
         /\ pc' \in Installing =>
              MarkerRename \/ (pc \in Installing)
         /\ pc' = "old_sweep" => Validate \/ SweepOld
         /\ pc' \in {"sweep_tmp", "sweep_marker"} =>
              SweepOldDone \/ (pc = "sweep_tmp" /\ UNCHANGED <<segs, marker>>)
         /\ pc' \in {"rollback_tmp", "rollback_marker"} =>
              \/ RollsBack /\ UNCHANGED <<segs, marker>>
              \/ pc = "rollback_tmp" /\ UNCHANGED <<segs, marker>>
BY SMTT(60)

LEMMA CompactReturns ==
  ASSUME CallInv, WriteInv, Next, call.op = "compact", pc' = "idle", ret' = "ok"
  PROVE  (CompactPlan /\ Len(readers) < 2) \/ RemoveMarker
BY SMTT(60) DEF CallInv, WriteInv, NoCall

LEMMA RunningSteps ==
  ASSUME TypeOK, Next, pc \in Running, pc' \in Running
  PROVE  \/ UNCHANGED <<wal, mem, readers, nextGen>>
         \/ WalAppend \/ WalAppendFails \/ WalSync \/ WalSetLen \/ WalTruncSync
         \/ FlushOpen \/ CompactOpen \/ Verify
BY SMTT(60) DEF Running

LEMMA ToRunning ==
  ASSUME TypeOK, Next, pc \notin Running, pc' \in Running
  PROVE  Replay
BY SMTT(60) DEF Running, TypeOK, Points, FaultPoints, HandledErrors

LEMMA FromRunning ==
  ASSUME TypeOK, Next, pc \in Running, pc' \notin Running
  PROVE  Crash
<1>1. pc' \in Points
  BY ControlType
<1> QED
  BY <1>1, SMTT(60) DEF Running, Points, FaultPoints, HandledErrors

LEMMA StoppedSteps ==
  ASSUME TypeOK, Next, pc \notin Running, pc' \notin Running
  PROVE  UNCHANGED <<wal, segs, marker>> \/ DropMarker \/ SweepOld
<1>1. pc' \in Points /\ pc \in Points
  BY ControlType DEF TypeOK
<1> QED
  BY <1>1, SMTT(60) DEF Running, Points, FaultPoints, HandledErrors

LEMMA LogControl ==
  ASSUME Next
  PROVE  /\ pc' = "wal_sync" => WalAppend
         /\ pc' = "wal_trunc_sync" => WalSetLen
BY SMTT(60)

LEMMA InstallingSteps ==
  ASSUME Next, pc \in Installing, pc' \in Running
  PROVE  \/ CompactOpen \/ UndoMarker
         \/ pc' \in Installing /\ UNCHANGED <<marker, readers, nextGen>>
BY SMTT(60) DEF Running, Points, FaultPoints, HandledErrors

LEMMA AcknowledgeSteps ==
  ASSUME CallInv, Next, call.op = "write", pc' = "idle", ret' = "ok"
  PROVE  WalSync \/ WalTruncSync
BY SMTT(60) DEF CallInv, NoCall

LEMMA ClientSteps ==
  ASSUME Client
  PROVE  \/ /\ pc = "idle" /\ pc' = "wal_append" /\ ret' = "none"
            /\ \E k \in Keys, c \in Cells :
                 call' = [op |-> "write", key |-> k, cell |-> c]
         \/ /\ pc = "idle" /\ pc' \in {"compact_plan", "flush_clear"}
            /\ ret' = "none" /\ call' = [op |-> "compact"]
         \/ Verify
BY ZenonT(60) DEF Cells

(* The steps by what they do to the call: it begins, it returns, it dies;  *)
(* the store is opened; or the code goes on.                               *)
LEMMA ControlSteps ==
  ASSUME TypeOK, CallInv, Next
  PROVE  \/ Client
         \/ WalAppend
         \/ /\ pc \in Running \ Between /\ pc' = "idle" /\ call' = NoCall
            /\ ret' = "err" \/ (ret' = "ok" /\ pc # "wal_append")
         \/ Crash \/ Replay
         \/ /\ pc \notin Running /\ pc' \notin Running /\ call' = call
            /\ ret' \in {ret, "none", "open_err"}
         \/ /\ {pc, pc'} \subseteq Running \ {"idle", "wal_append"}
            /\ UNCHANGED <<call, ret>>
<1>1. pc \in Points
  BY DEF TypeOK
<1>2. CASE Client
  BY <1>2
<1>3. CASE WriteStep
  BY <1>3, SMTT(60) DEF Running, Points, FaultPoints, HandledErrors
<1>4. CASE FlushStep
  BY <1>4, SMTT(60) DEF Running, Points, FaultPoints, HandledErrors
<1>5. CASE CompactStep
  BY <1>5, SMTT(60) DEF Running, Points, FaultPoints, HandledErrors
<1>6. CASE OpenStep
  BY <1>6, SMTT(60) DEF Running, Points, FaultPoints, HandledErrors
<1>7. CASE CallError \/ OpenError \/ Crash
  BY <1>7, SMTT(60) DEF Running, Points, FaultPoints, HandledErrors
<1> QED
  BY <1>2, <1>3, <1>4, <1>5, <1>6, <1>7

LEMMA SyncSteps ==
  ASSUME Next, pc = "wal_sync", pc' \in Running, "wal_sync" \notin Failing
  PROVE  WalSync
BY SMTT(60) DEF Running, Points, FaultPoints, HandledErrors

(* A marker goes when the compaction is over, or undone, or resolved.      *)
LEMMA MarkerGone ==
  ASSUME TypeOK, Next, pc' \in Serving, marker' = NoMarker, marker # NoMarker
  PROVE  RemoveMarker \/ (UndoMarker /\ pc \in Installing)
<1>1. marker' # [output |-> nextGen, old |-> ReaderGens]
  BY DEF TypeOK, NoMarker
<1> QED
  BY <1>1, SMTT(60) DEF Running, Points, FaultPoints, HandledErrors

LEMMA AppendSteps ==
  ASSUME Next, pc = "wal_append"
  PROVE  UNCHANGED <<segs, tmps, marker, markerTmp>>
BY SMTT(60)

(* Store::open gives up: on a marker, on the log, or for an error.         *)
LEMMA RefusalSteps ==
  ASSUME Next, ret' = "open_err", ret # "open_err"
  PROVE  \/ Recover /\ marker # NoMarker /\ ~ RollsForward /\ ~ RollsBack
         \/ ReplayFails
         \/ pc \in OpenErrors \cap Failing
BY SMTT(60)

LEMMA OpeningAnswers ==
  ASSUME CallInv, Next, pc' \in Opening \cup Resolved
  PROVE  ret' \in {"none", "open_err"}
BY SMTT(60) DEF CallInv

HIDE DEF
  Next, Client, Set, Delete, Write, Verify, Begin, Progress,
  WriteStep, WalAppend, WalAppendFails, WalSync,
  FlushStep, FlushClearTemp, FlushCreate, FlushFinish, FlushRename,
  FlushOpen, FlushOpenFails, FlushUndo, WalSetLen, WalTruncSync,
  CompactStep, CompactPlan, CompactCreate, CompactFinish, MarkerCheck,
  MarkerCheckFails, MarkerCreate, MarkerRename, MarkerWriteFails, MarkerUndo,
  CompactRename, CompactRenameFails, CompactOpen, CompactOpenFails,
  UndoFinal, UndoMarker, UndoTmp, RemoveOld, RemoveOldDone, RemoveMarker,
  OpenStep, Restart, Recover, DropTemp, DropMarker, Validate, SweepOld,
  SweepOldDone, RemoveStaleTemp, RemoveStaleTempsDone, LoadSegments, Replay,
  ReplayFails, CallError, OpenError, Crash,
  At, Goto, Return, Refuse, Forget, vars, disk, memory, control,
  Compact, CallErrors, OpenErrors,
  Opening, Resolved, Serving, Between, Flushing, Flushed, Merging, Undoing,
  Compacting, Installing, Removing

-----------------------------------------------------------------------------
(* Every step keeps FilesInv, part by part *)

LEMMA CallInvStep ==
  ASSUME TypeOK, CallInv, Next
  PROVE  CallInv'
BY BetweenCalls, DuringCalls, CompactCalls, OpeningAnswers DEF CallInv

LEMMA PresentAfter ==
  ASSUME TypeOK, NEW g \in Gens, NEW c, segs' = [segs EXCEPT ![g] = c]
  PROVE  Present(segs') = IF c = NoFile THEN Present(segs) \ {g}
                                        ELSE Present(segs) \cup {g}
BY DEF TypeOK, Present

(* What a segment that is pushed on the open ones, or replaces them, adds. *)
LEMMA ReaderGensAfter ==
  ASSUME TypeOK, FlushOpen \/ CompactOpen
  PROVE  /\ nextGen' = nextGen + 1
         /\ UNCHANGED <<segs, marker>>
         /\ FlushOpen => ReaderGens' = ReaderGens \cup {nextGen}
         /\ CompactOpen => ReaderGens' = {nextGen} /\ Len(readers') = 1
<1>1. nextGen' = nextGen + 1 /\ UNCHANGED <<segs, marker>>
  BY DEF FlushOpen, CompactOpen, GenAfterCompaction, disk
<1>2. CASE FlushOpen
  <2> DEFINE new == [gen |-> nextGen, data |-> segs[nextGen]]
             n == Len(readers)
  <2>1. readers' = <<new>> \o readers /\ new.gen = nextGen
    BY <1>2 DEF FlushOpen
  <2>2. n \in Nat /\ DOMAIN readers = 1..n
    BY ReadersAreFunction
  <2> HIDE DEF new
  <2>3. /\ DOMAIN readers' = 1..(n + 1)
        /\ readers'[1] = new
        /\ \A i \in 1..n : readers'[i + 1] = readers[i]
    <3>1. readers \in Seq([gen : Gens, data : Maps])
      BY DEF TypeOK
    <3> QED
      BY <2>1, <3>1
  <2>4. \A j \in 1..(n + 1) : j = 1 \/ (j - 1 \in 1..n /\ (j - 1) + 1 = j)
    BY <2>2
  <2>5. ReaderGens' \subseteq ReaderGens \cup {nextGen}
    <3> SUFFICES ASSUME NEW j \in 1..(n + 1)
                 PROVE  readers'[j].gen \in ReaderGens \cup {nextGen}
      BY <2>3 DEF ReaderGens
    <3>1. CASE j = 1
      BY <2>1, <2>3, <3>1
    <3>2. CASE j - 1 \in 1..n /\ (j - 1) + 1 = j
      <4>1. readers'[j] = readers[j - 1]
        BY <2>3, <3>2
      <4> QED
        BY <2>2, <3>2, <4>1 DEF ReaderGens
    <3> QED
      BY <2>4, <3>1, <3>2
  <2>6. ReaderGens \subseteq ReaderGens'
    <3> SUFFICES ASSUME NEW i \in 1..n
                 PROVE  readers[i].gen \in ReaderGens'
      BY <2>2 DEF ReaderGens
    <3>1. i + 1 \in 1..(n + 1) /\ readers'[i + 1] = readers[i]
      BY <2>2, <2>3
    <3> QED
      BY <2>3, <3>1 DEF ReaderGens
  <2>7. nextGen \in ReaderGens'
    <3>1. 1 \in 1..(n + 1)
      BY <2>2
    <3> QED
      BY <2>1, <2>3, <3>1 DEF ReaderGens
  <2> QED
    <3>1. ~ CompactOpen
      BY <1>2 DEF FlushOpen, CompactOpen, At
    <3> QED
      BY <1>1, <2>5, <2>6, <2>7, <3>1
<1>3. CASE CompactOpen
  <2>1. readers' = <<[gen |-> nextGen, data |-> segs[nextGen]]>>
    BY <1>3 DEF CompactOpen, Replacement
  <2>2. Len(readers') = 1 /\ DOMAIN readers' = {1} /\ readers'[1].gen = nextGen
    BY <2>1
  <2>3. ~ FlushOpen
    BY <1>3 DEF FlushOpen, CompactOpen, At
  <2> QED
    BY <1>1, <2>2, <2>3 DEF ReaderGens
<1> QED
  BY <1>2, <1>3

(* load_segments opens every segment file.                                 *)
LEMMA LoadsAll ==
  ASSUME TypeOK, LoadSegments
  PROVE  /\ ReaderGens' = Present(segs') /\ UNCHANGED <<segs, marker>>
         /\ \A g \in Present(segs') : g < nextGen'
         /\ nextGen' \in Nat
<1>1. nextGen' = FirstFree /\ UNCHANGED <<segs, marker>>
  BY DEF LoadSegments, disk
<1>2. PICK l \in Listings(Present(segs)) :
        readers' = [i \in DOMAIN l |-> [gen |-> l[i], data |-> segs[l[i]]]]
  BY DEF LoadSegments
<1>3. /\ l \in [1..Cardinality(Present(segs)) -> Present(segs)]
      /\ \A g \in Present(segs) : \E i \in DOMAIN l : l[i] = g
  BY <1>2 DEF Listings
<1>4. DOMAIN readers' = DOMAIN l /\ \A i \in DOMAIN l : readers'[i].gen = l[i]
  BY <1>2
<1>5. ReaderGens' = Present(segs)
  BY <1>3, <1>4 DEF ReaderGens
<1>6. FirstFree \in Nat
  BY FirstFreeIsNew
<1> QED
  BY <1>1, <1>5, <1>6, FirstFreeIsNew

(* What installing or removing a segment under the next generation does.   *)
LEMMA InstallAfter ==
  ASSUME IInv, FlushRename \/ CompactRename
  PROVE  /\ Present(segs') = Present(segs) \cup {nextGen}
         /\ segs' = [segs EXCEPT ![nextGen] = tmps[nextGen]]
         /\ segs'[nextGen] = tmps[nextGen]
         /\ UNCHANGED <<readers, nextGen, mem, call>>
<1>1. nextGen \in Gens /\ TypeOK
  BY NextGenIsGen DEF IInv, FlushRename, CompactRename, At, UsesNextGen,
                      BeforeFlushed, Merging
<1>2. segs' = [segs EXCEPT ![nextGen] = tmps[nextGen]]
      /\ UNCHANGED <<readers, nextGen, mem, call>>
  BY DEF FlushRename, CompactRename, InstallSegment, memory, Goto
<1>3. tmps[nextGen] # NoFile
  BY FilesAssumption DEF IInv, InstallInv, FlushRename, CompactRename, At
<1>4. segs'[nextGen] = tmps[nextGen]
  BY <1>1, <1>2 DEF TypeOK
<1> QED
  BY <1>1, <1>2, <1>3, <1>4, PresentAfter

LEMMA UndoAfter ==
  ASSUME IInv, FlushUndo \/ UndoFinal
  PROVE  /\ segs' = segs \/ Present(segs') = Present(segs) \ {nextGen}
         /\ UNCHANGED <<readers, nextGen, mem>>
<1>1. nextGen \in Gens /\ TypeOK
  BY NextGenIsGen DEF IInv, FlushUndo, UndoFinal, At, UsesNextGen,
                      BeforeFlushed, Undoing
<1>2. segs' = segs \/ segs' = [segs EXCEPT ![nextGen] = NoFile]
  BY DEF FlushUndo, UndoFinal, RemoveFinal
<1>3. UNCHANGED <<readers, nextGen, mem>>
  BY DEF FlushUndo, UndoFinal, memory
<1> QED
  BY <1>1, <1>2, <1>3, PresentAfter

LEMMA RemoveAfter ==
  ASSUME TypeOK, RemoveOld \/ SweepOld
  PROVE  /\ \/ segs' = segs /\ pc' = "idle" /\ RemoveOld
            \/ /\ Present(segs') = Present(segs) \ {Max(todo)}
               /\ todo' = todo \ {Max(todo)}
               /\ UNCHANGED <<pc, call>>
         /\ Max(todo) \in todo /\ Max(todo) \in Gens
         /\ UNCHANGED <<readers, nextGen, mem, marker>>
<1>1. todo \subseteq Gens /\ todo # {}
  BY DEF TypeOK, RemoveOld, SweepOld
<1>2. Max(todo) \in todo /\ Max(todo) \in Gens
  BY <1>1, MaxGeneration
<1>3. \/ segs' = segs /\ pc' = "idle" /\ RemoveOld
      \/ /\ segs' = [segs EXCEPT ![Max(todo)] = NoFile]
         /\ todo' = todo \ {Max(todo)}
         /\ UNCHANGED <<pc, call>>
  BY DEF RemoveOld, SweepOld, Return
<1>4. UNCHANGED <<readers, nextGen, mem, marker>>
  BY DEF RemoveOld, SweepOld, memory
<1> QED
  BY <1>2, <1>3, <1>4, PresentAfter

(* Which segment files there are.                                          *)
LEMMA PresentInvStep ==
  ASSUME IInv, PresentInv, Next
  PROVE  PresentInv'
<1>1. /\ TypeOK /\ ReadersInv /\ MarkerInv
      /\ Present(segs) \subseteq Gens /\ nextGen \in Nat
      /\ Gens \subseteq Nat
  BY GensAreNat DEF IInv, TypeOK, Present
<1>2. pc \in Serving => \A g \in Present(segs) : g <= nextGen
  BY DEF PresentInv
<1> DEFINE Settled == marker = NoMarker \/ pc \in Installing \cup {"marker_remove"}
<1>3. (pc \in Serving => \A g \in Present(segs) : g <= nextGen)'
  <2> SUFFICES ASSUME pc' \in Serving
               PROVE  \A g \in Present(segs') : g <= nextGen'
    OBVIOUS
  <2>1. CASE LoadSegments
    <3>1. /\ \A g \in Present(segs') : g < nextGen'
          /\ nextGen' \in Nat /\ segs' = segs
      BY <1>1, <2>1, LoadsAll
    <3>2. Present(segs') \subseteq Nat
      BY <1>1, <3>1
    <3> QED
      BY <3>1, <3>2
  <2>2. CASE UNCHANGED <<segs, readers, nextGen>> /\ pc \in Serving
    BY <1>2, <2>2
  <2>3. CASE (FlushRename \/ CompactRename) /\ pc \in Serving
    BY <1>1, <1>2, <2>3, InstallAfter
  <2>4. CASE (FlushUndo \/ UndoFinal) /\ pc \in Serving
    BY <1>1, <1>2, <2>4, UndoAfter
  <2>5. CASE (FlushOpen \/ CompactOpen) /\ pc \in Serving
    <3>1. nextGen' = nextGen + 1 /\ segs' = segs
      BY <1>1, <2>5, ReaderGensAfter
    <3>2. \A g \in Present(segs) : g <= nextGen /\ g \in Nat
      BY <1>1, <1>2, <2>5
    <3> QED
      BY <1>1, <3>1, <3>2
  <2>6. CASE RemoveOld /\ pc \in Serving
    BY <1>1, <1>2, <2>6, RemoveAfter
  <2> QED
    BY <1>1, <2>1, <2>2, <2>3, <2>4, <2>5, <2>6, ServingSteps
<1>4. (pc \in {"replay"} \cup Flushed \cup Removing => nextGen \notin Present(segs))'
  <2> SUFFICES ASSUME pc' \in {"replay"} \cup Flushed \cup Removing
               PROVE  nextGen' \notin Present(segs')
    OBVIOUS
  <2>1. CASE LoadSegments
    <3>1. /\ \A g \in Present(segs') : g < nextGen'
          /\ nextGen' \in Nat /\ segs' = segs
      BY <1>1, <2>1, LoadsAll
    <3>2. Present(segs') \subseteq Nat
      BY <1>1, <3>1
    <3> QED
      BY <3>1, <3>2
  <2>2. CASE FlushOpen \/ CompactOpen
    <3>1. nextGen' = nextGen + 1 /\ segs' = segs
      BY <1>1, <2>2, ReaderGensAfter
    <3>2. pc \in Serving
      BY <2>2 DEF FlushOpen, CompactOpen, At, Serving, Running, Points, FaultPoints,
                  HandledErrors, CallErrors, OpenErrors, Opening, Resolved
    <3>3. \A g \in Present(segs) : g <= nextGen /\ g \in Nat
      BY <1>1, <1>2, <3>2
    <3> QED
      BY <1>1, <3>1, <3>3
  <2>3. CASE WalSetLen \/ RemoveOldDone
    BY <2>3 DEF WalSetLen, RemoveOldDone, At, PresentInv, Flushed, Removing, memory, disk
  <2>4. CASE RemoveOld
    <3>1. pc \in Removing
      BY <2>4 DEF RemoveOld, At, Removing
    <3>2. nextGen' = nextGen /\ Present(segs') \subseteq Present(segs)
      BY <1>1, <2>4, RemoveAfter
    <3> QED
      BY <3>1, <3>2 DEF PresentInv
  <2> QED
    BY <2>1, <2>2, <2>3, <2>4, PresentControl DEF Removing
<1>5. (pc \in {"marker_create", "marker_rename", "marker_undo"} => marker = NoMarker)'
  <2> SUFFICES ASSUME pc' \in {"marker_create", "marker_rename", "marker_undo"}
               PROVE  marker' = NoMarker
    OBVIOUS
  <2>1. \/ marker' = NoMarker
        \/ pc \in {"marker_create", "marker_rename"} /\ UNCHANGED marker
    BY PresentControl
  <2> QED
    BY <2>1 DEF PresentInv
<1>6. (pc \in Serving /\ Settled => Present(segs) \ {nextGen} \subseteq ReaderGens)'
  <2> SUFFICES ASSUME pc' \in Serving, Settled'
               PROVE  Present(segs') \ {nextGen'} \subseteq ReaderGens'
    OBVIOUS
  <2>1. CASE LoadSegments
    BY <1>1, <2>1, LoadsAll
  <2>2. ASSUME pc \in Serving
        PROVE  Present(segs) \ {nextGen} \subseteq ReaderGens
    <3>1. CASE Settled
      BY <2>2, <3>1 DEF PresentInv
    <3>2. CASE marker' = NoMarker /\ marker # NoMarker
      <4>1. RemoveMarker \/ pc \in Installing
        BY <1>1, <3>2, MarkerGone
      <4> QED
        BY <2>2, <4>1 DEF RemoveMarker, At, PresentInv
    <3>3. CASE pc' \in Installing
      <4>1. MarkerRename \/ pc \in Installing
        BY <3>3, PresentControl
      <4>2. MarkerRename => marker = NoMarker
        BY DEF MarkerRename, At, PresentInv
      <4> QED
        BY <2>2, <4>1, <4>2 DEF PresentInv
    <3>4. CASE pc' = "marker_remove"
      <4>1. pc = "old_remove" /\ todo = {}
        BY <3>4, PresentControl DEF RemoveOldDone, At
      <4> QED
        BY <4>1 DEF PresentInv
    <3> QED
      BY <3>1, <3>2, <3>3, <3>4
  <2>3. CASE UNCHANGED <<segs, readers, nextGen>> /\ pc \in Serving
    BY <2>2, <2>3 DEF ReaderGens
  <2>4. CASE (FlushRename \/ CompactRename) /\ pc \in Serving
    BY <1>1, <2>2, <2>4, InstallAfter DEF ReaderGens
  <2>5. CASE (FlushUndo \/ UndoFinal) /\ pc \in Serving
    BY <1>1, <2>2, <2>5, UndoAfter DEF ReaderGens
  <2>6. CASE FlushOpen /\ pc \in Serving
    <3>1. /\ segs' = segs
          /\ ReaderGens' = ReaderGens \cup {nextGen}
      BY <1>1, <2>6, ReaderGensAfter
    <3> QED
      BY <2>2, <2>6, <3>1
  <2>7. CASE CompactOpen
    <3>1. marker' = [output |-> nextGen, old |-> ReaderGens]
      BY <1>1, <2>7 DEF CompactOpen, At, MarkerInv, disk
    <3>2. nextGen \in Gens
      BY <1>1, <2>7, NextGenIsGen DEF CompactOpen, At, UsesNextGen, Merging, IInv
    <3>3. marker' # NoMarker
      <4>1. 0 \notin Gens
        BY DEF Gens
      <4> QED
        BY <3>1, <3>2, <4>1 DEF NoMarker
    <3>4. pc' = "old_remove"
      BY <2>7 DEF CompactOpen
    <3> QED
      BY <3>3, <3>4 DEF Installing
  <2>8. CASE RemoveOld /\ pc \in Serving
    BY <1>1, <2>2, <2>8, RemoveAfter DEF ReaderGens
  <2> QED
    BY <1>1, <2>1, <2>3, <2>4, <2>5, <2>6, <2>7, <2>8, ServingSteps
<1>7. (pc = "old_remove" => Present(segs) \subseteq ReaderGens \cup todo)'
  <2> SUFFICES ASSUME pc' = "old_remove"
               PROVE  Present(segs') \subseteq ReaderGens' \cup todo'
    OBVIOUS
  <2>1. CASE CompactOpen
    <3>1. todo' = ReaderGens /\ pc = "compact_open"
      BY <2>1 DEF CompactOpen, Replaced, At
    <3>2. Present(segs) \ {nextGen} \subseteq ReaderGens
      BY <3>1 DEF PresentInv, Installing, Serving, Running, Points, FaultPoints,
                  HandledErrors, CallErrors, OpenErrors, Opening, Resolved
    <3> QED
      BY <1>1, <2>1, <3>1, <3>2, ReaderGensAfter
  <2>2. CASE RemoveOld
    <3>1. /\ Present(segs') = Present(segs) \ {Max(todo)}
          /\ todo' = todo \ {Max(todo)}
          /\ ReaderGens' = ReaderGens
      BY <1>1, <2>2, RemoveAfter DEF ReaderGens
    <3>2. Present(segs) \subseteq ReaderGens \cup todo
      BY <2>2 DEF RemoveOld, At, PresentInv
    <3> QED
      BY <3>1, <3>2
  <2> QED
    BY <2>1, <2>2, PresentControl
<1>8. (pc \in Removing => Len(readers) = 1)'
  <2>1. CASE CompactOpen
    BY <1>1, <2>1, ReaderGensAfter
  <2>2. CASE RemoveOld \/ RemoveOldDone
    BY <2>2 DEF RemoveOld, RemoveOldDone, At, PresentInv, Removing, memory
  <2> QED
    BY <2>1, <2>2, PresentControl DEF Removing
<1>9. (pc = "old_sweep" => Present(segs) \cap marker.old \subseteq todo)'
  <2>1. CASE Validate
    BY <2>1 DEF Validate, disk
  <2>2. CASE SweepOld
    <3>1. /\ Present(segs') = Present(segs) \ {Max(todo)}
          /\ todo' = todo \ {Max(todo)}
          /\ UNCHANGED marker
      <4>1. ~ RemoveOld
        BY <2>2 DEF SweepOld, RemoveOld, At
      <4> QED
        BY <1>1, <2>2, <4>1, RemoveAfter
    <3>2. Present(segs) \cap marker.old \subseteq todo
      BY <2>2 DEF SweepOld, At, PresentInv
    <3> QED
      BY <3>1, <3>2
  <2> QED
    BY <2>1, <2>2, PresentControl
<1>10. (pc \in {"sweep_tmp", "sweep_marker"} => Present(segs) \cap marker.old = {})'
  <2>1. CASE SweepOldDone
    BY <2>1 DEF SweepOldDone, At, disk, PresentInv
  <2>2. CASE pc = "sweep_tmp" /\ UNCHANGED <<segs, marker>>
    BY <2>2 DEF PresentInv
  <2> QED
    BY <2>1, <2>2, PresentControl
<1>11. (pc \in {"rollback_tmp", "rollback_marker"} => segs[marker.output] = NoFile)'
  BY PresentControl DEF PresentInv, RollsBack
<1> QED
  BY <1>3, <1>4, <1>5, <1>6, <1>7, <1>8, <1>9, <1>10, <1>11 DEF PresentInv

(* What the open segments say once one is pushed, or has replaced them.    *)
LEMMA FlushOpenCell ==
  ASSUME IInv, FlushOpen, NEW k
  PROVE  OpenCell(k)' = IF segs[nextGen][k] # Absent
                        THEN segs[nextGen][k] ELSE OpenCell(k)
<1> DEFINE new == [gen |-> nextGen, data |-> segs[nextGen]]
<1>1. new \in [gen : Gens, data : Maps] /\ new.data = segs[nextGen]
  BY OpenedSegment
<1>2. readers' = <<new>> \o readers
  BY DEF FlushOpen
<1>3. readers \in Seq([gen : Gens, data : Maps])
  BY DEF IInv, TypeOK
<1> HIDE DEF new
<1>4. OpenCell(k)' = FirstCell([i \in DOMAIN (<<new>> \o readers) |-> (<<new>> \o readers)[i].data], k)
  <2>1. OpenCell(k)' = FirstCell([i \in DOMAIN readers' |-> readers'[i].data], k)
    BY DEF OpenCell, FirstCell
  <2> QED
    BY <1>2, <2>1, Zenon
<1>5. OpenCell(k)' = IF new.data[k] # Absent THEN new.data[k]
                     ELSE FirstCell([i \in DOMAIN readers |-> readers[i].data], k)
  BY <1>1, <1>3, <1>4, FrontCell
<1> QED
  BY <1>1, <1>5, Zenon DEF OpenCell

LEMMA CompactOpenCell ==
  ASSUME CompactOpen, NEW k
  PROVE  OpenCell(k)' = segs[nextGen][k]
<1> DEFINE new == [gen |-> nextGen, data |-> segs[nextGen]]
<1>1. readers' = <<new>> /\ new.data = segs[nextGen]
  BY DEF CompactOpen, Replacement
<1> HIDE DEF new
<1>2. OpenCell(k)' = FirstCell([i \in DOMAIN <<new>> |-> <<new>>[i].data], k)
  <2>1. OpenCell(k)' = FirstCell([i \in DOMAIN readers' |-> readers'[i].data], k)
    BY DEF OpenCell, FirstCell
  <2> QED
    BY <1>1, <2>1, Zenon
<1> QED
  BY <1>1, <1>2, OnlyCell, Zenon

LEMMA OverThresholdIsNotEmpty ==
  ASSUME NEW m, OverThreshold(m)
  PROVE  m # EmptyMap
<1> SUFFICES ASSUME m = EmptyMap PROVE FALSE
  OBVIOUS
<1>1. {k \in Keys : m[k] # Absent} = {}
  BY DEF EmptyMap
<1>2. Cardinality({}) = 0
  BY FS_EmptySet
<1>3. 0 >= FlushThreshold
  BY <1>1, <1>2, Zenon DEF OverThreshold
<1> QED
  BY <1>3, BoundsAssumption

(* The write being served is of a key and a cell.                          *)
LEMMA WriteIsTyped ==
  ASSUME TypeOK, call.op = "write"
  PROVE  call.key \in Keys /\ call.cell \in Cells /\ call.cell # Absent
BY ValuesAssumption DEF TypeOK, Calls

(* The memtable once a record is in it.                                    *)
LEMMA WalSyncMem ==
  ASSUME IInv, WalSync
  PROVE  /\ mem' = [mem EXCEPT ![call.key] = call.cell]
         /\ mem'[call.key] = call.cell /\ mem' # EmptyMap
         /\ call.op = "write" /\ call.key \in Keys /\ call.cell \in Cells
         /\ call.cell # Absent
         /\ \A k \in Keys : k # call.key => mem'[k] = mem[k]
         /\ UNCHANGED <<wal, segs, tmps, marker, readers, nextGen>>
<1>1. TypeOK /\ call.op = "write"
  BY DEF IInv, WriteInv, WalSync, At
<1>2. call.key \in Keys /\ call.cell \in Cells /\ call.cell # Absent
  BY <1>1, WriteIsTyped
<1>3. mem' = [mem EXCEPT ![call.key] = call.cell]
      /\ UNCHANGED <<wal, segs, tmps, marker, readers, nextGen>>
  BY DEF WalSync, disk
<1>4. mem'[call.key] = call.cell /\ \A k \in Keys : k # call.key => mem'[k] = mem[k]
  BY <1>1, <1>2, <1>3 DEF TypeOK, Maps
<1>5. mem' # EmptyMap
  BY <1>2, <1>4 DEF EmptyMap
<1> QED
  BY <1>1, <1>2, <1>3, <1>4, <1>5

LEMMA MemInvStep ==
  ASSUME IInv, MemInv, Next
  PROVE  MemInv'
<1>1. TypeOK /\ GenInv
  BY DEF IInv
<1>2. (pc \in Flushing => mem # EmptyMap)'
  BY FlushingMem, OverThresholdIsNotEmpty
<1>3. (pc \in Compacting => mem = EmptyMap)'
  BY CompactingMem
<1>4. (pc \in Flushing \cup Flushed /\ call.op = "write" => mem[call.key] = call.cell)'
  <2> SUFFICES ASSUME (pc \in Flushing \cup Flushed)', (call.op = "write")'
               PROVE  mem'[call'.key] = call'.cell
    OBVIOUS
  <2>1. CASE WalSync
    <3>1. call' = call
      BY <2>1 DEF WalSync, Goto, Return, Flushing, Flushed
    <3> QED
      BY <2>1, <3>1, WalSyncMem
  <2>2. CASE call' = call /\ mem' = mem /\ pc \in Flushing \cup Flushed
    BY <2>2 DEF MemInv
  <2> QED
    BY <2>1, <2>2, FlushedCell
<1>5. (pc = "flush_rename" => tmps[nextGen] = mem)'
  <2> SUFFICES ASSUME FlushFinish PROVE (tmps[nextGen] = mem)'
    BY FlushSteps
  <2>1. nextGen \in Gens
    BY <1>1, NextGenIsGen DEF FlushFinish, At, UsesNextGen, BeforeFlushed
  <2> QED
    BY <1>1, <2>1 DEF FlushFinish, memory, TypeOK
<1>6. (pc = "flush_open" => segs[nextGen] = mem)'
  <2> SUFFICES ASSUME FlushRename PROVE (segs[nextGen] = mem)'
    BY FlushSteps
  <2> QED
    BY InstallAfter DEF FlushRename, At, MemInv
<1>7. (pc \in Flushed => \A k \in Keys : mem[k] # Absent => OpenCell(k) = mem[k])'
  <2> SUFFICES ASSUME pc' \in Flushed, NEW k \in Keys, mem'[k] # Absent
               PROVE  OpenCell(k)' = mem'[k]
    OBVIOUS
  <2>1. CASE FlushOpen
    <3>1. segs[nextGen] = mem /\ mem' = mem
      BY <2>1 DEF FlushOpen, At, MemInv
    <3> QED
      BY <2>1, <3>1, FlushOpenCell
  <2>2. CASE WalSetLen
    BY <2>2 DEF WalSetLen, At, MemInv, memory, Flushed, OpenCell
  <2> QED
    BY <2>1, <2>2, FlushSteps
<1> QED
  BY <1>2, <1>3, <1>4, <1>5, <1>6, <1>7 DEF MemInv

LEMMA MergeInvStep ==
  ASSUME IInv, MemInv, MergeInv, PresentInv, Next
  PROVE  MergeInv'
<1>1. TypeOK /\ GenInv /\ ReadersMatchFiles /\ PresentInv'
  BY PresentInvStep DEF IInv, ReadersInv
<1>2. (pc \in {"marker_check", "marker_create", "marker_rename", "compact_rename"} =>
         tmps[nextGen] = Compacted)'
  <2> SUFFICES ASSUME pc' \in {"marker_check", "marker_create", "marker_rename",
                               "compact_rename"}
               PROVE  tmps'[nextGen'] = Compacted'
    OBVIOUS
  <2>1. CASE CompactFinish
    <3>1. nextGen \in Gens
      BY <1>1, <2>1, NextGenIsGen DEF CompactFinish, At, UsesNextGen, Merging
    <3>2. tmps' = [tmps EXCEPT ![nextGen] = Compacted]
      BY <1>1, <2>1, MergedIsCompacted DEF CompactFinish
    <3>3. UNCHANGED <<readers, nextGen>>
      BY <2>1 DEF CompactFinish, memory
    <3>4. Compacted' = Compacted
      BY <3>3 DEF Compacted, OpenCell
    <3> QED
      BY <1>1, <3>1, <3>2, <3>3, <3>4 DEF TypeOK
  <2>2. CASE MarkerCheck \/ MarkerCreate \/ MarkerRename
    <3>1. UNCHANGED <<readers, nextGen, tmps>>
      BY <2>2 DEF MarkerCheck, MarkerCreate, MarkerRename, memory
    <3>2. Compacted' = Compacted
      BY <3>1 DEF Compacted, OpenCell
    <3>3. tmps[nextGen] = Compacted
      BY <2>2 DEF MarkerCheck, MarkerCreate, MarkerRename, At, MergeInv
    <3> QED
      BY <3>1, <3>2, <3>3
  <2> QED
    BY <2>1, <2>2, MergeSteps
<1>3. (pc \in Serving /\ nextGen \in Present(segs) /\ mem = EmptyMap =>
         Len(readers) >= 2 /\ segs[nextGen] = Compacted)'
  <2> SUFFICES ASSUME pc' \in Serving, nextGen' \in Present(segs'), mem' = EmptyMap
               PROVE  Len(readers') >= 2 /\ segs'[nextGen'] = Compacted'
    OBVIOUS
  <2> DEFINE Same == UNCHANGED <<readers, nextGen>> /\ segs'[nextGen] = segs[nextGen]
                     /\ nextGen \in Present(segs)
  <2>1. ASSUME pc \in Serving, Same
        PROVE  Len(readers') >= 2 /\ segs'[nextGen'] = Compacted'
    <3>1. CASE mem = EmptyMap
      <4>1. Compacted' = Compacted
        BY <2>1 DEF Compacted, OpenCell
      <4> QED
        BY <2>1, <3>1, <4>1 DEF MergeInv
    <3>2. CASE mem # EmptyMap
      <4>1. Replay \/ WalTruncSync
        BY <3>2, ServingMem, WalSyncMem
      <4>2. nextGen \notin Present(segs)
        BY <4>1 DEF Replay, WalTruncSync, At, PresentInv, Flushed
      <4> QED
        BY <2>1, <4>2
    <3> QED
      BY <3>1, <3>2
  <2>2. CASE LoadSegments
    <3>1. nextGen' \in Nat /\ nextGen' < nextGen'
      BY <1>1, <2>2, LoadsAll
    <3> QED
      BY <3>1
  <2>3. CASE UNCHANGED <<segs, readers, nextGen>> /\ pc \in Serving
    BY <2>1, <2>3
  <2>4. CASE FlushRename \/ FlushUndo
    <3>1. pc \in Flushing
      BY <2>4 DEF FlushRename, FlushUndo, At, Flushing
    <3>2. mem' = mem
      BY <2>4, InstallAfter, UndoAfter
    <3> QED
      BY <3>1, <3>2 DEF MemInv
  <2>5. CASE CompactRename
    <3>1. pc = "compact_rename"
      BY <2>5 DEF CompactRename, At
    <3>2. tmps[nextGen] = Compacted /\ Len(readers) >= 2
      BY <3>1 DEF MergeInv, IInv, ReadersInv, Merging
    <3>3. segs'[nextGen] = tmps[nextGen] /\ UNCHANGED <<readers, nextGen>>
      BY <2>5, InstallAfter
    <3>4. Compacted' = Compacted
      BY <3>3 DEF Compacted, OpenCell
    <3> QED
      BY <3>2, <3>3, <3>4
  <2>6. CASE UndoFinal /\ pc \in Serving
    <3>1. UNCHANGED <<readers, nextGen>> /\ segs' = segs
      BY <2>6, UndoAfter
    <3> QED
      BY <2>1, <2>6, <3>1
  <2>7. CASE FlushOpen \/ CompactOpen
    <3>1. pc' \in Flushed \cup Removing
      BY <2>7 DEF FlushOpen, CompactOpen, Goto, Flushed, Removing
    <3> QED
      BY <1>1, <3>1 DEF PresentInv
  <2>8. CASE RemoveOld
    <3>1. pc \in Removing
      BY <2>8 DEF RemoveOld, At, Removing
    <3>2. nextGen \notin Present(segs)
      BY <3>1 DEF PresentInv
    <3>3. nextGen' = nextGen /\ Present(segs') \subseteq Present(segs)
      BY <1>1, <2>8, RemoveAfter
    <3> QED
      BY <3>2, <3>3
  <2> QED
    BY <1>1, <2>2, <2>3, <2>4, <2>5, <2>6, <2>7, <2>8, ServingSteps
<1> QED
  BY <1>2, <1>3 DEF MergeInv

LEMMA InitFilesInv == Init => FilesInv
<1> SUFFICES ASSUME Init PROVE FilesInv
  OBVIOUS
<1>1. IInv
  BY InitIInv
<1>2. pc = "down" /\ call = NoCall /\ ret = "none"
  BY DEF Init
<1>3. CallInv
  BY <1>2 DEF CallInv, Between, Opening, Compacting, Merging, Undoing
<1>4. MemInv /\ MergeInv /\ PresentInv
  BY <1>2 DEF MemInv, MergeInv, PresentInv, Flushing, Flushed, Compacting, Merging,
              Undoing, Serving, Running, Opening, Installing, Removing
<1> QED
  BY <1>1, <1>3, <1>4 DEF FilesInv

(* FilesInv is inductive: one lemma for each of its parts.                 *)
LEMMA StepFilesInv == FilesInv /\ [Next]_vars => FilesInv'
<1> SUFFICES ASSUME FilesInv, [Next]_vars PROVE FilesInv'
  OBVIOUS
<1>1. IInv'
  BY StepIInv DEF FilesInv
<1>2. CASE Next
  <2>1. TypeOK
    BY DEF FilesInv, IInv
  <2> QED
    BY <1>1, <1>2, <2>1, CallInvStep, MemInvStep, MergeInvStep, PresentInvStep
       DEF FilesInv
<1>3. CASE UNCHANGED vars
  <2>1. UNCHANGED <<wal, segs, tmps, marker, mem, readers, nextGen, pc, call, todo, ret>>
    BY <1>3 DEF vars, disk, memory, control
  <2>2. CallInv' /\ MemInv' /\ MergeInv' /\ PresentInv'
    BY <2>1 DEF FilesInv, CallInv, MemInv, MergeInv, PresentInv, Present,
                ReaderGens, Compacted, OpenCell
  <2> QED
    BY <1>1, <2>2 DEF FilesInv
<1> QED
  BY <1>2, <1>3

(* Whatever system calls fail and wherever the process is killed, the      *)
(* segment files are the open ones, one leftover under the next number,    *)
(* and, beside a marker, those its compaction has replaced.                *)
THEOREM InductiveFiles == Spec => []FilesInv
BY InitFilesInv, StepFilesInv, PTL DEF Spec

(* What is open is at most one segment, and nothing else is there.         *)
LEMMA AtMostOneSegment ==
  ASSUME TypeOK, Len(readers) < 2, Present(segs) \subseteq ReaderGens
  PROVE  Cardinality(Present(segs)) <= 1
<1>1. Len(readers) \in Nat /\ DOMAIN readers = 1..Len(readers)
  BY ReadersAreFunction
<1>2. \E g : ReaderGens \subseteq {g}
  <2>1. \A i \in 1..Len(readers) : i = 1
    BY <1>1
  <2>2. ReaderGens \subseteq {readers[1].gen}
    BY <1>1, <2>1 DEF ReaderGens
  <2> QED
    BY <2>2
<1>3. Present(segs) = {} \/ \E g : Present(segs) = {g}
  BY <1>2
<1>4. Cardinality(Present(segs)) \in {0, 1}
  BY <1>3, FS_EmptySet, FS_Singleton
<1> QED
  BY <1>4

(* Store::compact reports success only with everything in one segment      *)
(* file, an empty memtable and no marker, whatever failed before: no file  *)
(* of a failed flush or compaction, or of one that was killed, is left.    *)
THEOREM CompactionIsComplete == Spec => CompactionComplete
<1> DEFINE Complete ==
             (call.op = "compact" /\ pc' = "idle" /\ ret' = "ok"
                /\ (At("compact_plan") => marker = NoMarker)) =>
               /\ Cardinality(Present(segs')) <= 1
               /\ marker' = NoMarker
               /\ mem' = EmptyMap
<1>1. FilesInv /\ [Next]_vars => [Complete]_vars
  <2> SUFFICES ASSUME FilesInv, Next, call.op = "compact", pc' = "idle", ret' = "ok",
                      At("compact_plan") => marker = NoMarker
               PROVE  /\ Cardinality(Present(segs')) <= 1
                      /\ marker' = NoMarker
                      /\ mem' = EmptyMap
    OBVIOUS
  <2>1. TypeOK /\ CallInv /\ WriteInv /\ MemInv /\ MergeInv /\ PresentInv
    BY DEF FilesInv, IInv
  <2>2. CASE CompactPlan /\ Len(readers) < 2
    <3>1. pc = "compact_plan" /\ marker = NoMarker /\ UNCHANGED <<segs, marker, mem>>
      BY <2>2 DEF CompactPlan, At, memory
    <3>2. mem = EmptyMap /\ pc \in Serving
      BY <2>1, <3>1 DEF MemInv, Compacting, Serving, Running, Points, FaultPoints,
                        HandledErrors, CallErrors, OpenErrors, Opening, Resolved
    <3>3. nextGen \notin Present(segs)
      <4>1. Len(readers) \in Nat /\ ~ (Len(readers) >= 2)
        BY <2>1, <2>2, ReadersAreFunction
      <4> QED
        BY <2>1, <3>2, <4>1 DEF MergeInv
    <3>4. Present(segs) \subseteq ReaderGens
      BY <2>1, <3>1, <3>2, <3>3 DEF PresentInv
    <3> QED
      BY <2>1, <2>2, <3>1, <3>2, <3>4, AtMostOneSegment
  <2>3. CASE RemoveMarker
    <3>1. pc = "marker_remove" /\ marker' = NoMarker /\ UNCHANGED <<segs, mem>>
      BY <2>3 DEF RemoveMarker, At, memory
    <3>2. mem = EmptyMap /\ pc \in Serving
      BY <2>1, <3>1 DEF MemInv, Compacting, Serving, Running, Points, FaultPoints,
                        HandledErrors, CallErrors, OpenErrors, Opening, Resolved
    <3>3. Present(segs) \subseteq ReaderGens /\ Len(readers) = 1
      BY <2>1, <3>1, <3>2 DEF PresentInv, Removing
    <3> QED
      BY <2>1, <3>1, <3>2, <3>3, AtMostOneSegment
  <2> QED
    BY <2>1, <2>2, <2>3, CompactReturns
<1> QED
  BY <1>1, InductiveFiles, PTL DEF Spec, CompactionComplete

-----------------------------------------------------------------------------
(* Every step keeps LogInv if the calls of Spared do not fail *)

LEMMA RunningServes == Running \subseteq Serving
BY DEF Serving

LEMMA WhereRunning ==
  /\ {"wal_append", "wal_sync", "idle", "old_remove"} \subseteq Running
  /\ Flushing \cup Flushed \cup Installing \cup Removing \cup Compacting \subseteq Running
BY DEF Running, Points, FaultPoints, HandledErrors, CallErrors, OpenErrors, Opening,
       Resolved, Flushing, Flushed, Installing, Removing, Compacting, Merging, Undoing

LEMMA SameReads ==
  ASSUME UNCHANGED <<wal, mem, readers>>, NEW k
  PROVE  /\ Get(k)' = Get(k) /\ Replayed(k)' = Replayed(k)
         /\ LoggedCell(k)' = LoggedCell(k) /\ OpenCell(k)' = OpenCell(k)
<1>1. LoggedCell(k)' = LoggedCell(k)
  BY DEF LoggedCell
<1>2. OpenCell(k)' = OpenCell(k)
  BY DEF OpenCell
<1>3. Get(k)' = Get(k)
  BY DEF Get
<1> QED
  BY <1>1, <1>2, <1>3 DEF Replayed

(* Store::get reads the memtable, then the open segments.                  *)
LEMMA GetIs ==
  ASSUME NEW k
  PROVE  Get(k) = Live(IF mem[k] # Absent THEN mem[k] ELSE OpenCell(k))
BY DEF Get, OpenCell

LEMMA LoggedWhole ==
  ASSUME TornAt(wal) = {}, NEW k
  PROVE  LoggedCell(k) = Applied(wal)[k]
BY WholeLog DEF LoggedCell

LEMMA LogIsWhole ==
  ASSUME TailInv, pc \in Running
  PROVE  TornAt(wal) = {}
BY DEF TailInv

(* What a write that reaches the log changes of it.                        *)
LEMMA WalAppendLog ==
  ASSUME IInv, TailInv, WalAppend
  PROVE  /\ TornAt(wal') = {} /\ wal' # <<>>
         /\ wal'[Len(wal')] = [key |-> call.key, cell |-> call.cell]
         /\ call' = call /\ pc' = "wal_sync" /\ pc = "wal_append"
         /\ call.op = "write" /\ call.key \in Keys /\ call.cell \in Cells
         /\ call.cell # Absent
         /\ \A k \in Keys : LoggedCell(k)' = IF k = call.key THEN call.cell
                                                            ELSE LoggedCell(k)
         /\ UNCHANGED <<segs, marker, mem, readers, nextGen>>
<1> DEFINE r == [key |-> call.key, cell |-> call.cell]
<1>1. TypeOK /\ pc = "wal_append" /\ call.op = "write"
  BY DEF IInv, WriteInv, WalAppend, At
<1>2. call.key \in Keys /\ call.cell \in Cells /\ call.cell # Absent
  BY <1>1, WriteIsTyped
<1>3. TornAt(wal) = {}
  BY <1>1, LogIsWhole, WhereRunning
<1>4. wal \in Seq(Records \cup {Torn}) /\ r \in Records
  BY <1>1, <1>2 DEF TypeOK, Records
<1>5. wal' = Append(wal, r) /\ call' = call /\ pc' = "wal_sync"
      /\ UNCHANGED <<segs, marker, mem, readers, nextGen>>
  BY DEF WalAppend, Goto, memory
<1>6. r.key = call.key /\ r.cell = call.cell
  OBVIOUS
<1>7. TornAt(wal') = {} /\ Applied(wal') = [Applied(wal) EXCEPT ![r.key] = r.cell]
  <2> HIDE DEF r
  <2> QED BY <1>3, <1>4, <1>5, WholeAppend
<1>8. \A k \in Keys : LoggedCell(k)' = Applied(wal')[k]
  <2> TAKE k \in Keys
  <2>1. LoggedCell(k)' = Applied(ValidPrefix(wal'))[k]
    BY DEF LoggedCell
  <2>2. ValidPrefix(wal') = wal'
    BY <1>7, WholeLog
  <2> QED
    BY <2>1, <2>2, Zenon
<1>9. \A k \in Keys : LoggedCell(k) = Applied(wal)[k]
  BY <1>3, LoggedWhole
<1>10. \A k \in Keys : Applied(wal')[k] = IF k = call.key THEN call.cell ELSE Applied(wal)[k]
  <2>1. Applied(wal) \in Maps
    BY <1>4, AppliedType
  <2> HIDE DEF r
  <2> QED
    BY <1>2, <1>6, <1>7, <2>1 DEF Maps
<1>11. wal' # <<>> /\ wal'[Len(wal')] = r
  BY <1>4, <1>5
<1> QED
  BY <1>1, <1>2, <1>5, <1>7, <1>8, <1>9, <1>10, <1>11

(* The record of the write that is being synced is the last of its key.    *)
LEMMA SyncedCell ==
  ASSUME IInv, TailInv, pc = "wal_sync"
  PROVE  LoggedCell(call.key) = call.cell
<1>1. TypeOK /\ call.op = "write" /\ wal \in Seq(Records \cup {Torn})
  BY DEF IInv, WriteInv, TypeOK
<1>2. call.key \in Keys
  BY <1>1, WriteIsTyped
<1>3. wal # <<>> /\ wal[Len(wal)] = [key |-> call.key, cell |-> call.cell]
  BY DEF TailInv
<1>4. TornAt(wal) = {}
  BY LogIsWhole, WhereRunning
<1> DEFINE n == Len(wal)
<1>5. n \in 1..Len(wal) /\ wal[n].key = call.key /\ wal[n].cell = call.cell
      /\ DOMAIN wal = 1..Len(wal) /\ Len(wal) \in Nat
  BY <1>1, <1>3
<1>6. wal[n] # Torn
  BY <1>4, <1>5 DEF TornAt
<1>7. \A j \in 1..Len(wal) : ~ (j > n)
  BY <1>5
<1> HIDE DEF n
<1>8. Applied(wal)[wal[n].key] = wal[n].cell
  BY <1>1, <1>2, <1>5, <1>6, <1>7, AppliedIs
<1> QED
  BY <1>4, <1>5, <1>8, LoggedWhole

(* The log once Store::open, or the end of a flush, is done with it.       *)
LEMMA EmptiedLog ==
  ASSUME WalSetLen, NEW k \in Keys
  PROVE  LoggedCell(k)' = Absent
<1>1. wal' = <<>>
  BY DEF WalSetLen
<1>2. TornAt(<<>>) = {}
  BY DEF TornAt
<1>3. LoggedCell(k)' = Applied(ValidPrefix(wal'))[k]
  BY DEF LoggedCell
<1>4. Applied(ValidPrefix(wal')) = EmptyMap
  BY <1>1, <1>2, WholeLog, AppliedEmpty, Zenon
<1> QED
  BY <1>3, <1>4 DEF EmptyMap

LEMMA TailInvStep ==
  ASSUME IInv, TailInv, Spared, Next
  PROVE  TailInv'
<1>1. TypeOK /\ TypeOK' /\ MarkerInv
  BY TypeStep DEF IInv
<1>2. (\A i \in TornAt(wal) : i = Len(wal) /\ pc \notin Running)'
  <2>1. CASE UNCHANGED wal
    <3>1. CASE pc' \in Running
      <4>1. CASE pc \in Running
        BY <2>1, <4>1 DEF TailInv
      <4>2. CASE Replay
        <5>1. wal' = ValidPrefix(wal)
          BY <4>2 DEF Replay
        <5>2. TornAt(wal') = {}
          BY <1>1, <5>1, ValidPrefixIsWhole DEF TypeOK
        <5> QED
          BY <5>2
      <4> QED
        BY <1>1, <3>1, <4>1, <4>2, ToRunning
    <3>2. CASE pc' \notin Running
      BY <2>1, <3>2 DEF TailInv
    <3> QED
      BY <3>1, <3>2
  <2>2. CASE WalAppend
    BY <2>2, WalAppendLog
  <2>3. CASE WalAppendFails
    BY <2>3 DEF WalAppendFails, Fails, Spared
  <2>4. CASE WalSetLen
    BY <2>4 DEF WalSetLen, TornAt
  <2>5. CASE Replay
    <3>1. wal' = ValidPrefix(wal)
      BY <2>5 DEF Replay
    <3>2. TornAt(wal') = {}
      BY <1>1, <3>1, ValidPrefixIsWhole DEF TypeOK
    <3> QED
      BY <3>2
  <2>6. CASE Verify
    BY <2>6, LogIsWhole, WhereRunning DEF Verify, At
  <2>7. CASE Crash
    <3>1. pc' \notin Running
      BY <2>7 DEF Crash, Running, Opening
    <3>2. CASE wal' = wal
      BY <3>1, <3>2 DEF TailInv
    <3>3. CASE wal' = Append(wal, Torn) /\ At("wal_append")
      <4>1. TornAt(wal) = {} /\ wal \in Seq(Records \cup {Torn})
        BY <1>1, <3>3, LogIsWhole, WhereRunning DEF At, TypeOK
      <4>2. TornAt(wal') = {Len(wal) + 1}
        BY <3>3, <4>1, TornAppend
      <4>3. Len(wal') = Len(wal) + 1
        BY <3>3, <4>1
      <4> QED
        BY <3>1, <4>2, <4>3
    <3> QED
      BY <2>7, <3>2, <3>3 DEF Crash
  <2> QED
    BY <2>1, <2>2, <2>3, <2>4, <2>5, <2>6, <2>7, WalChanges
<1>3. (pc = "wal_sync" => wal # <<>> /\ wal[Len(wal)] = [key |-> call.key, cell |-> call.cell])'
  <2> SUFFICES ASSUME WalAppend
               PROVE  wal' # <<>> /\ wal'[Len(wal')] = [key |-> call'.key, cell |-> call'.cell]
    BY LogControl
  <2> QED
    BY WalAppendLog
<1>4. (pc = "wal_trunc_sync" => wal = <<>>)'
  BY LogControl DEF WalSetLen
<1> QED
  BY <1>2, <1>3, <1>4 DEF TailInv

(* The files a marker lists are older than the one it names.               *)
LEMMA ReplacedAreOlder ==
  ASSUME IInv, marker # NoMarker
  PROVE  /\ marker.output \in Gens /\ marker.output \in Nat
         /\ \A g \in marker.old : g \in Nat /\ g < marker.output
         /\ \A g \in ReaderGens : g \in Gens /\ g \in Nat /\ g < nextGen
         /\ nextGen \in Nat
<1>1. TypeOK /\ ReadersInv /\ Recoverable /\ MarkerType
  BY DEF IInv, MarkerInv
<1>2. marker.output \in Gens /\ nextGen \in Nat
  BY <1>1 DEF MarkerType, TypeOK
<1>3. \A g \in marker.old : g \in Nat /\ g < marker.output
  BY <1>1, GensAreNat DEF Recoverable, WellFormed, TypeOK, Markers
<1>4. \A g \in ReaderGens : g \in Gens /\ g < nextGen
  BY <1>1, ReadersAreFunction DEF ReadersInv, ReaderGens
<1> QED
  BY <1>2, <1>3, <1>4, GensAreNat

LEMMA ReadersPresent ==
  ASSUME IInv
  PROVE  /\ ReaderGens \subseteq Present(segs)
         /\ nextGen \notin ReaderGens
<1>1. TypeOK /\ ReadersInv
  BY DEF IInv
<1>2. /\ readers \in [1..Len(readers) -> [gen : Gens, data : Maps]]
      /\ DOMAIN readers = 1..Len(readers)
  BY <1>1, ReadersAreFunction
<1>3. ReaderGens \subseteq Present(segs)
  BY <1>1, <1>2, FilesAssumption DEF ReaderGens, Present, ReadersInv, ReadersMatchFiles
<1>4. \A i \in DOMAIN readers : readers[i].gen \in Nat /\ readers[i].gen < nextGen
  BY <1>1, <1>2, GensAreNat DEF ReadersInv
<1>5. nextGen \notin ReaderGens
  BY <1>4 DEF ReaderGens
<1> QED
  BY <1>3, <1>5

LEMMA PendingInvStep ==
  ASSUME FilesInv, PendingInv, Spared, Next
  PROVE  PendingInv'
<1>1. IInv /\ TypeOK /\ MarkerInv /\ PresentInv
  BY DEF FilesInv, IInv
<1> SUFFICES ASSUME pc' \in Running, marker' # NoMarker
             PROVE  (\/ marker = [output |-> nextGen, old |-> ReaderGens] /\ pc \in Installing
                     \/ /\ marker.output \in ReaderGens
                        /\ marker.old \cap ReaderGens = {}
                        /\ Present(segs) \ {nextGen} \subseteq ReaderGens \cup marker.old)'
  BY DEF PendingInv
<1>2. CASE MarkerRename
  BY <1>2 DEF MarkerRename, Goto, memory, ReaderGens, Installing
<1>3. CASE UNCHANGED marker
  <2>1. pc \in Running
    <3>1. pc \notin Running => pc \in Resolved
      BY <1>1, ToRunning DEF Replay, At, Resolved
    <3> QED
      BY <1>1, <1>3, <3>1 DEF MarkerInv
  <2>2. marker # NoMarker
    BY <1>3
  <2>3. CASE marker = [output |-> nextGen, old |-> ReaderGens] /\ pc \in Installing
    <3>1. CASE CompactOpen
      <4>1. marker.output = nextGen /\ marker.old = ReaderGens
        BY <2>3
      <4>2. ReaderGens' = {nextGen} /\ segs' = segs
        BY <1>1, <3>1, ReaderGensAfter
      <4>3. Present(segs) \ {nextGen} \subseteq ReaderGens
        BY <1>1, <2>1, <2>3, RunningServes DEF PresentInv
      <4>4. nextGen \notin ReaderGens
        BY <1>1, ReadersPresent
      <4> QED
        BY <1>3, <4>1, <4>2, <4>3, <4>4
    <3>2. CASE UndoMarker
      <4>1. marker' = NoMarker
        BY <3>2 DEF UndoMarker, RemoveMarkerIgnoringErrors, Fails, Spared
      <4> QED
        BY <4>1
    <3>3. CASE pc' \in Installing /\ UNCHANGED <<marker, readers, nextGen>>
      BY <2>3, <3>3 DEF ReaderGens
    <3> QED
      BY <2>3, <3>1, <3>2, <3>3, InstallingSteps
  <2>4. CASE /\ marker.output \in ReaderGens
             /\ marker.old \cap ReaderGens = {}
             /\ Present(segs) \ {nextGen} \subseteq ReaderGens \cup marker.old
    <3>1. CASE UNCHANGED <<segs, readers, nextGen>>
      BY <1>3, <2>4, <3>1 DEF ReaderGens
    <3>2. CASE FlushRename \/ CompactRename
      <4>1. Present(segs') = Present(segs) \cup {nextGen} /\ UNCHANGED <<readers, nextGen>>
        BY <1>1, <3>2, InstallAfter
      <4> QED
        BY <1>3, <2>4, <4>1 DEF ReaderGens
    <3>3. CASE FlushUndo \/ UndoFinal
      <4>1. Present(segs') \subseteq Present(segs) /\ UNCHANGED <<readers, nextGen>>
        BY <1>1, <3>3, UndoAfter
      <4> QED
        BY <1>3, <2>4, <4>1 DEF ReaderGens
    <3>4. CASE FlushOpen
      <4>1. segs' = segs /\ ReaderGens' = ReaderGens \cup {nextGen}
        BY <1>1, <3>4, ReaderGensAfter
      <4>2. nextGen \notin marker.old
        BY <1>1, <2>2, <2>4, ReplacedAreOlder
      <4> QED
        BY <1>3, <2>4, <4>1, <4>2
    <3>5. CASE CompactOpen
      <4>1. marker.output = nextGen
        BY <1>1, <3>5 DEF CompactOpen, At, MarkerInv
      <4> QED
        BY <1>1, <2>4, <4>1, ReadersPresent
    <3>6. CASE RemoveOld
      <4>1. Present(segs') \subseteq Present(segs) /\ UNCHANGED <<readers, nextGen>>
        BY <1>1, <3>6, RemoveAfter
      <4> QED
        BY <1>3, <2>4, <4>1 DEF ReaderGens
    <3>7. CASE LoadSegments
      BY <3>7, <2>1 DEF LoadSegments, At, Running, Resolved
    <3> QED
      BY <1>1, <3>1, <3>2, <3>3, <3>4, <3>5, <3>6, <3>7, ServingSteps, RunningServes
  <2> QED
    BY <2>1, <2>2, <2>3, <2>4 DEF PendingInv
<1> QED
  BY <1>2, <1>3, MarkerChanges

(* The cell of a map that a compaction or a leftover holds.                *)
LEMMA CompactedRead ==
  ASSUME NEW k \in Keys, mem = EmptyMap
  PROVE  Live(Compacted[k]) = Get(k) /\ Live(Compacted[k]) = Live(OpenCell(k))
<1>1. Compacted[k] = Live(OpenCell(k))
  BY DEF Compacted
<1>2. mem[k] = Absent
  BY DEF EmptyMap
<1> QED
  BY <1>1, <1>2, LiveTwice, GetIs

LEMMA LeftoverInvStep ==
  ASSUME FilesInv, TailInv, LeftoverInv, Spared, Next
  PROVE  LeftoverInv'
<1>1. IInv /\ TypeOK /\ MemInv /\ MergeInv /\ PresentInv /\ PresentInv'
  BY PresentInvStep DEF FilesInv, IInv
<1> SUFFICES ASSUME pc' \in Running, nextGen' \in Present(segs'), NEW k \in Keys,
                    segs'[nextGen'][k] # Absent, LoggedCell(k)' = Absent
             PROVE  Live(segs'[nextGen'][k]) = Get(k)'
  BY DEF LeftoverInv
<1>2. CASE pc \notin Running
  <2>1. Replay
    BY <1>1, <1>2, ToRunning
  <2> QED
    BY <1>1, <2>1 DEF Replay, At, PresentInv
<1>3. ASSUME pc \in Running, UNCHANGED <<segs, nextGen>>, LoggedCell(k) = Absent,
             Get(k)' = Get(k)
      PROVE  Live(segs'[nextGen'][k]) = Get(k)'
  BY <1>3 DEF LeftoverInv
<1>4. CASE pc \in Running /\ UNCHANGED <<segs, nextGen, wal, mem, readers>>
  BY <1>3, <1>4, SameReads
<1>5. CASE FlushRename
  <2>1. segs'[nextGen] = mem /\ nextGen' = nextGen /\ mem' = mem
    BY <1>1, <1>5, InstallAfter DEF FlushRename, At, MemInv
  <2>2. Get(k)' = Live(IF mem'[k] # Absent THEN mem'[k] ELSE OpenCell(k)')
    BY GetIs DEF Get, OpenCell
  <2> QED
    BY <2>1, <2>2
<1>6. CASE CompactRename
  <2>1. segs'[nextGen] = Compacted /\ UNCHANGED <<nextGen, mem, readers, wal>> /\ mem = EmptyMap
    BY <1>1, <1>6, InstallAfter
       DEF CompactRename, At, MemInv, MergeInv, Compacting, Merging
  <2>2. Get(k)' = Get(k)
    BY <2>1, SameReads
  <2> QED
    BY <2>1, <2>2, CompactedRead
<1>7. CASE FlushUndo \/ UndoFinal
  <2>1. UNCHANGED <<nextGen, mem, readers, wal>> /\ segs' = segs
    BY <1>1, <1>7, UndoAfter DEF FlushUndo, UndoFinal
  <2>2. pc \in Running
    BY <1>7, WhereRunning DEF FlushUndo, UndoFinal, At, Flushing, Installing
  <2> QED
    BY <1>4, <2>1, <2>2
<1>8. CASE FlushOpen \/ CompactOpen \/ WalSetLen
  <2>1. pc' \in Flushed \cup Removing
    BY <1>8 DEF FlushOpen, CompactOpen, WalSetLen, Goto, Flushed, Removing
  <2> QED
    BY <1>1, <2>1 DEF PresentInv
<1>9. CASE RemoveOld \/ WalTruncSync
  <2>1. pc \in Flushed \cup Removing
    BY <1>9 DEF RemoveOld, WalTruncSync, At, Flushed, Removing
  <2>2. nextGen' = nextGen /\ Present(segs') \subseteq Present(segs)
    BY <1>1, <1>9, RemoveAfter DEF WalTruncSync, disk
  <2> QED
    BY <1>1, <2>1, <2>2 DEF PresentInv
<1>10. CASE WalAppend
  <2>1. LoggedCell(k) = Absent /\ UNCHANGED <<segs, nextGen, mem, readers>>
    BY <1>1, <1>10, WalAppendLog
  <2>2. Get(k)' = Get(k)
    BY <2>1 DEF Get
  <2> QED
    BY <1>3, <1>10, <2>1, <2>2, WhereRunning DEF WalAppend, At
<1>11. CASE WalSync
  <2>1. UNCHANGED <<wal, segs, nextGen, readers>> /\ pc = "wal_sync"
        /\ call.cell # Absent
        /\ \A j \in Keys : j # call.key => mem'[j] = mem[j]
    BY <1>1, <1>11, WalSyncMem DEF WalSync, At
  <2>2. LoggedCell(k)' = LoggedCell(k)
    BY <2>1 DEF LoggedCell
  <2>3. k # call.key
    BY <1>1, <2>1, <2>2, SyncedCell
  <2>4. mem'[k] = mem[k]
    BY <2>1, <2>3
  <2>5. Get(k)' = Get(k)
    BY <2>1, <2>4 DEF Get
  <2> QED
    BY <1>3, <2>1, <2>2, <2>5, WhereRunning
<1>12. CASE WalAppendFails
  BY <1>12 DEF WalAppendFails, Fails, Spared
<1>13. CASE Verify
  BY <1>13, LogIsWhole, WhereRunning DEF Verify, At
<1>14. CASE LoadSegments
  BY <1>14 DEF LoadSegments, Goto, Running, Resolved
<1> QED
  <2>1. ~ UNCHANGED <<segs, readers, nextGen>> /\ pc \in Running =>
           FlushRename \/ FlushUndo \/ FlushOpen \/ CompactRename \/ UndoFinal
             \/ CompactOpen \/ RemoveOld \/ LoadSegments
    BY <1>1, ServingSteps, RunningServes
  <2>2. pc \in Running => \/ UNCHANGED <<wal, mem, readers, nextGen>>
         \/ WalAppend \/ WalAppendFails \/ WalSync \/ WalSetLen \/ WalTruncSync
         \/ FlushOpen \/ CompactOpen \/ Verify
    BY <1>1, RunningSteps
  <2> QED
    BY <2>1, <2>2, <1>2, <1>4, <1>5, <1>6, <1>7, <1>8, <1>9, <1>10, <1>11, <1>12,
       <1>13, <1>14

LEMMA InitLogInv == Init => LogInv
<1> SUFFICES ASSUME Init PROVE LogInv
  OBVIOUS
<1>1. FilesInv
  BY InitFilesInv
<1>2. pc = "down" /\ wal = <<>>
  BY DEF Init
<1>3. TailInv /\ PendingInv /\ LeftoverInv
  BY <1>2 DEF TailInv, TornAt, PendingInv, LeftoverInv, Running, Opening
<1> QED
  BY <1>1, <1>3 DEF LogInv

(* LogInv is inductive: one lemma for each of its parts.                   *)
LEMMA StepLogInv ==
  ASSUME Spared
  PROVE  LogInv /\ [Next]_vars => LogInv'
<1> SUFFICES ASSUME LogInv, [Next]_vars PROVE LogInv'
  OBVIOUS
<1>1. FilesInv' /\ FilesInv /\ TailInv /\ PendingInv /\ LeftoverInv
  BY StepFilesInv DEF LogInv
<1>2. CASE Next
  <2>1. IInv
    BY <1>1 DEF FilesInv
  <2> QED
    BY <1>1, <1>2, <2>1, TailInvStep, PendingInvStep, LeftoverInvStep DEF LogInv
<1>3. CASE UNCHANGED vars
  <2>1. UNCHANGED <<wal, segs, tmps, marker, mem, readers, nextGen, pc, call, todo, ret>>
    BY <1>3 DEF vars, disk, memory, control
  <2>2. TailInv' /\ PendingInv'
    BY <1>1, <2>1 DEF TailInv, PendingInv, ReaderGens, Present
  <2>3. LeftoverInv'
    <3>1. \A k \in Keys : Get(k)' = Get(k) /\ LoggedCell(k)' = LoggedCell(k)
      BY <2>1, SameReads
    <3> QED
      BY <1>1, <2>1, <3>1 DEF LeftoverInv, Present
  <2> QED
    BY <1>1, <2>2, <2>3 DEF LogInv
<1> QED
  BY <1>2, <1>3

(* Unless an append fails, or the removal of a marker by the undo of a     *)
(* compaction, the log of a running process can be read to its end, a      *)
(* marker lists no segment that is open once its output is, and what a     *)
(* failed flush or compaction left behind says nothing new.                *)
THEOREM InductiveLog ==
  ASSUME Spared
  PROVE  Spec => []LogInv
<1>1. LogInv /\ [Next]_vars => LogInv'
  BY StepLogInv
<1> QED
  BY <1>1, InitLogInv, PTL DEF Spec

-----------------------------------------------------------------------------
(* What reopening would find *)

(* The segments that a process started now would keep: the open ones, with *)
(* what a failed flush or compaction left, or the compaction's alone.      *)
LEMMA SurvivorsAre ==
  ASSUME LogInv, pc \in Running
  PROVE  \/ Survivors = ReaderGens
         \/ /\ Survivors = ReaderGens \cup {nextGen}
            /\ nextGen \in Present(segs)
         \/ /\ Survivors = {nextGen}
            /\ nextGen \in Present(segs) /\ mem = EmptyMap
<1>1. IInv /\ PresentInv /\ MemInv /\ PendingInv
  BY DEF LogInv, FilesInv
<1>2. ReaderGens \subseteq Present(segs) /\ nextGen \notin ReaderGens
  BY <1>1, ReadersPresent
<1>3. CASE marker = NoMarker
  <2>1. Survivors = Present(segs)
    BY <1>3 DEF Survivors
  <2>2. Present(segs) \ {nextGen} \subseteq ReaderGens
    BY <1>1, <1>3, RunningServes DEF PresentInv
  <2> QED
    BY <1>2, <2>1, <2>2
<1>4. CASE marker # NoMarker /\ marker = [output |-> nextGen, old |-> ReaderGens]
             /\ pc \in Installing
  <2>1. marker.output = nextGen /\ marker.old = ReaderGens
    BY <1>4
  <2>2. nextGen \in Gens
    BY <1>1, <1>4, <2>1, ReplacedAreOlder
  <2>3. Present(segs) \ {nextGen} \subseteq ReaderGens
    BY <1>1, <1>4, RunningServes DEF PresentInv
  <2>4. mem = EmptyMap
    BY <1>1, <1>4 DEF MemInv, Installing, Compacting, Merging, Undoing
  <2>5. CASE segs[nextGen] # NoFile
    <3>1. Survivors = Present(segs) \ ReaderGens
      BY <1>4, <2>1, <2>5 DEF Survivors
    <3>2. nextGen \in Present(segs)
      BY <2>2, <2>5 DEF Present
    <3> QED
      BY <1>2, <2>3, <2>4, <3>1, <3>2
  <2>6. CASE segs[nextGen] = NoFile
    <3>1. Survivors = Present(segs) /\ nextGen \notin Present(segs)
      BY <2>1, <2>6 DEF Survivors, Present
    <3> QED
      BY <1>2, <2>3, <3>1
  <2> QED
    BY <2>5, <2>6
<1>5. CASE /\ marker # NoMarker
           /\ marker.output \in ReaderGens
           /\ marker.old \cap ReaderGens = {}
           /\ Present(segs) \ {nextGen} \subseteq ReaderGens \cup marker.old
  <2>1. segs[marker.output] # NoFile
    BY <1>2, <1>5 DEF Present
  <2>2. Survivors = Present(segs) \ marker.old
    BY <1>5, <2>1 DEF Survivors
  <2>3. nextGen \notin marker.old
    BY <1>1, <1>5, ReplacedAreOlder
  <2> QED
    BY <1>2, <1>5, <2>2, <2>3
<1> QED
  BY <1>1, <1>3, <1>4, <1>5 DEF PendingInv

(* If one segment survives, it decides.                                    *)
LEMMA OneSurvivor ==
  ASSUME NEW g \in Gens, Survivors = {g}, NEW k
  PROVE  SurvivorCell(k) = segs[g][k]
<1> DEFINE hits == {h \in Survivors : segs[h][k] # Absent}
<1>1. SurvivorCell(k) = IF hits = {} THEN Absent ELSE segs[Max(hits)][k]
  BY DEF SurvivorCell
<1>2. CASE segs[g][k] # Absent
  <2>1. hits = {g}
    BY <1>2
  <2>2. Max({g}) = g
    BY MaxIs, GensAreNat
  <2> QED
    BY <1>1, <2>1, <2>2, Zenon
<1>3. CASE segs[g][k] = Absent
  <2>1. hits = {}
    BY <1>3
  <2> QED
    BY <1>1, <1>3, <2>1, Zenon
<1> QED
  BY <1>2, <1>3

LEMMA RecoveredIs ==
  ASSUME LogInv, pc \in Running, NEW k \in Keys
  PROVE  \/ Recovered(k) = Replayed(k)
         \/ Recovered(k) = Get(k) /\ LoggedCell(k) = Absent
<1>1. /\ IInv /\ MergeInv /\ LeftoverInv /\ TypeOK /\ ReadersInv
      /\ ReadersNewestFirst /\ ReadersMatchFiles
  BY DEF LogInv, FilesInv, IInv, ReadersInv
<1>2. CASE LoggedCell(k) # Absent
  BY <1>2 DEF Recovered, Replayed
<1>3. CASE LoggedCell(k) = Absent
  <2>1. Recovered(k) = Live(SurvivorCell(k)) /\ Replayed(k) = Live(OpenCell(k))
    BY <1>3 DEF Recovered, Replayed
  <2>2. CASE Survivors = ReaderGens
    BY <1>1, <2>1, <2>2, SurvivorsAreOpen
  <2>3. CASE Survivors = ReaderGens \cup {nextGen} /\ nextGen \in Present(segs)
    <3>1. nextGen \in Gens
      BY <2>3 DEF Present
    <3>2. SurvivorCell(k) = IF segs[nextGen][k] # Absent THEN segs[nextGen][k]
                                                         ELSE OpenCell(k)
      BY <1>1, <2>3, <3>1, LeftoverSurvives
    <3>3. segs[nextGen][k] # Absent => Live(segs[nextGen][k]) = Get(k)
      BY <1>1, <1>3, <2>3 DEF LeftoverInv
    <3> QED
      BY <1>3, <2>1, <3>2, <3>3
  <2>4. CASE Survivors = {nextGen} /\ nextGen \in Present(segs) /\ mem = EmptyMap
    <3>1. nextGen \in Gens
      BY <2>4 DEF Present
    <3>2. SurvivorCell(k) = segs[nextGen][k]
      BY <2>4, <3>1, OneSurvivor
    <3>3. segs[nextGen] = Compacted
      BY <1>1, <2>4, RunningServes DEF MergeInv
    <3>4. Live(Compacted[k]) = Live(OpenCell(k))
      BY <2>4, CompactedRead
    <3> QED
      BY <2>1, <3>2, <3>3, <3>4
  <2> QED
    BY <2>2, <2>3, <2>4, SurvivorsAre
<1> QED
  BY <1>2, <1>3

LEMMA LogInvAnswers == LogInv => RecoveredInViews
<1> SUFFICES ASSUME LogInv, NEW k \in Keys PROVE Recovered(k) \in Views(k)
  BY DEF RecoveredInViews
<1>1. CASE pc \in Running
  BY <1>1, RecoveredIs DEF Views
<1>2. CASE pc \notin Running
  BY <1>2 DEF Views
<1> QED
  BY <1>1, <1>2

LEMMA LogInvAnswersNext == LogInv' => RecoveredInViews'
BY LogInvAnswers, PTL

(* What a reopened store would return for a key is what the running one    *)
(* returns, or what it would if its memtable were rebuilt from the log.    *)
THEOREM RecoveryAnswersAsReads ==
  ASSUME Spared
  PROVE  Spec => []RecoveredInViews
BY InductiveLog, LogInvAnswers, PTL

-----------------------------------------------------------------------------
(* How a step changes the answers *)

LEMMA ReadsWhenPrimed ==
  ASSUME NEW k
  PROVE  /\ Get(k)' = Live(IF mem'[k] # Absent THEN mem'[k] ELSE OpenCell(k)')
         /\ Replayed(k)' = Live(IF LoggedCell(k)' # Absent THEN LoggedCell(k)'
                                                          ELSE OpenCell(k)')
<1>1. Get(k)' = Live(IF mem'[k] # Absent THEN mem'[k] ELSE OpenCell(k)')
  BY GetIs DEF Get, OpenCell
<1> QED
  BY <1>1 DEF Replayed

(* The memory of the write that has been synced, and its record, agree.    *)
LEMMA WalSyncReads ==
  ASSUME IInv, TailInv, WalSync, NEW k, k = call.key
  PROVE  /\ Get(k)' = Live(call.cell)
         /\ Replayed(k)' = Live(call.cell)
         /\ Replayed(k) = Live(call.cell)
<1>1. mem'[k] = call.cell /\ call.cell # Absent /\ wal' = wal
  BY WalSyncMem
<1>2. LoggedCell(k) = call.cell
  BY SyncedCell DEF WalSync, At
<1>3. LoggedCell(k)' = call.cell
  BY <1>1, <1>2 DEF LoggedCell
<1> QED
  BY <1>1, <1>2, <1>3, ReadsWhenPrimed DEF Replayed

(* Every segment is open once Store::open has opened them, and the log is  *)
(* then read into the memtable.                                            *)
LEMMA ReplayReads ==
  ASSUME FilesInv, Replay, NEW k \in Keys
  PROVE  Get(k)' = Recovered(k) /\ Replayed(k)' = Recovered(k)
<1>1. /\ TypeOK /\ MarkerInv /\ ReadersNewestFirst /\ ReadersMatchFiles /\ PresentInv
      /\ IInv /\ pc = "replay"
  BY DEF FilesInv, IInv, ReadersInv, Replay, At
<1>2. marker = NoMarker /\ nextGen \notin Present(segs)
  BY <1>1 DEF MarkerInv, PresentInv, Resolved
<1>3. Survivors = ReaderGens
  <2>1. Survivors = Present(segs)
    BY <1>2 DEF Survivors
  <2>2. Present(segs) \subseteq ReaderGens
    BY <1>1, <1>2 DEF PresentInv, Serving
  <2> QED
    BY <1>1, <2>1, <2>2, ReadersPresent
<1>4. SurvivorCell(k) = OpenCell(k)
  BY <1>1, <1>3, SurvivorsAreOpen
<1>5. wal' = ValidPrefix(wal) /\ mem' = Applied(wal') /\ readers' = readers
  BY DEF Replay
<1>6. mem'[k] = LoggedCell(k) /\ OpenCell(k)' = OpenCell(k)
  BY <1>5 DEF LoggedCell, OpenCell
<1>7. LoggedCell(k)' = LoggedCell(k)
  <2>1. LoggedCell(k)' = Applied(ValidPrefix(wal'))[k]
    BY DEF LoggedCell
  <2>2. ValidPrefix(wal') = wal'
    BY <1>1, <1>5, ValidPrefixTwice DEF TypeOK
  <2> QED
    BY <1>5, <1>6, <2>1, <2>2
<1> QED
  BY <1>4, <1>6, <1>7, ReadsWhenPrimed DEF Recovered

(* Of a running process, only an append adds an answer.                    *)
LEMMA ReadsStep ==
  ASSUME LogInv, Spared, Next, pc \in Running, pc' \in Running, NEW k \in Keys
  PROVE  \/ Get(k)' = Get(k) /\ Replayed(k)' \in {Get(k), Replayed(k)}
         \/ Get(k)' = Replayed(k) /\ Replayed(k)' = Replayed(k)
         \/ /\ WalAppend /\ k = call.key
            /\ Get(k)' = Get(k) /\ Replayed(k)' = Live(call.cell)
<1>1. /\ FilesInv /\ IInv /\ TypeOK /\ TailInv /\ MemInv /\ MergeInv
  BY DEF LogInv, FilesInv, IInv
<1>2. CASE UNCHANGED <<wal, mem, readers, nextGen>>
  BY <1>2, SameReads
<1>3. CASE WalAppend
  <2>1. /\ LoggedCell(k)' = IF k = call.key THEN call.cell ELSE LoggedCell(k)
        /\ mem' = mem /\ readers' = readers /\ call.cell # Absent
    BY <1>1, <1>3, WalAppendLog
  <2>2. Get(k)' = Get(k) /\ OpenCell(k)' = OpenCell(k)
    BY <2>1 DEF Get, OpenCell
  <2>3. Replayed(k)' = IF k = call.key THEN Live(call.cell) ELSE Replayed(k)
    BY <2>1, <2>2, ReadsWhenPrimed DEF Replayed
  <2> QED
    BY <1>3, <2>2, <2>3
<1>4. CASE WalSync
  <2>1. CASE k = call.key
    BY <1>1, <1>4, <2>1, WalSyncReads
  <2>2. CASE k # call.key
    <3>1. mem'[k] = mem[k] /\ wal' = wal /\ readers' = readers
      BY <1>1, <1>4, <2>2, WalSyncMem
    <3>2. LoggedCell(k)' = LoggedCell(k) /\ OpenCell(k)' = OpenCell(k)
      BY <3>1 DEF LoggedCell, OpenCell
    <3> QED
      BY <3>1, <3>2, ReadsWhenPrimed, GetIs DEF Replayed
  <2> QED
    BY <2>1, <2>2
<1>5. CASE FlushOpen
  <2>1. segs[nextGen] = mem /\ mem' = mem /\ wal' = wal
    BY <1>1, <1>5 DEF FlushOpen, At, MemInv, disk
  <2>2. OpenCell(k)' = IF mem[k] # Absent THEN mem[k] ELSE OpenCell(k)
    BY <1>1, <1>5, <2>1, FlushOpenCell
  <2>3. LoggedCell(k)' = LoggedCell(k)
    BY <2>1 DEF LoggedCell
  <2> QED
    BY <2>1, <2>2, <2>3, ReadsWhenPrimed, GetIs DEF Replayed
<1>6. CASE CompactOpen
  <2>1. pc = "compact_open" /\ mem' = mem /\ wal' = wal
    BY <1>6 DEF CompactOpen, At, disk
  <2>2. mem = EmptyMap /\ pc \in Serving
    BY <1>1, <2>1, WhereRunning, RunningServes DEF MemInv, Compacting, Merging
  <2>3. nextGen \in Present(segs)
    <3>1. nextGen \in Gens
      BY <1>1, <2>1, NextGenIsGen DEF IInv, UsesNextGen, Merging
    <3>2. segs[nextGen] \in Maps
      BY <1>1, <2>1 DEF IInv, InstallInv
    <3> QED
      BY <3>1, <3>2, FilesAssumption DEF Present
  <2>4. OpenCell(k)' = Compacted[k]
    BY <1>1, <1>6, <2>2, <2>3, CompactOpenCell DEF MergeInv
  <2>5. Live(Compacted[k]) = Get(k) /\ Live(Compacted[k]) = Live(OpenCell(k))
    BY <2>2, CompactedRead
  <2>6. LoggedCell(k)' = LoggedCell(k) /\ mem'[k] = Absent
    BY <2>1, <2>2 DEF LoggedCell, EmptyMap
  <2> QED
    BY <2>4, <2>5, <2>6, ReadsWhenPrimed DEF Replayed
<1>7. CASE WalSetLen
  <2>1. mem' = mem /\ readers' = readers /\ pc \in Flushed
    BY <1>7 DEF WalSetLen, memory, At, Flushed
  <2>2. LoggedCell(k)' = Absent
    BY <1>7, EmptiedLog
  <2>3. mem[k] # Absent => OpenCell(k) = mem[k]
    BY <1>1, <2>1 DEF MemInv
  <2>4. OpenCell(k)' = OpenCell(k)
    BY <2>1 DEF OpenCell
  <2> QED
    BY <2>1, <2>2, <2>3, <2>4, ReadsWhenPrimed, GetIs
<1>8. CASE WalTruncSync
  <2>1. mem' = EmptyMap /\ UNCHANGED <<wal, readers>> /\ wal = <<>>
    BY <1>1, <1>8 DEF WalTruncSync, disk, At, TailInv
  <2>2. LoggedCell(k) = Absent
    <3>1. TornAt(wal) = {}
      BY <2>1 DEF TornAt
    <3> QED
      BY <2>1, <3>1, LoggedWhole, AppliedEmpty DEF EmptyMap
  <2>3. LoggedCell(k)' = LoggedCell(k) /\ OpenCell(k)' = OpenCell(k) /\ mem'[k] = Absent
    BY <2>1 DEF LoggedCell, OpenCell, EmptyMap
  <2> QED
    BY <2>2, <2>3, ReadsWhenPrimed DEF Replayed
<1>9. CASE WalAppendFails
  BY <1>9 DEF WalAppendFails, Fails, Spared
<1>10. CASE Verify
  BY <1>1, <1>10, LogIsWhole, WhereRunning DEF Verify, At
<1> QED
  BY <1>1, <1>2, <1>3, <1>4, <1>5, <1>6, <1>7, <1>8, <1>9, <1>10, RunningSteps

(* What survives does not change while the surviving files do not.         *)
LEMMA SameSurvivors ==
  ASSUME Survivors' = Survivors, \A g \in Survivors : segs'[g] = segs[g], NEW k
  PROVE  SurvivorCell(k)' = SurvivorCell(k)
<1> DEFINE hits == {g \in Survivors : segs[g][k] # Absent}
<1>1. SurvivorCell(k) = IF hits = {} THEN Absent ELSE segs[Max(hits)][k]
  BY DEF SurvivorCell
<1>2. SurvivorCell(k)' = IF hits = {} THEN Absent ELSE segs'[Max(hits)][k]
  <2>1. {g \in Survivors' : segs'[g][k] # Absent} = hits
    OBVIOUS
  <2> QED
    BY <2>1 DEF SurvivorCell
<1>3. CASE hits # {}
  <2>1. Survivors \subseteq Gens
    BY DEF Survivors, Present
  <2>2. hits \subseteq Gens /\ hits \subseteq Survivors
    BY <2>1
  <2>3. Max(hits) \in hits
    <3> HIDE DEF hits
    <3> QED BY <1>3, <2>2, MaxGeneration
  <2>4. segs'[Max(hits)] = segs[Max(hits)]
    <3> HIDE DEF hits
    <3> QED BY <2>2, <2>3
  <2>5. segs'[Max(hits)][k] = segs[Max(hits)][k]
    BY <2>4
  <2> HIDE DEF hits
  <2>6. SurvivorCell(k) = segs[Max(hits)][k]
    BY <1>1, <1>3
  <2>7. SurvivorCell(k)' = segs'[Max(hits)][k]
    BY <1>2, <1>3
  <2> QED
    BY <2>5, <2>6, <2>7
<1>4. CASE hits = {}
  <2> HIDE DEF hits
  <2> QED BY <1>1, <1>2, <1>4, Zenon
<1> QED
  BY <1>3, <1>4

(* The death of the process, and every step of recovery until the log is   *)
(* replayed, leave what will be recovered as it is.                        *)
LEMMA RecoveryStep ==
  ASSUME LogInv, Next, pc' \notin Running, NEW k \in Keys
  PROVE  Recovered(k)' = Recovered(k)
<1>1. /\ FilesInv /\ IInv /\ TypeOK /\ TailInv /\ MarkerInv /\ PresentInv /\ RemovalInv
  BY DEF LogInv, FilesInv, IInv
<1>2. ASSUME UNCHANGED <<segs, marker>>, LoggedCell(k)' = LoggedCell(k)
      PROVE  Recovered(k)' = Recovered(k)
  <2>1. SurvivorCell(k)' = SurvivorCell(k)
    BY <1>2 DEF SurvivorCell, Survivors, Present
  <2> QED
    BY <1>2, <2>1 DEF Recovered
<1>3. CASE UNCHANGED <<wal, segs, marker>>
  BY <1>2, <1>3 DEF LoggedCell
<1>4. CASE Crash
  <2>1. UNCHANGED <<segs, marker>>
    BY <1>4 DEF Crash
  <2>2. CASE wal' = wal
    BY <1>3, <2>1, <2>2
  <2>3. CASE At("wal_append") /\ wal' = Append(wal, Torn)
    <3>1. TornAt(wal) = {} /\ wal \in Seq(Records \cup {Torn})
      BY <1>1, <2>3, LogIsWhole, WhereRunning DEF At, TypeOK
    <3>2. ValidPrefix(wal') = ValidPrefix(wal)
      BY <2>3, <3>1, TornAppend, WholeLog
    <3>3. LoggedCell(k)' = Applied(ValidPrefix(wal'))[k]
      BY DEF LoggedCell
    <3>4. LoggedCell(k)' = LoggedCell(k)
      BY <3>2, <3>3, Zenon DEF LoggedCell
    <3> QED
      BY <1>2, <2>1, <3>4
  <2> QED
    BY <1>4, <2>2, <2>3 DEF Crash
<1>5. ASSUME UNCHANGED wal, Survivors' = Survivors, \A g \in Survivors : segs'[g] = segs[g]
      PROVE  Recovered(k)' = Recovered(k)
  <2>1. SurvivorCell(k)' = SurvivorCell(k)
    BY <1>5, SameSurvivors
  <2>2. LoggedCell(k)' = LoggedCell(k)
    BY <1>5 DEF LoggedCell
  <2> QED
    BY <2>1, <2>2 DEF Recovered
<1>6. CASE DropMarker
  <2>1. marker' = NoMarker /\ UNCHANGED <<wal, segs>>
        /\ pc \in {"rollback_marker", "sweep_marker"}
    BY <1>6 DEF DropMarker, At
  <2>2. Survivors' = Present(segs)
    BY <2>1 DEF Survivors, Present
  <2>3. CASE pc = "rollback_marker"
    <3>1. segs[marker.output] = NoFile
      BY <1>1, <2>3 DEF PresentInv
    <3>2. Survivors = Present(segs)
      BY <3>1 DEF Survivors
    <3> QED
      BY <1>5, <2>1, <2>2, <3>2
  <2>4. CASE pc = "sweep_marker"
    <3>1. Present(segs) \cap marker.old = {}
      BY <1>1, <2>4 DEF PresentInv
    <3>2. Survivors = Present(segs)
      BY <3>1 DEF Survivors
    <3> QED
      BY <1>5, <2>1, <2>2, <3>2
  <2> QED
    BY <2>1, <2>3, <2>4
<1>7. CASE SweepOld
  <2>1. pc = "old_sweep" /\ UNCHANGED <<wal, marker>>
        /\ segs' = [segs EXCEPT ![Max(todo)] = NoFile]
    BY <1>7 DEF SweepOld, At
  <2>2. marker # NoMarker /\ segs[marker.output] # NoFile /\ todo \subseteq marker.old
    BY <1>1, <2>1 DEF MarkerInv, Sweeping, RemovalInv
  <2>3. Max(todo) \in todo /\ Max(todo) \in Gens
    BY <1>1, <1>7, RemoveAfter
  <2>4. marker.output # Max(todo)
    <3>1. Max(todo) \in Nat /\ Max(todo) < marker.output /\ marker.output \in Nat
      BY <1>1, <2>2, <2>3, ReplacedAreOlder
    <3> QED
      BY <3>1
  <2>5. DOMAIN segs = Gens
    BY <1>1 DEF TypeOK
  <2>6. \A g : g # Max(todo) => segs'[g] = segs[g]
    BY <2>1
  <2>7. Present(segs') = Present(segs) \ {Max(todo)}
    BY <1>1, <2>1, <2>3, PresentAfter
  <2>8. Survivors = Present(segs) \ marker.old
    BY <2>2 DEF Survivors
  <2>9. Survivors' = Present(segs') \ marker.old
    BY <2>1, <2>2, <2>4, <2>6 DEF Survivors, Present
  <2>10. Survivors' = Survivors /\ Max(todo) \notin Survivors
    BY <2>2, <2>3, <2>7, <2>8, <2>9
  <2> QED
    BY <1>5, <2>1, <2>6, <2>10
<1>8. Crash \/ UNCHANGED <<wal, segs, marker>> \/ DropMarker \/ SweepOld
  BY <1>1, FromRunning, StoppedSteps
<1> QED
  BY <1>3, <1>4, <1>6, <1>7, <1>8

(* An empty directory holds nothing.                                       *)
LEMMA InitRecovered ==
  ASSUME Init, NEW k \in Keys
  PROVE  Recovered(k) = Absent
<1>1. wal = <<>> /\ segs = [g \in Gens |-> NoFile] /\ marker = NoMarker
  BY DEF Init
<1>2. LoggedCell(k) = Absent
  <2>1. TornAt(wal) = {}
    BY <1>1 DEF TornAt
  <2> QED
    BY <1>1, <2>1, LoggedWhole, AppliedEmpty DEF EmptyMap
<1>3. Survivors = {}
  BY <1>1 DEF Survivors, Present
<1>4. SurvivorCell(k) = Absent
  BY <1>3 DEF SurvivorCell
<1> QED
  BY <1>2, <1>4, LiveAbsent DEF Recovered

(* Only an append adds to what may be answered.                            *)
LEMMA ViewsStep ==
  ASSUME LogInv, Spared, Next, NEW k \in Keys
  PROVE  \/ Views(k)' \subseteq Views(k)
         \/ WalAppend /\ k = call.key /\ Views(k)' \subseteq Views(k) \cup {Live(call.cell)}
<1>1. pc' \in Running => Views(k)' = {Get(k)', Replayed(k)'}
  BY DEF Views
<1>2. pc' \notin Running => Views(k)' = {Recovered(k)'}
  BY DEF Views
<1>3. CASE pc' \notin Running
  <2>1. Recovered(k)' \in Views(k)
    BY <1>3, RecoveryStep, LogInvAnswers DEF RecoveredInViews
  <2> QED
    BY <1>2, <1>3, <2>1
<1>4. CASE pc' \in Running /\ pc \in Running
  BY <1>1, <1>4, ReadsStep DEF Views
<1>5. CASE pc' \in Running /\ pc \notin Running
  <2>1. FilesInv /\ TypeOK
    BY DEF LogInv, FilesInv, IInv
  <2>2. Get(k)' = Recovered(k) /\ Replayed(k)' = Recovered(k)
    BY <1>5, <2>1, ToRunning, ReplayReads
  <2> QED
    BY <1>1, <1>5, <2>2 DEF Views
<1> QED
  BY <1>3, <1>4, <1>5

(* A write that is acknowledged is the only answer for its key.            *)
LEMMA AcknowledgedViews ==
  ASSUME LogInv, Next, NEW k \in Keys, call.op = "write", k = call.key,
         pc' = "idle", ret' = "ok"
  PROVE  Views(k)' = {Live(call.cell)}
<1>1. /\ FilesInv /\ IInv /\ TypeOK /\ CallInv /\ TailInv /\ MemInv
  BY DEF LogInv, FilesInv, IInv
<1>2. Views(k)' = {Get(k)', Replayed(k)'}
  BY WhereRunning DEF Views
<1>3. CASE WalSync
  BY <1>1, <1>2, <1>3, WalSyncReads
<1>4. CASE WalTruncSync
  <2>1. /\ mem' = EmptyMap /\ UNCHANGED <<wal, readers>> /\ wal = <<>>
        /\ pc \in Flushed
    BY <1>1, <1>4 DEF WalTruncSync, disk, At, TailInv, Flushed
  <2>2. LoggedCell(k) = Absent
    <3>1. TornAt(wal) = {}
      BY <2>1 DEF TornAt
    <3> QED
      BY <2>1, <3>1, LoggedWhole, AppliedEmpty DEF EmptyMap
  <2>3. LoggedCell(k)' = Absent /\ OpenCell(k)' = OpenCell(k) /\ mem'[k] = Absent
    BY <2>1, <2>2 DEF LoggedCell, OpenCell, EmptyMap
  <2>4. OpenCell(k) = call.cell
    <3>1. mem[k] = call.cell /\ call.cell # Absent
      BY <1>1, <2>1, WriteIsTyped DEF MemInv
    <3> QED
      BY <1>1, <2>1, <3>1 DEF MemInv
  <2> QED
    BY <1>2, <2>3, <2>4, ReadsWhenPrimed
<1> QED
  BY <1>1, <1>3, <1>4, AcknowledgeSteps

=============================================================================
