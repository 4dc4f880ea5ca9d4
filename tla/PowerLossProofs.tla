---------------------------- MODULE PowerLossProofs ----------------------------
(***************************************************************************)
(* No loss of power loses an acknowledged write, nor leaves files that     *)
(* cannot be opened, for all values of the constants, on the file system   *)
(* that PowerLoss describes and if the calls of Spared do not fail.        *)
(***************************************************************************)
EXTENDS PowerLoss, StoreProofs

-----------------------------------------------------------------------------
(* What would be recovered from other files than those that are there *)

(* Recovered, as an operator on files.                                     *)
FoundLog(log, k) == Applied(ValidPrefix(log))[k]
FoundFiles(files, m) ==
  IF m # NoMarker /\ files[m.output] # NoFile
  THEN Present(files) \ m.old
  ELSE Present(files)
FoundCell(files, m, k) ==
  LET hits == {g \in FoundFiles(files, m) : files[g][k] # Absent}
  IN IF hits = {} THEN Absent ELSE files[Max(hits)][k]
Found(log, files, m, k) ==
  Live(IF FoundLog(log, k) # Absent THEN FoundLog(log, k) ELSE FoundCell(files, m, k))

LEMMA RecoveredFound ==
  ASSUME NEW k
  PROVE  /\ Recovered(k) = Found(wal, segs, marker, k)
         /\ Recovered(k)' = Found(wal', segs', marker', k)
BY DEF Recovered, LoggedCell, SurvivorCell, Survivors, Present,
       Found, FoundLog, FoundCell, FoundFiles

LEMMA RecoveredAfter ==
  ASSUME NEW d, NEW k
  PROVE  After(d)!Recovered(k) = Found(d.wal, d.segs, d.marker, k)
<1>1. \A S : After(d)!Max(S) = Max(S)
  BY DEF After!Max, Max
<1>2. \A c : After(d)!Live(c) = Live(c)
  BY DEF After!Live, Live, After!Cells, Cells
<1>3. \A files : After(d)!Present(files) = Present(files)
  BY DEF After!Present, Present, After!Gens, Gens
<1>4. \A log : After(d)!Applied(log) = Applied(log)
  BY <1>1 DEF After!Applied, Applied
<1>5. \A log : After(d)!ValidPrefix(log) = ValidPrefix(log)
  BY DEF After!ValidPrefix, ValidPrefix, After!TornAt, TornAt, After!Min, Min
<1>6. After(d)!NoMarker = NoMarker
  BY DEF After!NoMarker, NoMarker
<1>7. After(d)!LoggedCell(k) = FoundLog(d.wal, k)
  BY <1>4, <1>5, Zenon DEF After!LoggedCell, FoundLog
<1>8. After(d)!Survivors = FoundFiles(d.segs, d.marker)
  BY <1>3, <1>6, Zenon DEF After!Survivors, FoundFiles
<1>9. After(d)!SurvivorCell(k) = FoundCell(d.segs, d.marker, k)
  BY <1>1, <1>8 DEF After!SurvivorCell, FoundCell
<1> QED
  BY <1>2, <1>7, <1>9 DEF After!Recovered, Found

(* Sound, with the definitions of Store itself.                            *)
LEMMA SoundIs ==
  ASSUME NEW d
  PROVE  Sound(d) <=>
           /\ \A i \in TornAt(d.wal) : i = Len(d.wal)
           /\ d.marker # NoMarker =>
                /\ d.marker.output \in Gens
                /\ WellFormed(d.marker)
                /\ d.segs[d.marker.output] # NoFile \/ d.marker.old \subseteq Present(d.segs)
<1>1. \A m : After(d)!WellFormed(m) <=> WellFormed(m)
  <2>1. \A S : After(d)!Cardinality(S) = Cardinality(S)
    BY DEF After!Cardinality, Cardinality
  <2> QED
    BY <2>1, Zenon DEF After!WellFormed, WellFormed
<1>2. \A files : After(d)!Present(files) = Present(files)
  BY DEF After!Present, Present, After!Gens, Gens
<1>3. After(d)!NoMarker = NoMarker
  BY DEF After!NoMarker, NoMarker
<1>4. After(d)!Recoverable <=>
        (d.marker # NoMarker =>
           /\ WellFormed(d.marker)
           /\ d.segs[d.marker.output] # NoFile \/ d.marker.old \subseteq Present(d.segs))
  BY <1>1, <1>2, <1>3 DEF After!Recoverable
<1> QED
  BY <1>4 DEF Sound

-----------------------------------------------------------------------------
(* A disk and a stopped process *)

(* The files of a store can be what a loss of power leaves.                *)
LEMMA DiskIsSound ==
  ASSUME LogInv, NEW d, d = Disk
  PROVE  d \in Disks /\ Sound(d)
<1>1. TypeOK /\ Recoverable /\ MarkerType /\ TailInv
  BY DEF LogInv, FilesInv, IInv, MarkerInv
<1>2. d.wal = wal /\ d.segs = segs /\ d.marker = marker
  BY DEF Disk
<1>3. d \in Disks
  BY <1>1 DEF Disk, Disks, TypeOK
<1>4. \A i \in TornAt(d.wal) : i = Len(d.wal)
  BY <1>1, <1>2 DEF TailInv
<1>5. d.marker # NoMarker =>
        /\ d.marker.output \in Gens
        /\ WellFormed(d.marker)
        /\ d.segs[d.marker.output] # NoFile \/ d.marker.old \subseteq Present(d.segs)
  BY <1>1, <1>2 DEF Recoverable, MarkerType
<1> QED
  BY <1>3, <1>4, <1>5, SoundIs

LEMMA DiskIsSoundNext == (LogInv => \A d : d = Disk => d \in Disks /\ Sound(d))'
<1>1. LogInv => \A d : d = Disk => d \in Disks /\ Sound(d)
  BY DiskIsSound
<1> QED
  BY <1>1, PTL

(* And what it leaves is a store that has stopped.                         *)
LEMMA StoppedStore ==
  ASSUME NEW d \in Disks, Sound(d), d = Disk,
         pc = "down", call = NoCall, todo = {}, ret = "none",
         mem = EmptyMap, readers = <<>>, nextGen = 1
  PROVE  LogInv
<1>1. d.wal = wal /\ d.segs = segs /\ d.tmps = tmps /\ d.marker = marker
      /\ d.markerTmp = markerTmp
  BY DEF Disk
<1>2. TypeOK
  BY <1>1, EmptyMapType, BoundsAssumption
     DEF Disks, TypeOK, Points, Calls, NoCall
<1>3. /\ \A i \in TornAt(wal) : i = Len(wal)
      /\ marker # NoMarker =>
           /\ marker.output \in Gens
           /\ WellFormed(marker)
           /\ segs[marker.output] # NoFile \/ marker.old \subseteq Present(segs)
  BY <1>1, SoundIs
<1>4. pc \in Opening /\ pc \notin Running
  BY DEF Running, Opening
<1>5. ReadersInv
  BY DEF ReadersInv, ReadersNewestFirst, ReadersMatchFiles, Merging
<1>6. MarkerInv /\ MarkerType
  BY <1>3, <1>4 DEF MarkerInv, MarkerType, Recoverable, Resolved, Sweeping
<1>7. WriteInv /\ GenInv /\ InstallInv /\ RemovalInv
  BY DEF WriteInv, GenInv, InstallInv, RemovalInv, UsesNextGen, BeforeFlushed,
         Merging, Undoing
<1>8. IInv
  BY <1>2, <1>5, <1>6, <1>7 DEF IInv
<1>9. CallInv
  BY DEF CallInv, Between, Opening, Compacting, Merging, Undoing
<1>10. MemInv /\ MergeInv /\ PresentInv
  BY DEF MemInv, MergeInv, PresentInv, Flushing, Flushed, Compacting, Merging,
         Undoing, Serving, Running, Opening, Installing, Removing
<1>11. TailInv /\ PendingInv /\ LeftoverInv
  BY <1>3, <1>4 DEF TailInv, PendingInv, LeftoverInv
<1> QED
  BY <1>8, <1>9, <1>10, <1>11 DEF LogInv, FilesInv

LEMMA StoppedStoreNext == (
  (\E d \in Disks : Sound(d) /\ d = Disk)
    /\ pc = "down" /\ call = NoCall /\ todo = {} /\ ret = "none"
    /\ mem = EmptyMap /\ readers = <<>> /\ nextGen = 1
  => LogInv)'
<1>1. (\E d \in Disks : Sound(d) /\ d = Disk)
        /\ pc = "down" /\ call = NoCall /\ todo = {} /\ ret = "none"
        /\ mem = EmptyMap /\ readers = <<>> /\ nextGen = 1
      => LogInv
  BY StoppedStore
<1> QED
  BY <1>1, PTL

-----------------------------------------------------------------------------
(* Every step keeps what is promised on every disk that may be left *)

LEMMA InitPowerInv == PInit => LogInv /\ PowerInv
<1> SUFFICES ASSUME PInit PROVE LogInv /\ PowerInv
  OBVIOUS
<1>1. Init /\ LogInv /\ surviving = {Disk} /\ promise = [k \in Keys |-> {Absent}]
  BY InitLogInv DEF PInit
<1>2. ASSUME NEW k \in Keys
      PROVE  Recovered(k) = Absent
  BY <1>1, InitRecovered
<1>3. pc \notin Running
  BY <1>1 DEF Init, Running, Opening
<1>4. \A k \in Keys : Views(k) \subseteq promise[k]
  BY <1>1, <1>2, <1>3 DEF Views
<1>5. ASSUME NEW d, d = Disk
      PROVE  d \in Disks /\ Sound(d) /\ \A k \in Keys : After(d)!Recovered(k) \in promise[k]
  <2>1. d \in Disks /\ Sound(d)
    BY <1>1, <1>5, DiskIsSound
  <2>2. d.wal = wal /\ d.segs = segs /\ d.marker = marker
    BY <1>5 DEF Disk
  <2>3. \A k \in Keys : After(d)!Recovered(k) = Recovered(k)
    BY <2>2, RecoveredAfter, RecoveredFound
  <2> QED
    BY <1>1, <1>2, <2>1, <2>3
<1> QED
  BY <1>1, <1>4, <1>5 DEF PowerInv

(* The disks that a step adds: its own, or that with the record cut.       *)
LEMMA SurvivingStep ==
  ASSUME Surviving, NEW d \in surviving'
  PROVE  \/ d \in surviving /\ ~ Syncs
         \/ d = Disk'
         \/ /\ At("wal_append") /\ wal' # wal /\ ~ Syncs
            /\ d = [Disk' EXCEPT !.wal = Append(wal, Torn)]
<1>1. CASE Syncs
  BY <1>1 DEF Surviving
<1>2. CASE ~ Syncs
  BY <1>2 DEF Surviving, Reached
<1> QED
  BY <1>1, <1>2

(* An append that is cut leaves what was there.                            *)
LEMMA CutAppend ==
  ASSUME LogInv, Next, pc = "wal_append", NEW d,
         d = [Disk' EXCEPT !.wal = Append(wal, Torn)]
  PROVE  /\ d \in Disks /\ Sound(d)
         /\ \A k \in Keys : After(d)!Recovered(k) = Recovered(k)
<1>1. TypeOK /\ TailInv
  BY DEF LogInv, FilesInv, IInv
<1>2. /\ d.wal = Append(wal, Torn) /\ d.segs = segs /\ d.marker = marker
      /\ d = [Disk EXCEPT !.wal = Append(wal, Torn)]
  BY AppendSteps DEF Disk
<1>3. wal \in Seq(Records \cup {Torn}) /\ TornAt(wal) = {}
  BY <1>1, LogIsWhole, WhereRunning DEF TypeOK
<1>4. /\ ValidPrefix(d.wal) = wal /\ TornAt(d.wal) = {Len(wal) + 1}
      /\ d.wal \in Seq(Records \cup {Torn}) /\ Len(d.wal) = Len(wal) + 1
  BY <1>2, <1>3, TornAppend
<1>5. Disk \in Disks /\ Sound(Disk)
  BY DiskIsSound
<1>6. d \in Disks
  BY <1>2, <1>4, <1>5 DEF Disks
<1>7. Sound(d)
  <2>1. Disk.segs = segs /\ Disk.marker = marker
    BY DEF Disk
  <2>2. \A i \in TornAt(d.wal) : i = Len(d.wal)
    BY <1>4
  <2> QED
    BY <1>2, <1>5, <2>1, <2>2, SoundIs
<1>8. ASSUME NEW k \in Keys
      PROVE  After(d)!Recovered(k) = Recovered(k)
  <2>1. FoundLog(d.wal, k) = FoundLog(wal, k)
    BY <1>3, <1>4, WholeLog DEF FoundLog
  <2>2. Found(d.wal, d.segs, d.marker, k) = Found(wal, segs, marker, k)
    BY <1>2, <2>1 DEF Found
  <2> QED
    BY <2>2, RecoveredAfter, RecoveredFound
<1> QED
  BY <1>6, <1>7, <1>8

(* What is acknowledged has been synced.                                   *)
LEMMA AcknowledgedIsSynced ==
  ASSUME LogInv, Next, call.op = "write", pc' = "idle", ret' = "ok"
  PROVE  Syncs
<1>1. CallInv
  BY DEF LogInv, FilesInv
<1>2. pc = "wal_sync" \/ pc = "wal_trunc_sync"
  BY <1>1, AcknowledgeSteps DEF WalSync, WalTruncSync, At
<1> QED
  BY <1>2 DEF Syncs, SyncPoints

(* A step of the store.                                                    *)
LEMMA StoreStepPowerInv ==
  ASSUME Spared, LogInv, PowerInv, Next, Surviving, Promise
  PROVE  PowerInv'
<1>1. LogInv' /\ TypeOK /\ TailInv /\ IInv
  BY StepLogInv DEF LogInv, FilesInv, IInv
<1>2. /\ promise \in [Keys -> SUBSET (Vals \cup {Absent})]
      /\ surviving \subseteq Disks
      /\ \A k \in Keys : Views(k) \subseteq promise[k]
      /\ \A d \in surviving :
           Sound(d) /\ \A k \in Keys : After(d)!Recovered(k) \in promise[k]
  BY DEF PowerInv
<1> DEFINE Acked == call.op = "write" /\ pc' = "idle" /\ ret' = "ok"
           Logged == At("wal_append") /\ pc' = "wal_sync"
<1>3. call.op = "write" => call.key \in Keys /\ Live(call.cell) \in Vals \cup {Absent}
  BY <1>1, WriteIsTyped, LiveType
<1>4. /\ promise' \in [Keys -> SUBSET (Vals \cup {Absent})]
      /\ \A k \in Keys : Views(k)' \subseteq promise'[k]
      /\ ~ Acked => \A k \in Keys : promise[k] \subseteq promise'[k]
  <2>1. CASE Acked
    <3>1. promise' = [promise EXCEPT ![call.key] = {Live(call.cell)}]
      BY <2>1 DEF Promise
    <3>2. ASSUME NEW k \in Keys
          PROVE  Views(k)' \subseteq promise'[k]
      <4>1. CASE k = call.key
        <5>1. Views(k)' = {Live(call.cell)}
          BY <2>1, <4>1, AcknowledgedViews
        <5> QED
          BY <1>2, <3>1, <4>1, <5>1
      <4>2. CASE k # call.key
        <5>1. Views(k)' \subseteq Views(k)
          BY <4>2, ViewsStep
        <5> QED
          BY <1>2, <3>1, <4>2, <5>1
      <4> QED
        BY <4>1, <4>2
    <3> QED
      BY <1>2, <1>3, <2>1, <3>1, <3>2
  <2>2. CASE ~ Acked /\ Logged
    <3>1. promise' = [promise EXCEPT ![call.key] = @ \cup {Live(call.cell)}]
      BY <2>2 DEF Promise
    <3>2. call.op = "write"
      BY <1>1, <2>2 DEF IInv, WriteInv, At
    <3>3. ASSUME NEW k \in Keys
          PROVE  Views(k)' \subseteq promise'[k] /\ promise[k] \subseteq promise'[k]
      <4>1. CASE k = call.key
        <5>1. Views(k)' \subseteq Views(k) \cup {Live(call.cell)}
          BY <4>1, ViewsStep
        <5> QED
          BY <1>2, <3>1, <4>1, <5>1
      <4>2. CASE k # call.key
        <5>1. Views(k)' \subseteq Views(k)
          BY <4>2, ViewsStep
        <5> QED
          BY <1>2, <3>1, <4>2, <5>1
      <4> QED
        BY <4>1, <4>2
    <3> QED
      BY <1>2, <1>3, <3>1, <3>2, <3>3
  <2>3. CASE ~ Acked /\ ~ Logged
    <3>1. promise' = promise
      BY <2>3 DEF Promise
    <3>2. ~ WalAppend
      BY <2>3 DEF WalAppend, Goto
    <3>3. \A k \in Keys : Views(k)' \subseteq Views(k)
      BY <3>2, ViewsStep
    <3> QED
      BY <1>2, <3>1, <3>3
  <2> QED
    BY <2>1, <2>2, <2>3
<1>5. Acked => Syncs
  BY AcknowledgedIsSynced
<1>6. ASSUME NEW d \in surviving'
      PROVE  d \in Disks /\ Sound(d) /\ \A k \in Keys : After(d)!Recovered(k) \in promise'[k]
  <2>1. CASE d \in surviving /\ ~ Syncs
    <3>1. d \in Disks /\ Sound(d) /\ \A k \in Keys : After(d)!Recovered(k) \in promise[k]
      BY <1>2, <2>1
    <3> QED
      BY <1>4, <1>5, <2>1, <3>1
  <2>2. CASE d = Disk'
    <3>1. d \in Disks /\ Sound(d)
      BY <1>1, <2>2, DiskIsSoundNext
    <3>2. d.wal = wal' /\ d.segs = segs' /\ d.marker = marker'
      BY <2>2 DEF Disk
    <3>3. ASSUME NEW k \in Keys
          PROVE  After(d)!Recovered(k) \in promise'[k]
      <4>1. After(d)!Recovered(k) = Recovered(k)'
        BY <3>2, RecoveredAfter, RecoveredFound
      <4>2. Recovered(k)' \in Views(k)'
        BY <1>1, LogInvAnswersNext DEF RecoveredInViews
      <4> QED
        BY <1>4, <4>1, <4>2
    <3> QED
      BY <3>1, <3>3
  <2>3. CASE /\ At("wal_append") /\ wal' # wal /\ ~ Syncs
             /\ d = [Disk' EXCEPT !.wal = Append(wal, Torn)]
    <3>1. /\ d \in Disks /\ Sound(d)
          /\ \A k \in Keys : After(d)!Recovered(k) = Recovered(k)
      BY <2>3, CutAppend DEF At
    <3>2. \A k \in Keys : Recovered(k) \in Views(k)
      BY LogInvAnswers DEF RecoveredInViews
    <3> QED
      BY <1>2, <1>4, <1>5, <2>3, <3>1, <3>2
  <2> QED
    BY <2>1, <2>2, <2>3, SurvivingStep
<1>7. surviving' \subseteq Disks
  BY <1>6
<1> QED
  BY <1>4, <1>6, <1>7 DEF PowerInv

(* The machine stops.                                                      *)
LEMMA LosePowerStep ==
  ASSUME PowerInv, LosePower
  PROVE  LogInv' /\ PowerInv'
<1>1. PICK d \in surviving :
        /\ wal' = d.wal /\ segs' = d.segs /\ tmps' = d.tmps
        /\ marker' = d.marker /\ markerTmp' = d.markerTmp
        /\ surviving' = {d}
  BY DEF LosePower
<1>2. d \in Disks /\ Sound(d) /\ \A k \in Keys : After(d)!Recovered(k) \in promise[k]
  BY DEF PowerInv
<1>3. d = Disk'
  BY <1>1, <1>2 DEF Disk, Disks
<1>4. /\ pc' = "down" /\ call' = NoCall /\ todo' = {} /\ ret' = "none"
      /\ mem' = EmptyMap /\ readers' = <<>> /\ nextGen' = 1
      /\ promise' = promise
  BY DEF LosePower, Forget
<1>5. LogInv'
  BY <1>2, <1>3, <1>4, StoppedStoreNext
<1>6. \A k \in Keys : Views(k)' = {Recovered(k)'}
  BY <1>4 DEF Views, Running, Opening
<1>7. \A k \in Keys : Recovered(k)' = After(d)!Recovered(k)
  BY <1>1, RecoveredAfter, RecoveredFound
<1> QED
  BY <1>1, <1>2, <1>4, <1>5, <1>6, <1>7 DEF PowerInv

LEMMA StepPowerInv ==
  ASSUME Spared
  PROVE  LogInv /\ PowerInv /\ [PNext]_pvars => LogInv' /\ PowerInv'
<1> SUFFICES ASSUME LogInv, PowerInv, [PNext]_pvars
             PROVE  LogInv' /\ PowerInv'
  OBVIOUS
<1>1. CASE Next /\ Surviving /\ Promise
  BY <1>1, StepLogInv, StoreStepPowerInv
<1>2. CASE LosePower
  BY <1>2, LosePowerStep
<1>3. CASE UNCHANGED pvars
  <2>1. UNCHANGED vars /\ UNCHANGED <<surviving, promise>>
    BY <1>3 DEF pvars
  <2>2. LogInv'
    BY <2>1, StepLogInv
  <2>3. UNCHANGED <<wal, segs, marker, mem, readers, pc>>
    BY <2>1 DEF vars, disk, memory, control
  <2>4. \A k \in Keys : Views(k)' = Views(k)
    <3> TAKE k \in Keys
    <3>1. Get(k)' = Get(k) /\ Replayed(k)' = Replayed(k)
      BY <2>3, SameReads
    <3>2. Recovered(k)' = Recovered(k)
      BY <2>3, RecoveredFound
    <3> QED
      BY <2>3, <3>1, <3>2 DEF Views
  <2> QED
    BY <2>1, <2>2, <2>4 DEF PowerInv
<1> QED
  BY <1>1, <1>2, <1>3 DEF PNext

LEMMA PowerInvariant ==
  ASSUME Spared
  PROVE  PSpec => [](LogInv /\ PowerInv)
<1>1. LogInv /\ PowerInv /\ [PNext]_pvars => LogInv' /\ PowerInv'
  BY StepPowerInv
<1> QED
  BY <1>1, InitPowerInv, PTL DEF PSpec

(* Whatever files a loss of power leaves, at any step, a store opened on   *)
(* them recovers every write that store.rs has acknowledged, and none that *)
(* an acknowledged one has replaced.                                       *)
THEOREM PowerLossLosesNothing ==
  ASSUME Spared
  PROVE  PSpec => []AcknowledgedSurvivesPowerLoss
<1>1. LogInv /\ PowerInv => AcknowledgedSurvivesPowerLoss
  <2>1. LogInv => RecoveredInViews
    BY LogInvAnswers
  <2> QED
    BY <2>1 DEF PowerInv, AcknowledgedSurvivesPowerLoss, RecoveredInViews
<1> QED
  BY <1>1, PowerInvariant, PTL

-----------------------------------------------------------------------------
(* Reopening *)

(* The files of LogInv give Store::open no reason to refuse.               *)
LEMMA NothingIsRefused ==
  ASSUME LogInv, Next, Failing \cap OpenErrors = {}, ret # "open_err"
  PROVE  ret' # "open_err"
<1>1. TailInv /\ Recoverable /\ TypeOK
  BY DEF LogInv, FilesInv, IInv, MarkerInv
<1>2. ASSUME ret' = "open_err"
      PROVE  ReplayFails
  <2>1. ~ (marker # NoMarker /\ ~ RollsForward /\ ~ RollsBack)
    BY <1>1 DEF Recoverable, RollsForward, RollsBack
  <2> QED
    BY <1>2, <2>1, RefusalSteps
<1>3. ~ BuriedTear(wal)
  <2> SUFFICES ASSUME TornAt(wal) # {}
               PROVE  ~ (Min(TornAt(wal)) < Len(wal))
    BY DEF BuriedTear
  <2>1. Len(wal) \in Nat /\ TornAt(wal) \subseteq Nat
    BY <1>1 DEF TypeOK, TornAt
  <2>2. Min(TornAt(wal)) \in TornAt(wal)
    BY <2>1, MinIsLeast
  <2>3. Min(TornAt(wal)) = Len(wal)
    BY <1>1, <2>2 DEF TailInv
  <2> QED
    BY <2>1, <2>3
<1> QED
  BY <1>2, <1>3 DEF ReplayFails

(* If no call of Store::open fails, no loss of power and no crash leaves   *)
(* files that it refuses.                                                  *)
THEOREM PowerLossIsRepaired ==
  ASSUME Spared, Failing \cap OpenErrors = {}
  PROVE  PSpec => []PowerLossIsForgiven
<1>1. PInit => PowerLossIsForgiven
  BY DEF PInit, Init, PowerLossIsForgiven
<1>2. LogInv /\ PowerLossIsForgiven /\ [PNext]_pvars => PowerLossIsForgiven'
  <2> SUFFICES ASSUME LogInv, ret # "open_err", [PNext]_pvars
               PROVE  ret' # "open_err"
    BY DEF PowerLossIsForgiven
  <2>1. CASE Next
    BY <2>1, NothingIsRefused
  <2>2. CASE LosePower
    BY <2>2 DEF LosePower
  <2>3. CASE UNCHANGED pvars
    BY <2>3 DEF pvars, vars, control
  <2> QED
    BY <2>1, <2>2, <2>3 DEF PNext
<1> QED
  BY <1>1, <1>2, PowerInvariant, PTL DEF PSpec

=============================================================================
