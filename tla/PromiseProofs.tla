----------------------------- MODULE PromiseProofs -----------------------------
(***************************************************************************)
(* What the Store promises its client, for all values of its constants, if *)
(* the calls of Spared do not fail: it implements the map of KVMap, and    *)
(* loses no acknowledged write.                                            *)
(***************************************************************************)
EXTENDS StoreKV, Durability, StoreProofs

-----------------------------------------------------------------------------
(* Acknowledged writes *)

LEMMA InitPromised == DInit => LogInv /\ Promised
<1> SUFFICES ASSUME DInit PROVE LogInv /\ Promised
  OBVIOUS
<1>1. Init /\ LogInv /\ promise = [k \in Keys |-> {Absent}]
  BY InitLogInv DEF DInit
<1>2. ASSUME NEW k \in Keys
      PROVE  Recovered(k) = Absent
  BY <1>1, InitRecovered
<1>3. pc \notin Running
  BY <1>1 DEF Init, Running, Opening
<1> QED
  BY <1>1, <1>2, <1>3 DEF Promised, Views

(* What the client may be told changes with what the store may answer.     *)
LEMMA StepPromised ==
  ASSUME Spared
  PROVE  LogInv /\ Promised /\ [DNext]_dvars => LogInv' /\ Promised'
<1> SUFFICES ASSUME LogInv, Promised, [DNext]_dvars PROVE LogInv' /\ Promised'
  OBVIOUS
<1>1. [Next]_vars /\ LogInv'
  <2>1. [Next]_vars
    BY DEF DNext, dvars
  <2> QED
    BY <2>1, StepLogInv
<1>2. /\ FilesInv /\ IInv /\ TypeOK /\ CallInv /\ TailInv
      /\ promise \in [Keys -> SUBSET (Vals \cup {Absent})]
      /\ \A k \in Keys : Views(k) \subseteq promise[k]
  BY DEF LogInv, FilesInv, IInv, Promised
<1>3. CASE UNCHANGED dvars
  <2>1. UNCHANGED <<wal, segs, marker, mem, readers, pc, promise>>
    BY <1>3 DEF dvars, vars, disk, memory, control
  <2>2. \A k \in Keys : Views(k)' = Views(k)
    <3> TAKE k \in Keys
    <3>1. Get(k)' = Get(k) /\ Replayed(k)' = Replayed(k) /\ LoggedCell(k)' = LoggedCell(k)
      BY <2>1, SameReads
    <3>2. Recovered(k)' = Recovered(k)
      <4>1. SurvivorCell(k)' = SurvivorCell(k)
        BY <2>1 DEF SurvivorCell, Survivors, Present
      <4> QED
        BY <3>1, <4>1 DEF Recovered
    <3> QED
      BY <2>1, <3>1, <3>2 DEF Views
  <2> QED
    BY <1>1, <1>2, <2>1, <2>2 DEF Promised
<1>4. CASE DNext
  <2>1. Next /\ Promise
    BY <1>4 DEF DNext
  <2>2. call.op = "write" => call.key \in Keys /\ Live(call.cell) \in Vals \cup {Absent}
    BY <1>2, WriteIsTyped, LiveType
  <2> DEFINE Acked == call.op = "write" /\ Returns("ok")
             Logged == At("wal_append") /\ pc' = "wal_sync"
             Shown == At("replay") /\ pc' = "idle"
  <2>3. CASE Acked
    <3>1. pc' = "idle" /\ ret' = "ok" /\ call.op = "write" /\ call # NoCall
      BY <2>3 DEF Returns
    <3>2. ~ Logged /\ ~ Shown
      BY <1>2, <3>1 DEF At, CallInv, Between, Resolved
    <3>3. promise' = [promise EXCEPT ![call.key] = {Live(call.cell)}]
      BY <2>1, <2>3, <3>2 DEF Promise
    <3>4. ASSUME NEW k \in Keys
          PROVE  Views(k)' \subseteq promise'[k]
      <4>1. CASE k = call.key
        <5>1. Views(k)' = {Live(call.cell)}
          BY <2>1, <3>1, <4>1, AcknowledgedViews
        <5> QED
          BY <1>2, <3>3, <4>1, <5>1
      <4>2. CASE k # call.key
        <5>1. Views(k)' \subseteq Views(k)
          BY <2>1, <4>2, ViewsStep
        <5> QED
          BY <1>2, <3>3, <4>2, <5>1
      <4> QED
        BY <4>1, <4>2
    <3> QED
      BY <1>1, <1>2, <2>2, <3>1, <3>3, <3>4 DEF Promised
  <2>4. CASE ~ Acked /\ Logged
    <3>1. promise' = [promise EXCEPT ![call.key] = @ \cup {Live(call.cell)}]
      BY <2>1, <2>4 DEF Promise
    <3>2. call.op = "write"
      BY <1>2, <2>4 DEF IInv, WriteInv, At
    <3>3. ASSUME NEW k \in Keys
          PROVE  Views(k)' \subseteq promise'[k]
      <4>1. CASE k = call.key
        <5>1. Views(k)' \subseteq Views(k) \cup {Live(call.cell)}
          BY <2>1, ViewsStep
        <5> QED
          BY <1>2, <3>1, <4>1, <5>1
      <4>2. CASE k # call.key
        <5>1. Views(k)' \subseteq Views(k)
          BY <2>1, <4>2, ViewsStep
        <5> QED
          BY <1>2, <3>1, <4>2, <5>1
      <4> QED
        BY <4>1, <4>2
    <3> QED
      BY <1>1, <1>2, <2>2, <3>1, <3>2, <3>3 DEF Promised
  <2>5. ASSUME ~ Logged, NEW k \in Keys
        PROVE  Views(k)' \subseteq Views(k)
    <3>1. ~ WalAppend
      BY <2>5 DEF WalAppend, Goto
    <3> QED
      BY <2>1, <3>1, ViewsStep
  <2>6. CASE ~ Acked /\ ~ Logged /\ Shown
    <3>1. promise' = [k \in Keys |-> promise[k] \cap {Get(k)'}]
      BY <2>1, <2>6 DEF Promise
    <3>2. Replay
      BY <1>2, <2>1, <2>6, ToRunning, WhereRunning DEF At, Running, Resolved
    <3>3. ASSUME NEW k \in Keys
          PROVE  Views(k)' \subseteq promise'[k]
      <4>1. Views(k)' = {Get(k)'}
        BY <1>2, <2>6, <3>2, ReplayReads, WhereRunning DEF Views
      <4>2. Views(k)' \subseteq Views(k)
        BY <2>5, <2>6
      <4> QED
        BY <1>2, <3>1, <4>1, <4>2
    <3> QED
      BY <1>1, <1>2, <3>1, <3>3 DEF Promised
  <2>7. CASE ~ Acked /\ ~ Logged /\ ~ Shown
    <3>1. promise' = promise
      BY <2>1, <2>7 DEF Promise
    <3> QED
      BY <1>1, <1>2, <2>5, <2>7, <3>1 DEF Promised
  <2> QED
    BY <2>3, <2>4, <2>6, <2>7
<1> QED
  BY <1>3, <1>4

LEMMA DurabilityInvariant ==
  ASSUME Spared
  PROVE  DSpec => [](LogInv /\ Promised)
<1>1. LogInv /\ Promised /\ [DNext]_dvars => LogInv' /\ Promised'
  BY StepPromised
<1> QED
  BY <1>1, InitPromised, PTL DEF DSpec

(* No write that store.rs has acknowledged is lost, and none that it has   *)
(* undone comes back: what any later Store::open would recover is what the *)
(* client was told, wherever the process is killed, whatever else fails.   *)
THEOREM NoAcknowledgedWriteIsLost ==
  ASSUME Spared
  PROVE  DSpec => []AcknowledgedSurvives
<1>1. LogInv /\ Promised => AcknowledgedSurvives
  <2>1. LogInv => RecoveredInViews
    BY LogInvAnswers
  <2> QED
    BY <2>1 DEF Promised, AcknowledgedSurvives, RecoveredInViews
<1> QED
  BY <1>1, DurabilityInvariant, PTL

(* The same of what Store::get returns between calls.                      *)
THEOREM ReadsArePromised ==
  ASSUME Spared
  PROVE  DSpec => []ReadsKeepPromise
<1>1. LogInv /\ Promised => ReadsKeepPromise
  <2>1. At("idle") => \A k \in Keys : Get(k) \in Views(k)
    BY WhereRunning DEF At, Views
  <2> QED
    BY <2>1 DEF Promised, ReadsKeepPromise
<1> QED
  BY <1>1, DurabilityInvariant, PTL

-----------------------------------------------------------------------------
(* Without errors of the log's sync, memory and files agree *)

LEMMA StepAgreeInv ==
  ASSUME Spared, "wal_sync" \notin Failing
  PROVE  LogInv /\ AgreeInv /\ [Next]_vars => AgreeInv'
<1> SUFFICES ASSUME LogInv, AgreeInv, [Next]_vars, pc' \in Running, NEW k \in Keys
             PROVE  Get(k)' = Replayed(k)' \/ (pc' = "wal_sync" /\ k = call'.key)
  BY DEF AgreeInv
<1>1. FilesInv /\ IInv /\ TypeOK /\ TailInv
  BY DEF LogInv, FilesInv, IInv
<1>2. CASE UNCHANGED vars
  <2>1. UNCHANGED <<wal, mem, readers, pc, call>>
    BY <1>2 DEF vars, disk, memory, control
  <2>2. Get(k)' = Get(k) /\ Replayed(k)' = Replayed(k)
    BY <2>1, SameReads
  <2> QED
    BY <2>1, <2>2 DEF AgreeInv
<1>3. CASE Next /\ pc \notin Running
  BY <1>1, <1>3, ToRunning, ReplayReads
<1>4. CASE Next /\ pc \in Running /\ pc = "wal_sync" /\ k = call.key
  BY <1>1, <1>4, SyncSteps, WalSyncReads
<1>5. CASE Next /\ pc \in Running /\ ~ (pc = "wal_sync" /\ k = call.key)
  <2>1. Get(k) = Replayed(k)
    BY <1>5 DEF AgreeInv
  <2>2. CASE WalAppend /\ k = call.key
    BY <1>1, <2>2, WalAppendLog
  <2> QED
    BY <1>5, <2>1, <2>2, ReadsStep
<1> QED
  BY <1>2, <1>3, <1>4, <1>5

LEMMA AgreeInvariant ==
  ASSUME Spared, "wal_sync" \notin Failing
  PROVE  Spec => [](LogInv /\ AgreeInv)
<1>1. Init => AgreeInv
  BY DEF Init, AgreeInv, Running, Opening
<1>2. LogInv /\ AgreeInv /\ [Next]_vars => LogInv' /\ AgreeInv'
  BY StepLogInv, StepAgreeInv
<1> QED
  BY <1>1, <1>2, InitLogInv, PTL DEF Spec

(* Between two calls the memtable holds what a reopened store would rebuild *)
(* from the log, and within a write all but that write.                     *)
THEOREM MemtableAgreesWithLog ==
  ASSUME Spared, "wal_sync" \notin Failing
  PROVE  Spec => []AgreeInv
BY AgreeInvariant, PTL

(* What reopening would find is what the running process reads, but for a  *)
(* record that is in the log and not yet in the memtable.                  *)
LEMMA RecoveredIsRead ==
  ASSUME LogInv, AgreeInv, pc \in Running, NEW k \in Keys,
         ~ (pc = "wal_sync" /\ k = call.key)
  PROVE  Recovered(k) = Get(k)
BY RecoveredIs DEF AgreeInv

(* Between calls, Store::get returns what a store opened now would.        *)
THEOREM ReadsAreRecovered ==
  ASSUME Spared, "wal_sync" \notin Failing
  PROVE  Spec => []ReadsMatchRecovery
<1>1. LogInv /\ AgreeInv => ReadsMatchRecovery
  BY RecoveredIsRead, WhereRunning DEF ReadsMatchRecovery, At
<1> QED
  BY <1>1, AgreeInvariant, PTL

-----------------------------------------------------------------------------
(* The refinement of KVMap *)

(* The step at which a write takes effect.                                 *)
LEMMA AppendRecovered ==
  ASSUME LogInv, WalAppend, NEW k \in Keys
  PROVE  Recovered(k)' = IF k = call.key THEN Live(call.cell) ELSE Recovered(k)
<1>1. IInv /\ TailInv
  BY DEF LogInv, FilesInv
<1>2. /\ LoggedCell(k)' = IF k = call.key THEN call.cell ELSE LoggedCell(k)
      /\ UNCHANGED <<segs, marker>> /\ call.cell # Absent
  BY <1>1, WalAppendLog
<1>3. SurvivorCell(k)' = SurvivorCell(k)
  BY <1>2 DEF SurvivorCell, Survivors, Present
<1> QED
  BY <1>2, <1>3 DEF Recovered

(* No other step is seen in what reopening would find.                     *)
LEMMA OthersRecovered ==
  ASSUME Spared, "wal_sync" \notin Failing, LogInv, AgreeInv, Next, ~ WalAppend,
         NEW k \in Keys
  PROVE  Recovered(k)' = Recovered(k)
<1>1. FilesInv /\ IInv /\ TypeOK /\ TailInv /\ LogInv' /\ AgreeInv'
  BY StepLogInv, StepAgreeInv DEF LogInv, FilesInv, IInv
<1>2. CASE pc' \notin Running
  BY <1>2, RecoveryStep
<1>3. ASSUME pc' \in Running
      PROVE  Recovered(k)' = Get(k)'
  <2>1. pc' # "wal_sync"
    BY LogControl
  <2>2. RecoveredInViews'
    BY <1>1, LogInvAnswersNext
  <2>3. Recovered(k)' \in {Get(k)', Replayed(k)'}
    BY <1>3, <2>2 DEF RecoveredInViews, Views
  <2>4. Get(k)' = Replayed(k)'
    BY <1>1, <1>3, <2>1 DEF AgreeInv
  <2> QED
    BY <2>3, <2>4
<1>4. CASE pc' \in Running /\ pc \notin Running
  BY <1>1, <1>3, <1>4, ToRunning, ReplayReads
<1>5. CASE pc' \in Running /\ pc = "wal_sync" /\ k = call.key
  <2>1. WalSync
    BY <1>5, SyncSteps
  <2>2. LoggedCell(k) = call.cell /\ call.cell # Absent
    BY <1>1, <1>5, <2>1, SyncedCell, WalSyncMem
  <2>3. Recovered(k) = Live(call.cell)
    BY <2>2 DEF Recovered
  <2>4. Get(k)' = Live(call.cell)
    BY <1>1, <1>5, <2>1, WalSyncReads
  <2> QED
    BY <1>3, <1>5, <2>3, <2>4
<1>6. CASE pc' \in Running /\ pc \in Running /\ ~ (pc = "wal_sync" /\ k = call.key)
  <2>1. Recovered(k) = Get(k) /\ Get(k) = Replayed(k)
    BY <1>6, RecoveredIsRead DEF AgreeInv
  <2>2. Get(k)' = Get(k)
    BY <1>6, <2>1, ReadsStep
  <2> QED
    BY <1>3, <1>6, <2>1, <2>2
<1> QED
  BY <1>2, <1>4, <1>5, <1>6

(* How the map, the call, the reads and the answer of KVMap change. The    *)
(* lemmas below speak of these five and of nothing else of the Store.      *)
LEMMA SameDb ==
  ASSUME Spared, "wal_sync" \notin Failing, LogInv, AgreeInv, Next, ~ WalAppend
  PROVE  Db' = Db
<1>1. \A k \in Keys : Recovered(k)' = Recovered(k)
  BY OthersRecovered
<1> QED
  BY <1>1 DEF Db

LEMMA AppendedDb ==
  ASSUME LogInv, WalAppend
  PROVE  Db' = [Db EXCEPT ![call.key] = Live(call.cell)]
<1>1. \A k \in Keys :
        Recovered(k)' = IF k = call.key THEN Live(call.cell) ELSE Recovered(k)
  BY AppendRecovered
<1> QED
  BY <1>1 DEF Db

(* Between calls the reads are the map.                                    *)
LEMMA ViewIsDb ==
  ASSUME LogInv, AgreeInv, pc = "idle"
  PROVE  View = Db
<1>1. \A k \in Keys : Recovered(k) = Get(k)
  BY RecoveredIsRead, WhereRunning
<1> QED
  BY <1>1 DEF View, Db, At

LEMMA ViewIsDbNext == (LogInv /\ AgreeInv /\ pc = "idle" => View = Db)'
<1>1. LogInv /\ AgreeInv /\ pc = "idle" => View = Db
  BY ViewIsDb
<1> QED
  BY <1>1, PTL

(* A store that serves reads can be told from one that does not.           *)
LEMMA SomeView ==
  /\ pc = "idle" => View # KV!NoView
  /\ pc # "idle" => View = KV!NoView
<1>1. pc = "idle" => DOMAIN View = Keys
  BY DEF View, At
<1>2. DOMAIN KV!NoView = {}
  BY DEF KV!NoView
<1>3. pc # "idle" => View = KV!NoView
  BY DEF View, At, KV!NoView
<1> QED
  BY <1>1, <1>2, <1>3, KeysAssumption

LEMMA InitMap == Init => KV!Init
<1> SUFFICES ASSUME Init PROVE KV!Init
  OBVIOUS
<1>1. pc = "down" /\ call = NoCall /\ ret = "none"
  BY DEF Init
<1>2. Db = [k \in Keys |-> Absent]
  BY InitRecovered DEF Db
<1>3. Request = KV!NoReq /\ Done = FALSE /\ Answer = "none"
  BY <1>1 DEF Request, Done, Answer, NoCall, KV!NoReq
<1>4. View = KV!NoView
  BY <1>1, SomeView
<1> QED
  BY <1>2, <1>3, <1>4 DEF KV!Init

(* What the call being served is in the map.                               *)
LEMMA RequestIs ==
  /\ call = NoCall => Request = KV!NoReq /\ Done = FALSE
  /\ call = [op |-> "compact"] => Request = KV!CompactReq /\ Done = FALSE
  /\ call.op = "write" =>
       Request = [op |-> "write", key |-> call.key, val |-> Live(call.cell)]
BY DEF Request, Done, NoCall, KV!NoReq, KV!CompactReq

LEMMA RequestIsNext == (
  /\ call = NoCall => Request = KV!NoReq /\ Done = FALSE
  /\ call = [op |-> "compact"] => Request = KV!CompactReq /\ Done = FALSE
  /\ call.op = "write" =>
       Request = [op |-> "write", key |-> call.key, val |-> Live(call.cell)])'
BY RequestIs, PTL

LEMMA SomeViewNext == (
  /\ pc = "idle" => View # KV!NoView
  /\ pc # "idle" => View = KV!NoView)'
BY SomeView, PTL

LEMMA WriteRequest ==
  ASSUME NEW k \in Keys, NEW c \in Cells
  PROVE  [op |-> "write", key |-> k, val |-> Live(c)] \in KV!WriteReqs
<1>1. Live(c) \in Vals \cup {Absent}
  BY LiveType
<1> QED
  BY <1>1 DEF KV!WriteReqs, KV!Results

(* Store::set, Store::delete and Store::compact begin; Store::verify reads. *)
LEMMA ClientMap ==
  ASSUME Spared, "wal_sync" \notin Failing, LogInv, AgreeInv, Next, Client
  PROVE  KV!Next \/ UNCHANGED KV!vars
<1>1. pc = "idle" /\ TypeOK /\ CallInv /\ TailInv
  BY ClientSteps DEF Verify, At, LogInv, FilesInv, IInv
<1>2. call = NoCall
  BY <1>1 DEF CallInv, Between
<1>3. Db' = Db
  BY <1>1, SameDb DEF WalAppend, At
<1>4. Request = KV!NoReq /\ Done = FALSE /\ View # KV!NoView
  BY <1>1, <1>2, RequestIs, SomeView
<1>5. ASSUME NEW k \in Keys, NEW c \in Cells, pc' = "wal_append", ret' = "none",
             call' = [op |-> "write", key |-> k, cell |-> c]
      PROVE  KV!Next
  <2> DEFINE r == [op |-> "write", key |-> k, val |-> Live(c)]
  <2>1. r \in KV!WriteReqs
    BY WriteRequest
  <2>2. Request' = r /\ View' = KV!NoView
    BY <1>5, RequestIsNext, SomeViewNext
  <2>3. Done' = FALSE /\ Answer' = "none"
    BY <1>5 DEF Done, Answer
  <2> HIDE DEF r
  <2>4. KV!Invoke(r)
    BY <1>3, <1>4, <2>2, <2>3 DEF KV!Invoke
  <2> QED
    BY <2>1, <2>4 DEF KV!Next
<1>6. ASSUME pc' \in {"compact_plan", "flush_clear"}, ret' = "none",
             call' = [op |-> "compact"]
      PROVE  KV!Next
  <2>1. Request' = KV!CompactReq /\ Done' = FALSE /\ View' = KV!NoView
    BY <1>6, RequestIsNext, SomeViewNext
  <2>2. Answer' = "none"
    BY <1>6 DEF Answer
  <2>3. KV!Invoke(KV!CompactReq)
    BY <1>3, <1>4, <2>1, <2>2 DEF KV!Invoke
  <2> QED
    BY <2>3 DEF KV!Next
<1>7. ~ Verify
  BY <1>1, LogIsWhole, WhereRunning DEF Verify
<1> QED
  BY <1>5, <1>6, <1>7, ClientSteps

(* The record of a write is whole in the log.                              *)
LEMMA AppendMap ==
  ASSUME LogInv, WalAppend
  PROVE  KV!TakeEffect
<1>1. /\ call' = call /\ pc' = "wal_sync" /\ pc = "wal_append"
      /\ call.op = "write" /\ call.key \in Keys /\ call.cell \in Cells
      /\ UNCHANGED <<call, todo, ret>>
  BY WalAppendLog DEF LogInv, FilesInv, WalAppend, Goto
<1> DEFINE r == [op |-> "write", key |-> call.key, val |-> Live(call.cell)]
<1>2. r \in KV!WriteReqs /\ Request = r /\ Request' = r
  BY <1>1, WriteRequest, RequestIs, RequestIsNext
<1>3. Done = FALSE /\ Done' = TRUE
  BY <1>1 DEF Done
<1>4. View = KV!NoView /\ View' = KV!NoView
  BY <1>1, SomeView, SomeViewNext
<1>5. Answer' = Answer
  BY <1>1 DEF Answer
<1>6. Db' = [Db EXCEPT ![Request.key] = Request.val]
  BY <1>2, AppendedDb
<1> QED
  BY <1>2, <1>3, <1>4, <1>5, <1>6 DEF KV!TakeEffect

(* A call returns, and is answered with success only if it has happened.   *)
LEMMA ReturnMap ==
  ASSUME Spared, "wal_sync" \notin Failing, LogInv, AgreeInv, Next,
         pc \in Running \ Between, pc' = "idle", call' = NoCall,
         ret' = "err" \/ (ret' = "ok" /\ pc # "wal_append")
  PROVE  KV!Next
<1>1. TypeOK /\ CallInv /\ LogInv' /\ AgreeInv'
  BY StepLogInv, StepAgreeInv DEF LogInv, FilesInv, IInv
<1>2. call.op \in {"write", "compact"}
  BY <1>1 DEF TypeOK, Calls, CallInv
<1>3. Request # KV!NoReq /\ (Request \in KV!WriteReqs => call.op = "write")
  BY <1>2 DEF Request, KV!NoReq, KV!WriteReqs
<1>4. Request' = KV!NoReq /\ Done' = FALSE
  BY RequestIsNext
<1>5. Answer' = ret'
  BY DEF Answer
<1>6. Db' = Db
  BY SameDb DEF WalAppend, Goto
<1>7. View' = Db'
  BY <1>1, ViewIsDbNext
<1>8. ret' = "ok" /\ Request \in KV!WriteReqs => Done
  BY <1>3 DEF Done
<1>9. KV!Reply(ret')
  BY <1>3, <1>4, <1>5, <1>6, <1>7, <1>8 DEF KV!Reply
<1> QED
  BY <1>9 DEF KV!Next

LEMMA CrashMap ==
  ASSUME Spared, "wal_sync" \notin Failing, LogInv, AgreeInv, Next, Crash
  PROVE  KV!Die
<1>1. call' = NoCall /\ pc' = "down" /\ ret' = "none"
  BY DEF Crash
<1>2. Request' = KV!NoReq /\ Done' = FALSE /\ View' = KV!NoView
  BY <1>1, RequestIsNext, SomeViewNext
<1>3. Answer' = "none"
  BY <1>1 DEF Answer
<1>4. Db' = Db
  BY <1>1, SameDb DEF WalAppend, Goto
<1> QED
  BY <1>2, <1>3, <1>4 DEF KV!Die

(* The log is replayed, and the store serves.                              *)
LEMMA ReplayMap ==
  ASSUME Spared, "wal_sync" \notin Failing, LogInv, AgreeInv, Next, Replay
  PROVE  KV!Open
<1>1. CallInv /\ LogInv' /\ AgreeInv'
  BY StepLogInv, StepAgreeInv DEF LogInv, FilesInv
<1>2. pc = "replay" /\ pc' = "idle" /\ UNCHANGED <<call, todo, ret>>
  BY DEF Replay, At
<1>3. call = NoCall /\ ret \in {"none", "open_err"}
  BY <1>1, <1>2 DEF CallInv, Between, Resolved
<1>4. Request = KV!NoReq /\ Request' = KV!NoReq /\ Done' = Done /\ View = KV!NoView
  BY <1>2, <1>3, RequestIs, RequestIsNext, SomeView
<1>5. Answer' = "none"
  BY <1>2, <1>3 DEF Answer
<1>6. Db' = Db
  BY <1>2, SameDb DEF WalAppend, Goto
<1>7. View' = Db'
  BY <1>1, <1>2, ViewIsDbNext
<1> QED
  BY <1>4, <1>5, <1>6, <1>7 DEF KV!Open

LEMMA StoppedBetween ==
  ASSUME TypeOK, pc \notin Running
  PROVE  pc \in Opening \cup Resolved
BY DEF TypeOK, Running

(* Nothing else that the code does is seen.                                *)
LEMMA SilentMap ==
  ASSUME Spared, "wal_sync" \notin Failing, LogInv, AgreeInv, Next,
         \/ /\ pc \notin Running /\ pc' \notin Running /\ call' = call
            /\ ret' \in {ret, "none", "open_err"}
         \/ /\ {pc, pc'} \subseteq Running \ {"idle", "wal_append"}
            /\ UNCHANGED <<call, ret>>
  PROVE  UNCHANGED KV!vars
<1>1. CallInv
  BY DEF LogInv, FilesInv
<1>2. pc # "idle" /\ pc' # "idle" /\ pc # "wal_append" /\ call' = call
  BY WhereRunning
<1>3. View = KV!NoView /\ View' = KV!NoView
  BY <1>2, SomeView, SomeViewNext
<1>4. Request' = Request
  BY <1>2 DEF Request
<1>5. Db' = Db
  BY <1>2, SameDb DEF WalAppend, At
<1>6. CASE pc \notin Running /\ ret' \in {ret, "none", "open_err"} /\ pc' \notin Running
  <2>1. pc \in Opening \cup Resolved
    BY <1>6, StoppedBetween DEF LogInv, FilesInv, IInv
  <2>2. call = NoCall /\ ret \in {"none", "open_err"}
    BY <1>1, <2>1 DEF CallInv, Between
  <2>3. Done' = Done
    BY <1>2, <2>2, RequestIs, RequestIsNext
  <2>4. Answer' = Answer
    BY <1>6, <2>2 DEF Answer
  <2> QED
    BY <1>3, <1>4, <1>5, <2>3, <2>4 DEF KV!vars
<1>7. CASE {pc, pc'} \subseteq Running \ {"idle", "wal_append"} /\ ret' = ret
  <2>1. Done' = Done
    BY <1>2, <1>7 DEF Done
  <2>2. Answer' = Answer
    BY <1>7 DEF Answer
  <2> QED
    BY <1>3, <1>4, <1>5, <2>1, <2>2 DEF KV!vars
<1> QED
  BY <1>6, <1>7

LEMMA StepMap ==
  ASSUME Spared, "wal_sync" \notin Failing
  PROVE  LogInv /\ AgreeInv /\ [Next]_vars => [KV!Next]_KV!vars
<1> SUFFICES ASSUME LogInv, AgreeInv, [Next]_vars
             PROVE  KV!Next \/ UNCHANGED KV!vars
  OBVIOUS
<1>1. CASE UNCHANGED vars
  <2>1. UNCHANGED <<wal, segs, marker, mem, readers, pc, call, ret>>
    BY <1>1 DEF vars, disk, memory, control
  <2>2. UNCHANGED <<Request, Done, Answer>>
    BY <2>1 DEF Request, Done, Answer
  <2>3. UNCHANGED View
    BY <2>1 DEF View, At, Get
  <2>4. UNCHANGED Db
    BY <2>1 DEF Db, Recovered, LoggedCell, SurvivorCell, Survivors, Present
  <2> QED
    BY <2>2, <2>3, <2>4 DEF KV!vars
<1>2. CASE Next
  <2>1. TypeOK /\ CallInv
    BY DEF LogInv, FilesInv, IInv
  <2> QED
    BY <1>2, <2>1, ControlSteps, ClientMap, AppendMap, ReturnMap, CrashMap,
       ReplayMap, SilentMap DEF KV!Next
<1> QED
  BY <1>1, <1>2

(* The engine of store.rs is a map that survives crashes at every system   *)
(* call and errors of all calls but the three: each step of the code is    *)
(* one of the map's, or changes nothing that a caller sees.                *)
THEOREM ImplementsMap ==
  ASSUME Spared, "wal_sync" \notin Failing
  PROVE  Spec => ImplementsKVMap
<1>1. LogInv /\ AgreeInv /\ [Next]_vars => [KV!Next]_KV!vars
  BY StepMap
<1> QED
  BY <1>1, InitMap, AgreeInvariant, PTL DEF Spec, ImplementsKVMap, KV!Spec

=============================================================================
