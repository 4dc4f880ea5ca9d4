----------------------------- MODULE Durability ------------------------------
(***************************************************************************)
(* The Store with a history variable: what its client may expect of each   *)
(* key, from the answers it got and not from the engine's own state.       *)
(***************************************************************************)
EXTENDS DataInv

VARIABLE promise  \* for each key, the values a read may return

dvars == <<vars, promise>>

Returns(r) == call # NoCall /\ pc' = "idle" /\ ret' = r

(* An acknowledged write is the only value of its key. One that is in the  *)
(* log and not acknowledged may be there or not, until a reopened store    *)
(* has shown which; what it shows must be one of the values promised.      *)
Promise ==
  CASE call.op = "write" /\ Returns("ok") ->
         promise' = [promise EXCEPT ![call.key] = {Live(call.cell)}]
    [] At("wal_append") /\ pc' = "wal_sync" ->
         promise' = [promise EXCEPT ![call.key] = @ \cup {Live(call.cell)}]
    [] At("replay") /\ pc' = "idle" ->
         promise' = [k \in Keys |-> promise[k] \cap {Get(k)'}]
    [] OTHER -> promise' = promise

DInit == Init /\ promise = [k \in Keys |-> {Absent}]

DNext == Next /\ Promise

DSpec == DInit /\ [][DNext]_dvars

(* README "Never delete data until its replacement has been written and    *)
(* successfully validated", and set()'s "WAL becomes durable first": what  *)
(* reopening would recover is always what the client was told.             *)
AcknowledgedSurvives == \A k \in Keys : Recovered(k) \in promise[k]

(* The same for the reads of the running process.                          *)
ReadsKeepPromise == At("idle") => \A k \in Keys : Get(k) \in promise[k]

(* Inductive beside LogInv: whatever memory and files allow was promised.  *)
Promised ==
  /\ promise \in [Keys -> SUBSET (Vals \cup {Absent})]
  /\ \A k \in Keys : Views(k) \subseteq promise[k]

=============================================================================
