------------------------------- MODULE StoreKV -------------------------------
(***************************************************************************)
(* The Store implements the map of KVMap: the durable map is what a        *)
(* process started now would recover from the files, and a write takes     *)
(* effect at the instant its record is whole in the log.                   *)
(***************************************************************************)
EXTENDS Store

(* Without keys, a store that serves reads cannot be told from a stopped one. *)
ASSUME KeysAssumption == Keys # {}

(* What the map of KVMap holds: what a store opened now would return.      *)
Db == [k \in Keys |-> Recovered(k)]

Request ==
  IF call.op = "write"
  THEN [op |-> "write", key |-> call.key, val |-> Live(call.cell)]
  ELSE call

(* A write takes effect when its record is whole in the log.               *)
Done == call.op = "write" /\ pc # "wal_append"

View == IF At("idle") THEN [k \in Keys |-> Get(k)] ELSE [k \in {} |-> Absent]

Answer == IF ret = "open_err" THEN "none" ELSE ret

KV == INSTANCE KVMap WITH
  db <- Db, req <- Request, done <- Done, view <- View, answer <- Answer

(* Through crashes at every system call and errors of all those whose      *)
(* failure the code survives, the engine of store.rs is a KVMap.           *)
ImplementsKVMap == KV!Spec

=============================================================================
