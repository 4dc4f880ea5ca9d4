------------------------------ MODULE MCStoreKV ------------------------------
(* Instances of StoreKV for TLC. *)
EXTENDS StoreKV, DataInv, TLC

Symmetry == Permutations(Keys) \cup Permutations(Vals)

SurvivedFaults == FaultPoints \ {"wal_append", "wal_sync", "undo_marker"}

=============================================================================
