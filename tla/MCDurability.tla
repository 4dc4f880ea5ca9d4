---------------------------- MODULE MCDurability -----------------------------
(* Instances of Durability for TLC. *)
EXTENDS Durability, TLC

Symmetry == Permutations(Keys) \cup Permutations(Vals)

SurvivedFaults == FaultPoints \ {"wal_append", "undo_marker"}

=============================================================================
