----------------------------- MODULE MCPowerLoss -----------------------------
(* Instances of PowerLoss for TLC. *)
EXTENDS PowerLoss, TLC

Symmetry == Permutations(Keys) \cup Permutations(Vals)

(* Errors after which the store goes on, less the two that lose data.      *)
ServedFaults ==
  (CallErrors \cup HandledErrors) \ {"wal_append", "undo_marker"}

=============================================================================
