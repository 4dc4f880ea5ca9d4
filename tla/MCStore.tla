------------------------------- MODULE MCStore -------------------------------
(* Instances of Store for TLC. *)
EXTENDS DataInv, TLC

Symmetry == Permutations(Keys) \cup Permutations(Vals)

AllFaults == FaultPoints
(* Errors of a running store after which its files can be opened.          *)
ServingFaults == FaultPoints \ (OpenErrors \cup {"wal_append"})

=============================================================================
