-------------------------- MODULE MCExecutionStore --------------------------
(* A small instance of ExecutionStore.  Neither the journal nor the ledger *)
(* it implements tells runs or plans apart, and nothing here is a liveness *)
(* property, so both sets are symmetric.                                   *)
EXTENDS ExecutionStore, TLC

Symmetry == Permutations(Run) \cup Permutations(Plan)
=============================================================================
