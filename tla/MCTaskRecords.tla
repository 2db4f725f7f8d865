--------------------------- MODULE MCTaskRecords ---------------------------
(* TaskRecords for TLC: no step tells one caller from another.              *)
EXTENDS TaskRecords, TLC

Symmetry == Permutations(Callers)
=============================================================================
