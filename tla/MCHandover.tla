------------------------------ MODULE MCHandover ------------------------------
(* Small instances of Handover for TLC.                                      *)
EXTENDS Handover, TLC

\* Goroutines are alike, and so are the names of commands.
Symmetry == Permutations(Threads) \cup Permutations(Procs)
=============================================================================
