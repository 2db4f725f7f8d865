------------------------------- MODULE MCKanban -------------------------------
(* Small instances of Kanban for TLC.                                        *)
EXTENDS Kanban, TLC

\* Goroutines are alike, and so are the names of commands.
Symmetry == Permutations(Threads) \cup Permutations(Procs)
=============================================================================
