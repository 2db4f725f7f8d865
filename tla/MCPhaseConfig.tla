---------------------------- MODULE MCPhaseConfig ----------------------------
(* Small instances of PhaseConfig for TLC: a value with blanks around it is   *)
(* the other value when they are dropped.                                     *)
EXTENDS PhaseConfig, TLC

CONSTANTS small, padded

WithoutBlanks == [v \in Values \cup {Inherit} |-> IF v = padded THEN small ELSE v]

\* Lanes are alike, and so are the loads of a dialog.
Symmetry == Permutations(Lanes) \cup Permutations(Loads)
=============================================================================
