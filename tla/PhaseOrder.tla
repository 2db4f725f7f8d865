----------------------------- MODULE PhaseOrder -----------------------------
(* The lanes of the board and their order (domain/entity/task_phase.go).    *)
EXTENDS Integers, Sequences

\* The lanes from left to right; "done" is the terminal one.
PhaseSeq == << "planning", "todo", "doing", "validating", "testing", "done" >>

Phases == {"planning", "todo", "doing", "validating", "testing", "done"}

\* The zero value of the Go type Phase.
NoPhase == ""

\* Position of a phase, counted from 0; -1 for an unknown one.
Index(p) == IF p \in Phases THEN (CHOOSE i \in 1 .. 6 : PhaseSeq[i] = p) - 1
                            ELSE -1

HasNext(p) == Index(p) \in 0 .. 4

\* The lane after p, NoPhase when there is none.
NextPhase(p) == IF HasNext(p) THEN PhaseSeq[Index(p) + 2] ELSE NoPhase

Before(p, q) == /\ Index(p) >= 0
                /\ Index(q) >= 0
                /\ Index(p) < Index(q)

IsTerminal(p) == p = "done"

\* The phases a harness works in, those that have a completion subscriber.
Lanes == Phases \ {"done"}
=============================================================================
