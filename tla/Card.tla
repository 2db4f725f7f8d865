-------------------------------- MODULE Card --------------------------------
(* What a user may rely on who leaves a card to the harnesses: which moves it *)
(* makes over the board, and what each of them takes into account.  There are *)
(* no goroutines, commands or reads here, only the card; a move may fail to   *)
(* come, but no other one comes in its place.  A command that ends late, its  *)
(* phase finalized or its call unanswered, voids what the moves take into     *)
(* account: then the card is moved without regard.  Kanban implements this.   *)
EXTENDS TaskRow

CONSTANT MaxRetries     \* the configured retries of a phase

VARIABLES life,         \* the life-cycle columns of the card
          there,        \* the card has been created
          attempts,     \* failures of its present phase, as the server counts
          outages,      \* how often the server was restarted
          late          \* how often a command ended late

vars == << life, there, attempts, outages, late >>

Init ==
    /\ life = FreshLife
    /\ there = FALSE
    /\ attempts = 0
    /\ outages = 0
    /\ late = 0

Create ==
    /\ ~there
    /\ there' = TRUE
    /\ life' = FreshLife
    /\ UNCHANGED << attempts, outages, late >>

\* The closure of a move is applied to a card that is there; as long as nothing
\* ended late, on the condition that the move takes into account.
Move(condition, after) ==
    /\ there
    /\ late = 0 => condition
    /\ life' = after
    /\ UNCHANGED << there, attempts, outages, late >>

\* A card that has just entered a lane starts with all its retries.
StartAfresh ==
    /\ late = 0 => life.status = "pending"
    /\ attempts' = 0
    /\ UNCHANGED << life, there, outages, late >>

PickUp == Move(Active(life) /\ attempts <= MaxRetries, Dispatched(life))

\* Only a phase that is worked on is completed.
Complete == Move(life.status = "in_progress" /\ life.phase \in Lanes,
                 MarkedCompleted(life))

\* Once, and to the next lane.
MayMoveOn(p) == /\ life.status = "completed" /\ life.phase \in Lanes
                /\ p = NextPhase(life.phase)
MoveOn == \/ \E p \in Lanes : Move(MayMoveOn(p), AdvancedTo(life, p))
          \/ Move(MayMoveOn("done"), Finished(life))

\* The phase that is worked on sends the card back.
SendBack ==
    \E p \in Lanes : Move(life.status = "in_progress" /\ Before(p, life.phase),
                          ReopenedTo(life, p))

\* A failure is counted against the phase that is worked on.
Count ==
    /\ late = 0 => life.status = "in_progress" /\ attempts <= MaxRetries
    /\ attempts' = attempts + 1
    /\ UNCHANGED << life, there, outages, late >>

GiveUp == Move(life.status = "in_progress" /\ attempts > MaxRetries,
               Failed(life))

\* The server forgets what it has counted, and may forget the card.
Outage ==
    /\ outages' = outages + 1
    /\ attempts' = 0
    /\ UNCHANGED << life, there, late >>

LateEnd ==
    /\ late' = late + 1
    /\ UNCHANGED << life, there, attempts, outages >>

Next == \/ Create \/ StartAfresh \/ PickUp \/ Complete \/ MoveOn
        \/ SendBack \/ Count \/ GiveUp \/ Outage \/ LateEnd

Spec == Init /\ [][Next]_vars
=============================================================================
