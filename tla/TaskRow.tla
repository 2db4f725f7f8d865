------------------------------- MODULE TaskRow -------------------------------
(* The life-cycle columns of a row of the tasks table and the closures the  *)
(* server applies to them.  Every closure sets some columns of the row it   *)
(* was given and leaves the others as they were; whether that row is still  *)
(* the stored one is the business of TaskStore.                             *)
EXTENDS PhaseOrder

Statuses == {"pending", "in_progress", "completed", "failed", "cancelled",
             "paused"}

\* error and reopenReason stand for "the text column is not empty".
Life == [phase        : Phases,
         status       : Statuses,
         error        : BOOLEAN,
         reopenReason : BOOLEAN]

\* A task as CreateTask inserts it.
FreshLife == [phase |-> "planning", status |-> "pending",
              error |-> FALSE, reopenReason |-> FALSE]

\* Write tools and reopen are for tasks in an active status only.
Active(l) == l.status \in {"pending", "in_progress"}

MarkedCompleted(l) == [l EXCEPT !.status = "completed"]

AdvancedTo(l, p) == [l EXCEPT !.phase = p, !.status = "pending",
                              !.reopenReason = FALSE]

Finished(l) == [l EXCEPT !.phase = "done", !.status = "completed"]

Dispatched(l) == [l EXCEPT !.status = "in_progress", !.error = FALSE]

Failed(l) == [l EXCEPT !.status = "failed", !.error = TRUE]

Paused(l) == [l EXCEPT !.status = "paused"]

ReopenedTo(l, p) == [l EXCEPT !.phase = p, !.status = "pending",
                              !.error = FALSE, !.reopenReason = TRUE]

\* The closures as data: an update in flight carries one of these.
Mutators == [kind : {"complete", "finish", "dispatch", "fail", "pause"},
             to   : {NoPhase}]
            \cup [kind : {"advance", "reopen"}, to : Lanes]

Mutate(m, l) ==
    CASE m.kind = "complete" -> MarkedCompleted(l)
      [] m.kind = "finish"   -> Finished(l)
      [] m.kind = "dispatch" -> Dispatched(l)
      [] m.kind = "fail"     -> Failed(l)
      [] m.kind = "pause"    -> Paused(l)
      [] m.kind = "advance"  -> AdvancedTo(l, m.to)
      [] m.kind = "reopen"   -> ReopenedTo(l, m.to)
=============================================================================
