------------------------------- MODULE Handover -------------------------------
(* What one harness hands to the next.  A harness works from its prompt alone; *)
(* what earlier ones have found out reaches it through the outputs they saved, *)
(* the summaries of their completions and the reason of a reopen, which        *)
(* dispatchPhase collects, query by query, for the prompt.  A page that shows  *)
(* the task collects them too (get_task).                                      *)
(*                                                                             *)
(* An output row is known by the number of the INSERT that made it, 0 if there *)
(* is none; a greater number is a later row.  Of its two texts, an output and  *)
(* a summary, is kept what there is to quote, as both may be blank.  So may    *)
(* the reason of a reopen, which else is known by the number of its reopen.    *)
(* An update of the task row is one step, as in Kanban.                        *)
EXTENDS TaskRow

CONSTANTS Threads,       \* goroutines that serve calls and failures
          Procs,         \* names of harness commands
          Summaries,     \* what there may be to quote of a summary
          MaxCalls,      \* bound of the model: saves and reopens
          MaxMishaps     \* bound of the model: statements and commands that
                         \* fail, restarts and deletions by users

ASSUME MaxCallsAssumption == MaxCalls \in Nat
ASSUME SummariesAssumption == Summaries \subseteq {"summary", "nothing"}
ASSUME NoProcAssumption == "no process" \notin Procs

VARIABLES there,     \* the rows of the task exist
          card,      \* the life-cycle columns of its row
          reason,    \* the text in reopen_reason
          outputs,   \* the row of each lane in phase_outputs
          th,        \* the goroutines
          runs,      \* the commands
          reader,    \* a request of get_task
          handed,    \* (history) the row saved by the run that completed
                     \* each lane last
          owed,      \* (history) what the last reopen said, until the card
                     \* moves on
          clock,     \* the number of the last row or reopen
          calls, mishaps

rowVars == << there, card, reason, outputs >>
history == << handed, owed >>
bounds == << calls, mishaps >>
vars == << rowVars, th, runs, reader, history, clock, bounds >>

NoProc == "no process"
Text == Nat

\* A row of phase_outputs.  A prompt quotes the raw output, else the summary,
\* else nothing.  by (history): update_task_output made it, or the completion of
\* a command that had saved nothing; or a completion that, when it looked, had
\* found no row, and replaced one that was saved meanwhile.
Quotes == {"output", "summary", "nothing"}
Row == [id : Text, says : Quotes,
        by : {"none", "save", "completion", "crossing"}]
NoRow == [id |-> 0, says |-> "nothing", by |-> "none"]
Rows == [Lanes -> Row]
NoRows == [p \in Lanes |-> NoRow]

\* What was saved is still in the row, or what was saved after it; or it has
\* fallen to a completion that crossed.
Carries(row, saved) ==
    \/ saved.id = 0
    \/ row.by = "crossing"
    \/ /\ row.by = "save"
       /\ \/ row.id > saved.id
          \/ row.id = saved.id /\ (saved.says = "output" => row.says = "output")

\* What a reopen says: its reason, and the review its harness saved before.
Findings == [reason : Text, from : Phases \cup {NoPhase}, review : Row]
NoFindings == [reason |-> 0, from |-> NoPhase, review |-> NoRow]

\* PromptData: the rows quoted, the reason, whether there is a checklist; and
\* whether a query failed, whose block is then left out.
Prompt == [told : Rows, reason : Text, items : BOOLEAN, unread : BOOLEAN]
NoPrompt == [told |-> NoRows, reason |-> 0, items |-> FALSE, unread |-> FALSE]

\* The statement a goroutine comes to next.
PCs == {"idle", "save", "find", "upsert", "mark", "advFind", "advance",
        "finish", "terminal", "reopenFind", "reopen", "start", "dispatch",
        "prior", "subtasks", "feedback", "launch"}

\* ph: the phase it works for; who: the command that called; row: the output
\* row it found; due, least: what was owed and handed over at its dispatch.
Goroutine == [pc : PCs, ph : Phases \cup {NoPhase}, who : Procs \cup {NoProc},
              row : Row, prompt : Prompt, due : Findings, least : Rows]
Idle == [pc |-> "idle", ph |-> NoPhase, who |-> NoProc, row |-> NoRow,
         prompt |-> NoPrompt, due |-> NoFindings, least |-> NoRows]

\* said: the row the command has saved.  What its prompt told it has no part in
\* what it does.
Run == [state : {"free", "working", "final"}, ph : Phases \cup {NoPhase},
        said : Row]
NoRun == [state |-> "free", ph |-> NoPhase, said |-> NoRow]

\* A request of get_task: least is what had been handed over when it read the
\* task row; stale: the lanes of which its last answer showed less.
Reader == [pc : {"idle", "outputs"}, least : Rows, stale : SUBSET Lanes]
NoReader == [pc |-> "idle", least |-> NoRows, stale |-> {}]

At(t, pc) == th[t].pc = pc
Return(t) == th' = [th EXCEPT ![t] = Idle]
Goto(t, pc) == th' = [th EXCEPT ![t].pc = pc]
NewText == clock' = clock + 1
Counted == calls < MaxCalls /\ calls' = calls + 1
Mishap == mishaps < MaxMishaps /\ mishaps' = mishaps + 1

\* The task has been created and StartFlow has been called for it.
Init ==
    /\ there = TRUE /\ card = FreshLife /\ reason = 0
    /\ outputs = NoRows
    /\ \E t \in Threads :
          th = [u \in Threads |->
                   IF u = t THEN [Idle EXCEPT !.pc = "start", !.ph = "planning"]
                            ELSE Idle]
    /\ runs = [p \in Procs |-> NoRun]
    /\ reader = NoReader
    /\ handed = NoRows /\ owed = NoFindings
    /\ clock = 0 /\ calls = 0 /\ mishaps = 0

-----------------------------------------------------------------------------
(* The calls of harnesses                                                    *)

\* A command makes one call at a time, and none after its last one.
MayCall(p) == /\ runs[p].state = "working"
              /\ \A u \in Threads : th[u].who # p

\* authorize: the named phase is that of an active task.
Authorized(p) == there /\ card.phase = runs[p].ph /\ Active(card)

Serve(t, pc, ph, p) ==
    /\ At(t, "idle")
    /\ th' = [th EXCEPT ![t] = [Idle EXCEPT !.pc = pc, !.ph = ph, !.who = p]]

CallSave(t, p) ==
    /\ MayCall(p) /\ Authorized(p)
    /\ Serve(t, "save", runs[p].ph, p)
    /\ UNCHANGED << rowVars, runs, reader, history, clock, bounds >>

\* update_task_output: INSERT OR REPLACE of a new row, whatever its texts.
Save(t) ==
    /\ At(t, "save") /\ there
    /\ NewText /\ Counted
    /\ \E says \in {"output"} \cup Summaries :
          LET row == [id |-> clock', says |-> says, by |-> "save"]
          IN  /\ outputs' = [outputs EXCEPT ![th[t].ph] = row]
              /\ runs' = [runs EXCEPT ![th[t].who].said = row]
    /\ Return(t)
    /\ UNCHANGED << there, card, reason, reader, history, mishaps >>

\* complete_phase and reopen_phase are the last call of a command.
CallComplete(t, p) ==
    /\ MayCall(p) /\ Authorized(p)
    /\ Serve(t, "find", runs[p].ph, p)
    /\ runs' = [runs EXCEPT ![p].state = "final"]
    /\ UNCHANGED << rowVars, reader, history, clock, bounds >>

CallReopen(t, p) ==
    /\ MayCall(p) /\ Authorized(p)
    /\ \E target \in Lanes : Serve(t, "reopenFind", target, p)
    /\ runs' = [runs EXCEPT ![p].state = "final"]
    /\ UNCHANGED << rowVars, reader, history, clock, bounds >>

\* savePhaseSummary, its SELECT.
FindOutput(t) ==
    /\ At(t, "find") /\ there
    /\ th' = [th EXCEPT ![t].pc = "upsert", ![t].row = outputs[th[t].ph]]
    /\ UNCHANGED << rowVars, runs, reader, history, clock, bounds >>

\* The INSERT OR REPLACE of a completion.
Insert(t, summary) ==
    /\ NewText
    /\ outputs' = [outputs EXCEPT ![th[t].ph] =
           [id |-> clock', says |-> summary,
            by |-> IF th[t].row.id = 0 /\ @.id # 0 THEN "crossing"
                                                  ELSE "completion"]]

\* Defect: the UPDATE writes a row that holds the summary alone.
RewriteBare(t, summary) ==
    /\ outputs' = [outputs EXCEPT ![th[t].ph].says =
           IF outputs[th[t].ph].id = th[t].row.id THEN summary ELSE @]
    /\ UNCHANGED clock

\* Its UPDATE of the row found, by the id, if that is still there.  The raw
\* output is written back as it was found.
Rewrite(t, summary) ==
    /\ outputs' = [outputs EXCEPT ![th[t].ph].says =
           IF outputs[th[t].ph].id = th[t].row.id /\ th[t].row.says # "output"
           THEN summary ELSE @]
    /\ UNCHANGED clock

\* Defect: the row is replaced whether there is one or not.
UpsertAsInsert(t) ==
    /\ At(t, "upsert") /\ there
    /\ \E summary \in Summaries : Insert(t, summary)
    /\ th' = [th EXCEPT ![t].pc = "mark", ![t].row = NoRow]
    /\ UNCHANGED << there, card, reason, runs, reader, history, bounds >>

\* savePhaseSummary, its second statement.
Upsert(t) ==
    /\ At(t, "upsert") /\ there
    /\ \E summary \in Summaries : IF th[t].row.id = 0 THEN Insert(t, summary)
                                                   ELSE Rewrite(t, summary)
    /\ th' = [th EXCEPT ![t].pc = "mark", ![t].row = NoRow]
    /\ UNCHANGED << there, card, reason, runs, reader, history, bounds >>

\* markTaskCompleted, and the publication of the completion.
Mark(t) ==
    /\ At(t, "mark") /\ there
    /\ card' = MarkedCompleted(card)
    /\ handed' = [handed EXCEPT ![th[t].ph] = runs[th[t].who].said]
    /\ Goto(t, "advFind")
    /\ UNCHANGED << there, reason, outputs, runs, reader, owed, clock, bounds >>

\* AdvancePhase, its Find.
AdvanceFind(t) ==
    /\ At(t, "advFind") /\ there
    /\ LET next == NextPhase(card.phase) IN
       CASE IsTerminal(card.phase) -> Goto(t, "terminal")
         [] next = "done"          -> Goto(t, "finish")
         [] OTHER -> th' = [th EXCEPT ![t].pc = "advance", ![t].ph = next]
    /\ UNCHANGED << rowVars, runs, reader, history, clock, bounds >>

\* AdvancePhase, its updates in the last lane and after it.
Finish(t) ==
    /\ th[t].pc \in {"finish", "terminal"} /\ there
    /\ card' = IF At(t, "finish") THEN Finished(card) ELSE MarkedCompleted(card)
    /\ Return(t)
    /\ UNCHANGED << there, reason, outputs, runs, reader, history, clock,
                    bounds >>

\* AdvancePhase, its update: the feedback has been dealt with.
Advance(t) ==
    /\ At(t, "advance") /\ there
    /\ card' = AdvancedTo(card, th[t].ph)
    /\ reason' = 0
    /\ owed' = NoFindings
    /\ Goto(t, "dispatch")
    /\ UNCHANGED << there, outputs, runs, reader, handed, clock, bounds >>

\* ReopenPhase, its Find and its guards.
ReopenFind(t) ==
    /\ At(t, "reopenFind") /\ there
    /\ IF Active(card) /\ Before(th[t].ph, card.phase) THEN Goto(t, "reopen")
                                                       ELSE Return(t)
    /\ UNCHANGED << rowVars, runs, reader, history, clock, bounds >>

\* ReopenPhase, its update; the reason may be blank.
Reopen(t) ==
    /\ At(t, "reopen") /\ there
    /\ NewText /\ Counted
    /\ card' = ReopenedTo(card, th[t].ph)
    /\ reason' \in {0, clock'}
    /\ owed' = [reason |-> reason', from |-> runs[th[t].who].ph,
                review |-> runs[th[t].who].said]
    /\ Goto(t, "dispatch")
    /\ UNCHANGED << there, outputs, runs, reader, handed, mishaps >>

-----------------------------------------------------------------------------
(* Building a prompt                                                         *)

Reviewing == {"validating", "testing"}
Implementing == {"doing", "validating", "testing"}
Reworking == {"planning", "todo", "doing"}

\* StartFlow: its prompt holds the task alone.
Start(t) ==
    /\ At(t, "start") /\ there
    /\ card' = Dispatched(card)
    /\ Goto(t, "launch")
    /\ UNCHANGED << there, reason, outputs, runs, reader, history, clock,
                    bounds >>

\* Defect: the update of a dispatch clears the reason together with the error.
DispatchClearing(t) ==
    /\ At(t, "dispatch") /\ there
    /\ card' = Dispatched(card)
    /\ reason' = 0
    /\ th' = [th EXCEPT ![t].pc = IF th[t].ph \in Reviewing THEN "prior"
                                  ELSE IF th[t].ph = "doing" THEN "subtasks"
                                  ELSE "feedback",
                        ![t].due = owed, ![t].least = handed]
    /\ UNCHANGED << there, outputs, runs, reader, history, clock, bounds >>

\* dispatchPhase, its update.  The reason comes with the row it returns.
Dispatch(t) ==
    /\ At(t, "dispatch") /\ there
    /\ card' = Dispatched(card)
    /\ th' = [th EXCEPT ![t].pc = IF th[t].ph \in Reviewing THEN "prior"
                                  ELSE IF th[t].ph = "doing" THEN "subtasks"
                                  ELSE "feedback",
                        ![t].prompt.reason = reason,
                        ![t].due = owed, ![t].least = handed]
    /\ UNCHANGED << there, reason, outputs, runs, reader, history, clock,
                    bounds >>

\* Of the lanes in ps the prompt quotes what is in their rows now.
Told(t, ps) == [p \in Lanes |-> IF p \in ps THEN outputs[p]
                                            ELSE th[t].prompt.told[p]]

\* populatePriorContext.
LoadPrior(t) ==
    /\ At(t, "prior")
    /\ th' = [th EXCEPT ![t].pc = "subtasks",
                        ![t].prompt.told = Told(t, {"planning", "todo", "doing"})]
    /\ UNCHANGED << rowVars, runs, reader, history, clock, bounds >>

AfterSubtasks(t) == IF th[t].ph = "doing" THEN "feedback" ELSE "launch"

\* loadSubtasksText.
LoadSubtasks(t) ==
    /\ At(t, "subtasks")
    /\ th' = [th EXCEPT ![t].pc = AfterSubtasks(t), ![t].prompt.items = TRUE]
    /\ UNCHANGED << rowVars, runs, reader, history, clock, bounds >>

\* loadReviewFeedback: the outputs of the lanes after the one dispatched.
LoadFeedback(t) ==
    /\ At(t, "feedback")
    /\ th' = [th EXCEPT ![t].pc = "launch",
                        ![t].prompt.told =
                            Told(t, { p \in Lanes : Before(th[t].ph, p) })]
    /\ UNCHANGED << rowVars, runs, reader, history, clock, bounds >>

\* A query of these fails: the block is left out and the dispatch goes on.
LoadFails(t) ==
    /\ th[t].pc \in {"prior", "subtasks", "feedback"}
    /\ Mishap
    /\ th' = [th EXCEPT ![t].pc = CASE @ = "prior"    -> "subtasks"
                                    [] @ = "subtasks" -> AfterSubtasks(t)
                                    [] @ = "feedback" -> "launch",
                        ![t].prompt.reason = IF At(t, "feedback") THEN 0 ELSE @,
                        ![t].prompt.unread = TRUE]
    /\ UNCHANGED << rowVars, runs, reader, history, clock, calls >>

\* The blocks that the template of each lane has.
Templates == [planning |-> {"feedback"}, todo |-> {"feedback"},
              doing |-> {"feedback", "items"}, validating |-> {"prior"},
              testing |-> {}]

\* PromptBuilder.Build: what has no block in the template is not shown.
Build(t) ==
    LET has == Templates[th[t].ph]  data == th[t].prompt IN
    [data EXCEPT !.told = IF has \cap {"prior", "feedback"} = {} THEN NoRows
                                                                ELSE @,
                 !.reason = IF "feedback" \in has THEN @ ELSE 0,
                 !.items = @ /\ "items" \in has]

\* The prompt is built, and the command is started with it.
Launch(t) ==
    /\ At(t, "launch")
    /\ \E p \in Procs :
          /\ runs[p].state = "free"
          /\ runs' = [runs EXCEPT ![p] =
                 [NoRun EXCEPT !.state = "working", !.ph = th[t].ph]]
    /\ Return(t)
    /\ UNCHANGED << rowVars, reader, history, clock, bounds >>

-----------------------------------------------------------------------------
(* Everything else that dispatches, ends or reads                            *)

\* A statement fails, or the row is gone: the handler returns.
StatementFails(t) ==
    /\ th[t].pc \notin {"idle", "prior", "subtasks", "feedback"}
    /\ IF there \/ At(t, "launch")
       THEN Mishap
       ELSE mishaps' = mishaps
    /\ Return(t)
    /\ UNCHANGED << rowVars, runs, reader, history, clock, calls >>

\* A command that has made its last call ends.
Exit(p) ==
    /\ runs[p].state = "final" /\ \A u \in Threads : th[u].who # p
    /\ runs' = [runs EXCEPT ![p] = NoRun]
    /\ UNCHANGED << rowVars, th, reader, history, clock, bounds >>

\* A command fails, and its phase is dispatched again (HandleRetry).
Retry(t, p) ==
    /\ MayCall(p)
    /\ Mishap
    /\ Serve(t, "dispatch", runs[p].ph, NoProc)
    /\ runs' = [runs EXCEPT ![p] = NoRun]
    /\ UNCHANGED << rowVars, reader, history, clock, calls >>

\* A user restarts the task (RestartPhase), whatever runs.
Restart(t) ==
    /\ Mishap /\ there /\ card.phase \in Lanes
    /\ Serve(t, "dispatch", card.phase, NoProc)
    /\ UNCHANGED << rowVars, runs, reader, history, clock, calls >>

\* A user deletes the task; the outputs go with it (ON DELETE CASCADE).
Delete ==
    /\ Mishap /\ there
    /\ there' = FALSE
    /\ outputs' = NoRows
    /\ UNCHANGED << card, reason, th, runs, reader, history, clock, calls >>

\* get_task: the task row, then the outputs.
ReadTask ==
    /\ reader.pc = "idle" /\ there
    /\ reader' = [reader EXCEPT !.pc = "outputs", !.least = handed]
    /\ UNCHANGED << rowVars, th, runs, history, clock, bounds >>

ReadOutputs ==
    /\ reader.pc = "outputs"
    /\ reader' = [pc |-> "idle", least |-> NoRows,
                  stale |-> IF there
                            THEN { p \in Lanes :
                                   ~Carries(outputs[p], reader.least[p]) }
                            ELSE {}]
    /\ UNCHANGED << rowVars, th, runs, history, clock, bounds >>

-----------------------------------------------------------------------------
Step(t) ==
    \/ Save(t) \/ FindOutput(t) \/ Upsert(t) \/ Mark(t) \/ AdvanceFind(t)
    \/ Finish(t) \/ Advance(t) \/ ReopenFind(t) \/ Reopen(t) \/ Start(t) \/ Dispatch(t)
    \/ LoadPrior(t) \/ LoadSubtasks(t) \/ LoadFeedback(t) \/ LoadFails(t)
    \/ Launch(t) \/ StatementFails(t) \/ Restart(t)

Call(t, p) == CallSave(t, p) \/ CallComplete(t, p) \/ CallReopen(t, p)
              \/ Retry(t, p)

Next ==
    \/ \E t \in Threads : Step(t) \/ \E p \in Procs : Call(t, p)
    \/ \E p \in Procs : Exit(p)
    \/ Delete \/ ReadTask \/ ReadOutputs

Spec == Init /\ [][Next]_vars

-----------------------------------------------------------------------------
\* The types of the variables.
TypeOK ==
    /\ there \in BOOLEAN /\ card \in Life /\ reason \in Text
    /\ outputs \in Rows
    /\ th \in [Threads -> Goroutine]
    /\ runs \in [Procs -> Run]
    /\ reader \in Reader
    /\ handed \in Rows /\ owed \in Findings
    /\ clock \in Text /\ calls \in Nat /\ mishaps \in Nat

\* Of each lane of refinement and of the implementation a reviewer is told what
\* the harness that completed it had saved, or what was saved later (SPEC
\* 6.3.7), however its completion, other harnesses of the lane and the queries
\* interleave, and whatever texts are blank: no completion takes a report from
\* the row but one that had found none when it looked, and no reviewer judges
\* an implementation by a report that was overtaken before its dispatch, unless
\* a query failed or the task was deleted.
ReviewersAreInformed ==
    there => \A t \in Threads :
        At(t, "launch") /\ th[t].ph = "validating" /\ ~Build(t).unread =>
            \A lane \in {"planning", "todo", "doing"} :
                Carries(Build(t).told[lane], th[t].least[lane])

\* A card that was sent back and has not moved on since then carries its
\* findings: every harness that is started in a lane of rework meanwhile, by the
\* reopen, a retry or a restart, is told the reason, and the review that was
\* saved before the reopen or a later one, unless a query failed.
FindingsAreCarried ==
    there => \A t \in Threads :
        LET due == th[t].due IN
        At(t, "launch") /\ th[t].ph \in Reworking /\ ~Build(t).unread =>
            /\ Build(t).reason = due.reason
            /\ Before(th[t].ph, due.from) =>
                   Carries(Build(t).told[due.from], due.review)

\* A page that shows a card shows of the lanes that were completed by then what
\* their harnesses handed over or something later, although it reads the card
\* and the outputs in two statements, unless the task was deleted between them
\* or a completion that had found no row replaced it.
ReadersSeeTheHandover ==
    reader.stale = {}

-----------------------------------------------------------------------------
(* What the documentation says and the code does not do.                     *)

\* The contract in the prompts: "The target phase is re-dispatched
\* automatically with your findings", whatever lane it is.
FindingsReachEveryLane ==
    \A t \in Threads : At(t, "launch") /\ ~Build(t).unread =>
        Build(t).reason = th[t].due.reason

\* README: the reason is cleared on an advance "so stale feedback doesn't leak
\* into later cycles": without a reopen a prompt has no feedback.
FeedbackIsFresh ==
    \A t \in Threads :
        At(t, "launch") /\ th[t].ph \in Reworking /\ th[t].due = NoFindings =>
            \A lane \in Lanes : Build(t).told[lane].says = "nothing"

\* README: the prompt contains "the subtask checklist (for
\* doing/validating/testing)".
ChecklistIsShown ==
    \A t \in Threads :
        At(t, "launch") /\ th[t].ph \in Implementing /\ ~Build(t).unread =>
            Build(t).items
=============================================================================
