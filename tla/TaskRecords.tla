----------------------------- MODULE TaskRecords -----------------------------
(* What harnesses write beside the row of their task: the output of a phase   *)
(* (update_task_output replaces it, complete_phase adds a summary to it) and  *)
(* the checklist of subtasks (create_subtasks replaces it, item by item,      *)
(* update_subtask_status moves one item).  Each step is one SQL statement; no *)
(* transaction spans two of them, and a call may stop after any of them.      *)
(*                                                                            *)
(* Every statement names one task, and those on outputs name one phase of it  *)
(* by a unique key, so that one task and one phase are modelled.  Calls may   *)
(* begin at any time: the REST variants check no phase, and the checks of the *)
(* MCP tools come before the first step below and do not bind the later ones. *)
EXTENDS Integers

CONSTANTS Callers,    \* requests that take several statements
          Texts,      \* contents of an output or a summary
          Blank,      \* the empty text
          SubtaskStatuses,  \* pending and others
          MaxItems,   \* bound of the model: subtasks of a list
          MaxCalls    \* bound of the model: calls that insert rows

ASSUME BlankAssumption == Blank \in Texts
ASSUME StatusAssumption == "pending" \in SubtaskStatuses
ASSUME BoundsAssumption == MaxItems \in Nat /\ MaxCalls \in Nat

VARIABLES task,       \* the row of the task exists
          row,        \* the phase_outputs row of the phase
          subtasks,   \* the rows of the checklist
          calls,      \* inserting calls so far: gives their rows fresh ids
          call,       \* what each request is at
          latest,     \* (history) the replacement that began last
          mixed       \* (history) it began while another was under way

vars == << task, row, subtasks, calls, call, latest, mixed >>

Ids == 0 .. MaxCalls
Rows == [id : Ids, output : Texts, summary : Texts]
NoRow == [id |-> 0, output |-> Blank, summary |-> Blank]

\* The id of a subtask is the list it was created in and its place there.
Subtasks == [list : Ids, order : 1 .. MaxItems, status : SubtaskStatuses]

\* A request: the statement it executes next; the id it gives to its rows, or
\* the list of the subtask it marks; summary and the row found; items and the
\* place of the next one, or of the subtask marked; the status to set.
\* crossed says what replaced the row found: nothing, another completion's
\* insert or (also) a save.
Requests ==
    [pc : {"idle", "upsert", "create", "mark"}, id : Ids, summary : Texts,
     found : Rows, items : 0 .. MaxItems, place : 0 .. MaxItems,
     status : SubtaskStatuses, crossed : {"no", "insert", "save"}]

Idle == [pc |-> "idle", id |-> 0, summary |-> Blank, found |-> NoRow,
         items |-> 0, place |-> 0, status |-> "pending", crossed |-> "no"]

Init ==
    /\ task = TRUE
    /\ row = NoRow
    /\ subtasks = {}
    /\ calls = 0
    /\ call = [c \in Callers |-> Idle]
    /\ latest = [list |-> 0, items |-> 0, answered |-> FALSE]
    /\ mixed = FALSE

\* A call that inserts begins.
Insertion == calls < MaxCalls /\ calls' = calls + 1

\* The completions under way will not find the row they found.
Replacing(how, c) ==
    IF call[c].pc = "upsert" /\ call[c].crossed # "save"
    THEN [call[c] EXCEPT !.crossed = how] ELSE call[c]

-----------------------------------------------------------------------------
(* The output of the phase                                                  *)

\* Defect: an existing row is updated in its place and keeps its id.
SavedInPlace(output, summary) ==
    [id |-> IF row.id = 0 THEN calls + 1 ELSE row.id,
     output |-> output, summary |-> summary]

\* INSERT OR REPLACE: whatever row the phase had is gone, with its id.
Saved(output, summary) ==
    [id |-> calls + 1, output |-> output, summary |-> summary]

\* SavePhaseOutput, a single statement.
Save ==
    /\ task
    /\ Insertion
    /\ \E output, summary \in Texts : row' = Saved(output, summary)
    /\ call' = [c \in Callers |-> Replacing("save", c)]
    /\ UNCHANGED << task, subtasks, latest, mixed >>

\* complete_phase begins: savePhaseSummary looks for the phase's row.
Find(c) ==
    /\ call[c].pc = "idle"
    /\ task
    /\ Insertion
    /\ \E s \in Texts :
           call' = [call EXCEPT ![c] = [Idle EXCEPT !.pc = "upsert",
                        !.id = calls + 1, !.summary = s, !.found = row]]
    /\ UNCHANGED << task, row, subtasks, latest, mixed >>

\* Defect: the summary is inserted whether a row was found or not.
UpsertAnew(c) ==
    /\ call[c].pc = "upsert"
    /\ task
    /\ row' = [id |-> call[c].id, output |-> Blank,
               summary |-> call[c].summary]
    /\ call' = [d \in Callers |->
                   IF d = c THEN Idle ELSE Replacing("insert", d)]
    /\ UNCHANGED << task, subtasks, calls, latest, mixed >>

\* Defect: the row found is written back as it was.
UpdateOldSummary(c) ==
    /\ call[c].found.id # 0
    /\ row' = IF row.id = call[c].found.id THEN call[c].found ELSE row
    /\ call' = [call EXCEPT ![c] = Idle]

\* It found one: UPDATE ... WHERE id, which hits nothing if the row was
\* replaced meanwhile.  The output written is the one that was found.
UpdateFound(c) ==
    /\ call[c].found.id # 0
    /\ row' = IF row.id = call[c].found.id
              THEN [call[c].found EXCEPT !.summary = call[c].summary] ELSE row
    /\ call' = [call EXCEPT ![c] = Idle]

\* It found none: INSERT OR REPLACE of a row without output.
InsertNew(c) ==
    /\ call[c].found.id = 0
    /\ task
    /\ row' = [id |-> call[c].id, output |-> Blank,
               summary |-> call[c].summary]
    /\ call' = [d \in Callers |->
                   IF d = c THEN Idle ELSE Replacing("insert", d)]

\* savePhaseSummary writes.
Upsert(c) ==
    /\ call[c].pc = "upsert"
    /\ UpdateFound(c) \/ InsertNew(c)
    /\ UNCHANGED << task, subtasks, calls, latest, mixed >>

-----------------------------------------------------------------------------
(* The checklist                                                            *)

Creating(c) == call[c].pc = "create"

\* Defect: finished items survive a new plan.
ClearedUnfinished == {s \in subtasks : s.status = "completed"}

\* DeleteByTask.
Cleared == {}

\* CreateSubtasks begins: the old list goes before the items are looked at.
Clear(c) ==
    /\ call[c].pc = "idle"
    /\ task
    /\ Insertion
    /\ subtasks' = Cleared
    /\ \E n \in 1 .. MaxItems :
         /\ call' = [call EXCEPT ![c] = [Idle EXCEPT !.pc = "create",
                         !.id = calls + 1, !.items = n, !.place = 1]]
         /\ latest' = [list |-> calls + 1, items |-> n, answered |-> FALSE]
    /\ mixed' = \E d \in Callers : Creating(d)
    /\ UNCHANGED << task, row >>

\* Defect: the last item is forgotten.
IsLastEarly(c) == call[c].place >= call[c].items - 1

IsLast(c) == call[c].place = call[c].items

Inserted(c) ==
    [list |-> call[c].id, order |-> call[c].place, status |-> "pending"]

\* CreateSubtasks inserts the next item; after the last one it answers.
Create(c) ==
    /\ Creating(c)
    /\ task
    /\ subtasks' = subtasks \cup {Inserted(c)}
    /\ call' = [call EXCEPT ![c] = IF IsLast(c) THEN Idle
                                   ELSE [call[c] EXCEPT !.place = @ + 1]]
    /\ latest' = [latest EXCEPT !.answered =
                     @ \/ (IsLast(c) /\ latest.list = call[c].id)]
    /\ UNCHANGED << task, row, calls, mixed >>

\* UpdateSubtaskStatus finds the subtask, which belongs to the task.
FindSubtask(c) ==
    /\ call[c].pc = "idle"
    /\ \E s \in subtasks, status \in SubtaskStatuses :
           call' = [call EXCEPT ![c] = [Idle EXCEPT !.pc = "mark",
                        !.id = s.list, !.place = s.order, !.status = status]]
    /\ UNCHANGED << task, row, subtasks, calls, latest, mixed >>

Marked(c, s) ==
    IF s.list = call[c].id /\ s.order = call[c].place
    THEN [s EXCEPT !.status = call[c].status] ELSE s

\* It writes the copy back: no row changes if the list was replaced meanwhile,
\* and the call is answered all the same.
Mark(c) ==
    /\ call[c].pc = "mark"
    /\ subtasks' = {Marked(c, s) : s \in subtasks}
    /\ call' = [call EXCEPT ![c] = Idle]
    /\ UNCHANGED << task, row, calls, latest, mixed >>

-----------------------------------------------------------------------------
(* A call ends early: a statement fails or is cancelled, the task it refers to *)
(* is gone, or the next item has no title.  What it has written stays.         *)
GiveUp(c) ==
    /\ call[c].pc # "idle"
    /\ call' = [call EXCEPT ![c] = Idle]
    /\ UNCHANGED << task, row, subtasks, calls, latest, mixed >>

\* The task is deleted; the foreign keys take its rows along.
DeleteTask ==
    /\ task
    /\ task' = FALSE
    /\ row' = NoRow
    /\ subtasks' = {}
    /\ latest' = [latest EXCEPT !.answered = FALSE]
    /\ UNCHANGED << calls, call, mixed >>

Next ==
    \/ Save
    \/ DeleteTask
    \/ \E c \in Callers :
         \/ Find(c) \/ Upsert(c)
         \/ Clear(c) \/ Create(c)
         \/ FindSubtask(c) \/ Mark(c)
         \/ GiveUp(c)

Spec == Init /\ [][Next]_vars

-----------------------------------------------------------------------------
(* Properties                                                               *)

\* Rows, requests and counters keep their types; a request never goes beyond
\* its last item.
TypeOK ==
    /\ task \in BOOLEAN
    /\ row \in Rows
    /\ subtasks \subseteq Subtasks
    /\ calls \in Ids
    /\ call \in [Callers -> Requests]
    /\ \A c \in Callers : Creating(c) => call[c].place \in 1 .. call[c].items
    /\ latest \in [list : Ids, items : 0 .. MaxItems, answered : BOOLEAN]
    /\ mixed \in BOOLEAN

\* A completion whose row is still the phase's row holds its current output:
\* the whole-row UPDATE of savePhaseSummary undoes no update_task_output.
FoundIsCurrent ==
    \A c \in Callers :
        call[c].pc = "upsert" /\ call[c].found.id # 0
            /\ call[c].found.id = row.id
        => call[c].found.output = row.output

\* An output is lost to a completion only if it was saved between the two
\* statements of that very completion.
OutputSurvives ==
    [][\A c \in Callers :
         Upsert(c) /\ call[c].crossed # "save" => row'.output = row.output]_vars

\* A completion that is answered has put its summary into the row, unless the
\* row was replaced between its two statements.
SummaryIsKept ==
    [][\A c \in Callers :
         Upsert(c) /\ task /\ call[c].crossed = "no"
         => row'.summary = call[c].summary]_vars

Keys == {<< s.list, s.order >> : s \in subtasks}

\* Unless replacements overlapped, the checklist holds items of the latest one
\* only, and all of them once it has answered, whatever became of earlier
\* ones and whatever is marked meanwhile.
ListIsLatest ==
    ~mixed => /\ \A s \in subtasks : s.list = latest.list
              /\ latest.answered => Keys = {latest.list} \X (1 .. latest.items)

\* Whatever overlaps or fails, what is left of a list has no holes: if two of
\* its items are there, so is every one between them.
NoHoles ==
    \A s, t \in subtasks : s.list = t.list =>
        \A k \in s.order .. t.order : << s.list, k >> \in Keys

-----------------------------------------------------------------------------
(* Sentences that the code departs from                                     *)

\* "preserving any output previously saved via update_task_output"
\* (advance_phase.go:37-38).
OutputIsPreserved ==
    [][\A c \in Callers : Upsert(c) => row'.output = row.output]_vars

\* "keeps the set authoritative: if planning is re-dispatched, the fresh list
\* wins" (create_subtasks.go:18-20).
FreshListWins ==
    latest.answered => Keys = {latest.list} \X (1 .. latest.items)
=============================================================================
