------------------------------ MODULE TaskStore ------------------------------
(* The tasks table under optimistic locking.  Goroutines of the server run   *)
(* the same loop - Find, change the copy, Update WHERE version = the one     *)
(* found - in PhaseOrchestrator.retryUpdate, AdvancePhase.markTaskCompleted  *)
(* and UpdateTask.Execute.  Each SQL statement is atomic (the pool has one   *)
(* connection); everything between two statements interleaves.               *)
EXTENDS TaskRow

CONSTANTS Goroutines,   \* goroutines that update the task
          Contents,     \* values of the columns a user edits
          MaxRetries,   \* conflicts a loop retries before it gives up
          Closures,     \* the closures of the orchestrator that are in play
          MaxVersion    \* bound of the model: no new update past this version

ASSUME MaxRetriesAssumption == MaxRetries \in Nat
ASSUME ClosuresAssumption == Closures \subseteq Mutators

VARIABLES task,     \* the stored row: life-cycle columns, content, version
          live,     \* FALSE once the row is deleted
          pc,       \* "idle", or the statement the goroutine runs next
          call,     \* the update it is asked for
          attempt,  \* conflicts met so far
          copy,     \* the row its Find returned
          since,    \* (history) version of the row when the call began
          result    \* what the last call returned

row == << task, live >>
vars == << task, live, pc, call, attempt, copy, since, result >>

Tasks == [life : Life, content : Contents, version : Nat]

EditCalls(versions) == [kind : {"edit"}, content : Contents, seen : versions]

Init ==
    /\ task \in [life : {FreshLife}, content : Contents, version : {1}]
    /\ live = TRUE
    /\ pc = [g \in Goroutines |-> "idle"]
    /\ call \in [Goroutines -> Closures]
    /\ attempt = [g \in Goroutines |-> 0]
    /\ copy = [g \in Goroutines |-> task]
    /\ since = [g \in Goroutines |-> 1]
    /\ result = [g \in Goroutines |-> "none"]

\* A caller enters the loop.  The version a user's edit carries is the one of
\* the GET that filled the form, some time ago.
Begin(g) ==
    /\ pc[g] = "idle"
    /\ task.version < MaxVersion
    /\ \E c \in Closures \cup EditCalls(1 .. task.version) :
           call' = [call EXCEPT ![g] = c]
    /\ pc' = [pc EXCEPT ![g] = "find"]
    /\ attempt' = [attempt EXCEPT ![g] = 0]
    /\ since' = [since EXCEPT ![g] = task.version]
    /\ result' = [result EXCEPT ![g] = "pending"]
    /\ UNCHANGED << row, copy >>

Return(g, r) ==
    /\ pc' = [pc EXCEPT ![g] = "idle"]
    /\ result' = [result EXCEPT ![g] = r]

\* The client's version is checked against the row just read (UpdateTask).
Stale(g) == call[g].kind = "edit" /\ call[g].seen # task.version

Find(g) ==
    /\ pc[g] = "find"
    /\ live
    /\ ~Stale(g)
    /\ copy' = [copy EXCEPT ![g] = task]
    /\ pc' = [pc EXCEPT ![g] = "update"]
    /\ UNCHANGED << row, call, attempt, since, result >>

FindStale(g) ==
    /\ pc[g] = "find"
    /\ live
    /\ Stale(g)
    /\ Return(g, "refused")
    /\ UNCHANGED << row, call, attempt, copy, since >>

\* Defect: a missing row is taken for a conflict and looked up again.
FindGoneAgain(g) == pc[g] = "find" /\ ~live /\ UNCHANGED vars

FindGone(g) ==
    /\ pc[g] = "find"
    /\ ~live
    /\ Return(g, "refused")
    /\ UNCHANGED << row, call, attempt, copy, since >>

\* The closure applied to the copy that Find returned.
Changed(g) ==
    IF call[g].kind = "edit"
    THEN [copy[g] EXCEPT !.content = call[g].content]
    ELSE [copy[g] EXCEPT !.life = Mutate(call[g], @)]

\* Defect: the version is incremented before it is bound to the statement.
MatchesNextVersion(g) == live /\ copy[g].version + 1 = task.version

\* UPDATE ... WHERE id = ? AND version = ? matches the row.
Matches(g) == live /\ copy[g].version = task.version

\* Defect: the statement does not move the version.
UpdateKeepsVersion(g) ==
    /\ pc[g] = "update"
    /\ Matches(g)
    /\ task' = Changed(g)
    /\ Return(g, "ok")
    /\ UNCHANGED << live, call, attempt, copy, since >>

\* Every column is written from the changed copy.
Update(g) ==
    /\ pc[g] = "update"
    /\ Matches(g)
    /\ task' = [Changed(g) EXCEPT !.version = @ + 1]
    /\ Return(g, "ok")
    /\ UNCHANGED << live, call, attempt, copy, since >>

\* No row matched: ErrConcurrentModification, for a deleted row as well.
Conflict(g) ==
    /\ pc[g] = "update"
    /\ ~Matches(g)
    /\ attempt[g] < MaxRetries
    /\ attempt' = [attempt EXCEPT ![g] = @ + 1]
    /\ pc' = [pc EXCEPT ![g] = "find"]
    /\ UNCHANGED << row, call, copy, since, result >>

\* Defect: the first conflict is handed to the caller.
GiveUpAtOnce(g) ==
    /\ pc[g] = "update"
    /\ ~Matches(g)
    /\ Return(g, "refused")
    /\ UNCHANGED << row, call, attempt, copy, since >>

GiveUp(g) ==
    /\ pc[g] = "update"
    /\ ~Matches(g)
    /\ attempt[g] >= MaxRetries
    /\ Return(g, "refused")
    /\ UNCHANGED << row, call, attempt, copy, since >>

\* Any other error of the statement is returned at once, and nothing is written.
StatementFails(g) ==
    /\ pc[g] \in {"find", "update"}
    /\ Return(g, "failed")
    /\ UNCHANGED << row, call, attempt, copy, since >>

Step(g) == \/ Find(g) \/ FindStale(g) \/ FindGone(g)
           \/ Update(g) \/ Conflict(g) \/ GiveUp(g)

\* DELETE /tasks/:id; identifiers are never reused.
Delete ==
    /\ live
    /\ live' = FALSE
    /\ UNCHANGED << task, pc, call, attempt, copy, since, result >>

Next == \/ \E g \in Goroutines : Begin(g) \/ Step(g) \/ StatementFails(g)
        \/ Delete

Spec == Init /\ [][Next]_vars

\* A goroutine that is in the loop keeps running: no statement blocks for ever,
\* and none has to fail.
FairSpec == Spec /\ \A g \in Goroutines : WF_vars(Step(g))

-----------------------------------------------------------------------------
Results == {"none", "pending", "ok", "refused", "failed"}

\* The types of the variables.
TypeOK ==
    /\ task \in Tasks
    /\ live \in BOOLEAN
    /\ pc \in [Goroutines -> {"idle", "find", "update"}]
    /\ call \in [Goroutines -> Closures \cup EditCalls(Nat)]
    /\ attempt \in [Goroutines -> 0 .. MaxRetries]
    /\ copy \in [Goroutines -> Tasks]
    /\ since \in [Goroutines -> Nat]
    /\ result \in [Goroutines -> Results]

\* A copy that still carries the version of the stored row equals it: a full
\* row write that passes the version check (repository Update) loses nothing
\* that another goroutine wrote after the copy was read.
CopyIsCurrent ==
    \A g \in Goroutines :
        pc[g] = "update" /\ copy[g].version = task.version => copy[g] = task

\* Each conflict a loop has counted was caused by another writer's commit that
\* came after the call began (retryUpdate and its two twins), unless the row
\* was deleted.
ConflictsAreCommits ==
    \A g \in Goroutines :
        pc[g] # "idle" /\ live =>
            /\ pc[g] = "find" => since[g] + attempt[g] <= task.version
            /\ pc[g] = "update" => since[g] + attempt[g] <= copy[g].version

\* Every run of the loops is a run of AtomicTask: updates are atomic, and a
\* refusal has one of the three causes AtomicTask lists.
Atomic == INSTANCE AtomicTask
              WITH Clients <- Goroutines, Patience <- MaxRetries + 1

AtomicUpdates == Atomic!Spec

\* A call always returns: the retry loop is bounded by MaxRetries, and a row
\* deleted in the meantime ends it too.
CallsReturn ==
    \A g \in Goroutines : result[g] = "pending" ~> result[g] # "pending"
=============================================================================
