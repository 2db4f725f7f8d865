-------------------------------- MODULE Kanban --------------------------------
(* The life of one task: the goroutines of the server that complete, advance, *)
(* reopen, pause, resume, restart, retry and delete it, the row they share    *)
(* and the harness commands they start.  Everything in the server is keyed by *)
(* the task identifier, so tasks do not interact.                             *)
(*                                                                            *)
(* The harness adapter is the module HarnessAdapter.  An update of the row is *)
(* one step on the row as it is at that moment, which is what TaskStore shows *)
(* of the retry loops; an update that gives up is a fault.  A handler's first *)
(* read of the row belongs to the step that starts its goroutine.             *)
EXTENDS TaskRow, FiniteSets

CONSTANTS Threads,      \* goroutines of the server
          Procs,        \* names of harness commands
          MaxRetries,   \* the configured retries of a phase
          HarnessOps,   \* finalizing calls harnesses make
          UserOps,      \* operations users ask for
          Disciplined,  \* TRUE: a harness makes its first call after Dispatch
                        \* has returned, one call at a time, and no other one
                        \* once a finalizing call was accepted; when and how it
                        \* ends is up to it and to its timeout all the same
          Attentive,    \* TRUE: users restart the task only when nothing works
                        \* on it any more, and then they do
          MaxUserOps,   \* bound of the model: operations users ask for
          MaxFaults,    \* bound of the model: failed statements and starts,
                        \* commands that end well with their phase unfinished
          MaxLate,      \* bound of the model: late ends of commands
          MaxStops,     \* bound of the model: restarts of the server
          MaxLost       \* bound of the model: commands that outlive a server

ASSUME MaxRetriesAssumption == MaxRetries \in Nat
ASSUME OpsAssumption ==
    /\ HarnessOps \subseteq {"complete", "reopen", "unnamed"}
    /\ UserOps \subseteq {"complete", "reopen", "pause", "resume", "restart",
                          "delete"}
ASSUME ProcsAssumption == "no process" \notin Procs /\ Threads \cap Procs = {}
ASSUME DisciplinedAssumption == Disciplined \in BOOLEAN /\ Attentive \in BOOLEAN

VARIABLES life,      \* the life-cycle columns of the row
          table,     \* "empty", "live" or "deleted"
          attempts,  \* retryAttempts of the task
          th,        \* the goroutines
          lane,      \* the phase each command was dispatched for
          spent,     \* commands whose finalizing call was accepted
          setback,   \* (history) since the last command was started, something
                     \* happened after which nobody goes on with the task
          stranded,  \* (history) the last write of completed named no lane, or
                     \* was meant for a task that was done
          late,      \* (history) how often a command ended before its call was
                     \* answered, or failed with its phase finalized
          faults, asked, stops,
          registry, killed, os, mon, owner, doomed, targets, shared

Task == "task"
H == INSTANCE HarnessAdapter WITH Tasks <- {Task}
NoProc == H!NoProc

harnessVars == << registry, killed, os, mon, owner, doomed, targets, shared >>
procVars == << harnessVars, lane, spent >>
rowVars == << life, table >>
bounds == << faults, late, asked, stops >>
aux == << setback, stranded, bounds >>
vars == << rowVars, attempts, th, procVars, aux >>

\* Where a goroutine is.  The names are those of the step it takes next.
PCs == {"idle", "start", "reset", "dispatch", "launch", "register",
        "authorize", "mark", "advFind", "advance", "finish", "terminal",
        "reopenAuth", "reopenFind", "reopen",
        "pauseKill", "pauseSignal", "pauseUpdate",
        "deleteKill", "deleteSignal", "retryCount", "backoff", "fail"}

\* ph: the phase the goroutine carries from an earlier step; who: the command
\* that made the call; proc: the command it started or is about to signal.
Goroutine == [pc : PCs, ph : Phases \cup {NoPhase},
              who : Procs \cup {NoProc}, proc : Procs \cup {NoProc}]
Idle == [pc |-> "idle", ph |-> NoPhase, who |-> NoProc, proc |-> NoProc]

Init ==
    /\ life = FreshLife
    /\ table = "empty"
    /\ attempts = 0
    /\ th = [t \in Threads |-> Idle]
    /\ lane = [p \in Procs |-> NoPhase]
    /\ spent = {}
    /\ setback = FALSE /\ stranded = FALSE
    /\ faults = 0 /\ late = 0 /\ asked = 0 /\ stops = 0
    /\ H!HarnessInit

At(t, pc) == th[t].pc = pc
Live == table = "live"

\* Goroutine t goes on at pc carrying the phase ph.
Goto(t, pc, ph) == th' = [th EXCEPT ![t].pc = pc, ![t].ph = ph]
Return(t) == th' = [th EXCEPT ![t] = Idle]
\* An idle goroutine takes up a call of command who.
Serve(t, pc, ph, who) ==
    /\ At(t, "idle")
    /\ th' = [th EXCEPT ![t] = [Idle EXCEPT !.pc = pc, !.ph = ph, !.who = who]]

\* The step of t at pc if the row is there; without it the handler returns.
WithRow(t, pc) == At(t, pc) /\ Live
\* Where a goroutine reads or writes the row.
RowPCs == {"start", "dispatch", "authorize", "mark", "advFind", "advance",
           "finish", "terminal", "reopenAuth", "reopenFind", "reopen",
           "pauseUpdate", "backoff", "fail"}

\* Defect: a failed lookup is ignored and the phase is dispatched regardless.
RowGoneIgnored(t) ==
    /\ th[t].pc \in RowPCs
    /\ ~Live
    /\ Goto(t, "launch", th[t].ph)
    /\ UNCHANGED << rowVars, attempts, procVars, aux >>

RowGone(t) ==
    /\ th[t].pc \in RowPCs
    /\ ~Live
    /\ Return(t)
    /\ UNCHANGED << rowVars, attempts, procVars, aux >>

\* A statement fails, a context is cancelled, or a retry loop gives up.
StatementFails(t) ==
    /\ faults < MaxFaults
    /\ th[t].pc \in RowPCs
    /\ faults' = faults + 1
    /\ setback' = TRUE
    /\ Return(t)
    /\ UNCHANGED << rowVars, attempts, procVars, stranded, late, asked, stops >>

-----------------------------------------------------------------------------
(* Creating and dispatching                                                 *)

\* CreateTask.Execute: the row is inserted, TaskCreated is published.
Create(t) ==
    /\ table = "empty"
    /\ table' = "live"
    /\ life' = FreshLife
    /\ Serve(t, "start", "planning", NoProc)
    /\ UNCHANGED << attempts, procVars, aux >>

\* The subscriber of TaskCreated loads the task and calls StartFlow.
StartFlow(t) ==
    /\ WithRow(t, "start")
    /\ Goto(t, "reset", th[t].ph)
    /\ UNCHANGED << rowVars, attempts, procVars, aux >>

ResetAttempts(t) ==
    /\ At(t, "reset")
    /\ attempts' = 0
    /\ Goto(t, "dispatch", th[t].ph)
    /\ UNCHANGED << rowVars, procVars, aux >>

\* dispatchPhase up to the prompt: the row goes to in_progress, whatever its
\* phase and status are by now.
Dispatch(t) ==
    /\ WithRow(t, "dispatch")
    /\ life' = Dispatched(life)
    /\ Goto(t, "launch", th[t].ph)
    /\ UNCHANGED << table, attempts, procVars, aux >>

\* Adapter.Dispatch: the command of the phase the goroutine carries is started.
Launch(t) ==
    /\ At(t, "launch")
    /\ \E p \in Procs :
        /\ \A u \in Threads : p \notin {th[u].who, th[u].proc}
        /\ H!Start(Task, p)
        /\ lane' = [lane EXCEPT ![p] = th[t].ph]
        /\ spent' = spent \ {p}
        /\ th' = [th EXCEPT ![t].pc = "register", ![t].proc = p]
    /\ setback' = FALSE
    /\ UNCHANGED << rowVars, attempts, stranded, bounds >>

LaunchFails(t) ==
    /\ At(t, "launch")
    /\ faults < MaxFaults
    /\ faults' = faults + 1
    /\ setback' = TRUE
    /\ Return(t)
    /\ UNCHANGED << rowVars, attempts, procVars, stranded, late, asked, stops >>

Register(t) ==
    /\ At(t, "register")
    /\ H!Register(th[t].proc)
    /\ Return(t)
    /\ UNCHANGED << rowVars, attempts, lane, spent, aux >>

-----------------------------------------------------------------------------
(* Completing a phase and advancing                                         *)

\* A running harness may call if it has not finalized its phase yet.
MayCall(p) ==
    /\ H!Running(p)
    /\ Disciplined => /\ p \notin spent
                      /\ mon[p] # "none"
                      /\ \A t \in Threads : th[t].who # p

CallComplete(t, p) ==
    /\ "complete" \in HarnessOps
    /\ MayCall(p)
    /\ Serve(t, "authorize", lane[p], p)
    /\ UNCHANGED << rowVars, attempts, procVars, aux >>

\* A harness names its phase, or leaves the name empty.
Namings == IF "unnamed" \in HarnessOps THEN {TRUE, FALSE} ELSE {TRUE}

\* authorize: the phase, if one is named, is the current one and the status is
\* active.
Authorized(t, named) ==
    (named => life.phase = lane[th[t].who]) /\ Active(life)

Authorize(t) ==
    /\ WithRow(t, "authorize")
    /\ \E named \in Namings :
          IF Authorized(t, named)
          THEN /\ Goto(t, "mark", IF named THEN th[t].ph ELSE NoPhase)
               /\ spent' = spent \cup {th[t].who}
          ELSE Return(t) /\ spent' = spent
    /\ UNCHANGED << rowVars, attempts, harnessVars, lane, aux >>

\* Defect: no event is published.
MarkCompletedSilently(t) ==
    /\ WithRow(t, "mark")
    /\ life' = MarkedCompleted(life)
    /\ Return(t)
    /\ stranded' = (th[t].ph \notin Lanes)
    /\ UNCHANGED << table, attempts, procVars, setback, bounds >>

\* AdvancePhase.Execute (the use case): the status becomes completed and
\* phase.<phase>.completed is published, to which only Lanes are subscribed.
MarkCompleted(t) ==
    /\ WithRow(t, "mark")
    /\ life' = MarkedCompleted(life)
    /\ IF th[t].ph \in Lanes THEN Goto(t, "advFind", NoPhase) ELSE Return(t)
    /\ stranded' = (th[t].ph \notin Lanes)
    /\ setback' = (setback \/ stranded')
    /\ UNCHANGED << table, attempts, procVars, bounds >>

\* Defect: the successor of the next phase is taken.
AdvanceFindSkipping(t) ==
    /\ WithRow(t, "advFind")
    /\ LET next == NextPhase(NextPhase(life.phase)) IN
       IF next \in Lanes THEN Goto(t, "advance", next)
                        ELSE Goto(t, "finish", NoPhase)
    /\ UNCHANGED << rowVars, attempts, procVars, aux >>

\* PhaseOrchestrator.AdvancePhase: the next phase is computed from this read.
AdvanceFind(t) ==
    /\ WithRow(t, "advFind")
    /\ LET next == NextPhase(life.phase) IN
       CASE IsTerminal(life.phase) -> Goto(t, "terminal", NoPhase)
         [] next = "done"          -> Goto(t, "finish", NoPhase)
         [] OTHER                  -> Goto(t, "advance", next)
    /\ UNCHANGED << rowVars, attempts, procVars, aux >>

\* Written whatever lane the task has been reopened to since it was found done.
Terminal(t) ==
    /\ WithRow(t, "terminal")
    /\ life' = MarkedCompleted(life)
    /\ Return(t)
    /\ stranded' = ~IsTerminal(life.phase)
    /\ setback' = (setback \/ stranded')
    /\ UNCHANGED << table, attempts, procVars, bounds >>

Finish(t) ==
    /\ WithRow(t, "finish")
    /\ life' = Finished(life)
    /\ Return(t)
    /\ UNCHANGED << table, attempts, procVars, aux >>

\* Defect: the new lane is not dispatched.
AdvanceOnly(t) ==
    /\ WithRow(t, "advance")
    /\ life' = AdvancedTo(life, th[t].ph)
    /\ Return(t)
    /\ UNCHANGED << table, attempts, procVars, aux >>

Advance(t) ==
    /\ WithRow(t, "advance")
    /\ life' = AdvancedTo(life, th[t].ph)
    /\ Goto(t, "reset", th[t].ph)
    /\ UNCHANGED << table, attempts, procVars, aux >>

-----------------------------------------------------------------------------
(* Reopening an earlier phase                                               *)

CallReopen(t, p) ==
    /\ "reopen" \in HarnessOps
    /\ MayCall(p)
    /\ \E target \in Lanes : Serve(t, "reopenAuth", target, p)
    /\ UNCHANGED << rowVars, attempts, procVars, aux >>

ReopenAuthorize(t) ==
    /\ WithRow(t, "reopenAuth")
    /\ \E named \in Namings :
          IF Authorized(t, named) THEN Goto(t, "reopenFind", th[t].ph)
                                  ELSE Return(t)
    /\ UNCHANGED << rowVars, attempts, procVars, aux >>

\* The guards of ReopenPhase, on the row this Find returns.  That the target is
\* a known, non-terminal phase is implied: a user's target is a lane, and only
\* lanes come before another phase.
ReopenFind(t) ==
    /\ WithRow(t, "reopenFind")
    /\ IF Active(life) /\ Before(th[t].ph, life.phase)
       THEN /\ Goto(t, "reopen", th[t].ph)
            /\ spent' = spent \cup ({th[t].who} \ {NoProc})
       ELSE Return(t) /\ spent' = spent
    /\ UNCHANGED << rowVars, attempts, harnessVars, lane, aux >>

Reopen(t) ==
    /\ WithRow(t, "reopen")
    /\ life' = ReopenedTo(life, th[t].ph)
    /\ Goto(t, "reset", th[t].ph)
    /\ UNCHANGED << table, attempts, procVars, aux >>

-----------------------------------------------------------------------------
(* Operations of users                                                      *)

\* A user asks for op, whose handler begins at pc with the phase ph.
Ask(t, op, pc, ph) ==
    /\ op \in UserOps
    /\ asked < MaxUserOps
    /\ asked' = asked + 1
    /\ Serve(t, pc, ph, NoProc)
    /\ UNCHANGED << life, attempts, procVars, setback, stranded, faults, late,
                    stops >>

\* POST /complete without a phase: the current one, if the task is active.
UserComplete(t) ==
    /\ Live /\ Active(life)
    /\ Ask(t, "complete", "mark", life.phase)
    /\ UNCHANGED table

\* POST /reopen: the handler checks the status before ReopenPhase does.
UserReopen(t) ==
    /\ Live /\ Active(life)
    /\ \E target \in Lanes : Ask(t, "reopen", "reopenFind", target)
    /\ UNCHANGED table

UserPause(t) ==
    /\ Live /\ life.status = "in_progress"
    /\ Ask(t, "pause", "pauseKill", NoPhase)
    /\ UNCHANGED table

UserResume(t) ==
    /\ Live /\ life.status = "paused"
    /\ Ask(t, "resume", "reset", life.phase)
    /\ UNCHANGED table

\* Nothing works on the task for this server, and nothing is about to.
Idling == /\ \A t \in Threads : At(t, "idle")
          /\ \A p \in Procs : os[p] = "absent" \/ H!Lost(p)

\* The task has been left unfinished; a paused one is meant to be.
Interrupted == /\ Live /\ Idling
               /\ life.status \notin {"paused", "failed"}
               /\ ~(life.phase = "done" /\ life.status = "completed")

\* RestartPhase has no guard on the status or the phase.
UserRestart(t) ==
    /\ Live
    /\ Attentive => Interrupted
    /\ Ask(t, "restart", "reset", life.phase)
    /\ UNCHANGED table

\* DeleteTask.Execute: the row goes first, then TaskDeleted is published; the
\* statement succeeds as well when there is no row any more.
UserDelete(t) ==
    /\ table # "empty"
    /\ Ask(t, "delete", "deleteKill", NoPhase)
    /\ table' = "deleted"

\* KillProcess, the locked section and then the signal.
Kill(t) ==
    /\ th[t].pc \in {"pauseKill", "deleteKill"}
    /\ H!MarkKilled(Task)
    /\ th' = [th EXCEPT ![t].proc = registry[Task],
                        ![t].pc = IF @ = "pauseKill" THEN "pauseSignal"
                                                     ELSE "deleteSignal"]
    /\ UNCHANGED << rowVars, attempts, lane, spent, aux >>

Signal(t) ==
    /\ th[t].pc \in {"pauseSignal", "deleteSignal"}
    /\ IF th[t].proc = NoProc THEN UNCHANGED harnessVars
                              ELSE H!Signal(th[t].proc)
    /\ th' = [th EXCEPT ![t] = IF @.pc = "pauseSignal"
                               THEN [Idle EXCEPT !.pc = "pauseUpdate"]
                               ELSE Idle]
    /\ UNCHANGED << rowVars, attempts, lane, spent, aux >>

PauseUpdate(t) ==
    /\ WithRow(t, "pauseUpdate")
    /\ life' = Paused(life)
    /\ Return(t)
    /\ UNCHANGED << table, attempts, procVars, aux >>

-----------------------------------------------------------------------------
(* Harness commands and retries                                             *)

\* These commands are over; a call of theirs may still be under way, with the
\* phase it was made for.
Forget(ps) ==
    LET over == { p \in ps : \A t \in Threads : th'[t].who # p } IN
    /\ lane' = [p \in Procs |-> IF p \in over THEN NoPhase ELSE lane[p]]
    /\ spent' = spent \ ps

\* A goroutine still works on its call, or it fails, at the timeout say, after
\* its phase was finalized.
EndsLate(p, how) == \/ \E t \in Threads : th[t].who = p
                    \/ how = "dirty" /\ p \in spent

\* It reports success and has not finalized its phase.
EndsUndone(p, how) == how = "clean" /\ p \notin spent /\ ~EndsLate(p, how)

Exit(p, how) ==
    /\ late' = IF EndsLate(p, how) THEN late + 1 ELSE late
    /\ faults' = IF EndsUndone(p, how) THEN faults + 1 ELSE faults
    /\ late' <= MaxLate /\ faults' <= MaxFaults
    /\ UNCHANGED << rowVars, attempts, th, setback, stranded, asked, stops >>
    /\ \/ H!Exit(p, how) /\ UNCHANGED << lane, spent >>
       \/ H!LostExit(p) /\ Forget({p})

\* A command that has not finalized its phase is excused by the mark of a kill
\* that was not its own, or has ended with status zero.
EndsUnnoticed(p) == /\ p \notin spent
                    /\ \/ H!Excused(p) /\ p \notin targets
                       \/ H!Reaped(p) /\ os[p] = "clean"

\* The monitor of command p; HarnessErrorOccurred starts a retry goroutine.
Monitor(p) ==
    /\ \/ (H!Excused(p) \/ H!Reaped(p)) /\ UNCHANGED << th, lane, spent >>
       \/ /\ H!Report(p)
          /\ \E t \in Threads : Serve(t, "retryCount", lane[p], NoProc)
          /\ UNCHANGED << lane, spent >>
       \/ /\ H!Unregister(p)
          /\ th' = th
          /\ Forget({p})
    /\ setback' = (setback \/ EndsUnnoticed(p))
    /\ UNCHANGED << rowVars, attempts, stranded, bounds >>

\* Defect: the last retry is not granted.
RetryCountOffByOne(t) ==
    /\ At(t, "retryCount")
    /\ attempts' = attempts + 1
    /\ Goto(t, IF attempts' >= MaxRetries THEN "fail" ELSE "backoff", th[t].ph)
    /\ UNCHANGED << rowVars, procVars, aux >>

\* HandleRetry counts the attempt and decides.
RetryCount(t) ==
    /\ At(t, "retryCount")
    /\ attempts' = attempts + 1
    /\ Goto(t, IF attempts' > MaxRetries THEN "fail" ELSE "backoff", th[t].ph)
    /\ UNCHANGED << rowVars, procVars, aux >>

Fail(t) ==
    /\ WithRow(t, "fail")
    /\ life' = Failed(life)
    /\ Return(t)
    /\ UNCHANGED << table, attempts, procVars, aux >>

\* Defect: the goroutine ends with its sleep.
BackoffOnly(t) ==
    /\ At(t, "backoff")
    /\ Return(t)
    /\ UNCHANGED << rowVars, attempts, procVars, aux >>

\* Defect: the retry starts the count anew.
BackoffRestarts(t) ==
    /\ WithRow(t, "backoff")
    /\ Goto(t, "reset", th[t].ph)
    /\ UNCHANGED << rowVars, attempts, procVars, aux >>

\* The sleep is over and the task still exists: the phase is dispatched again.
Backoff(t) ==
    /\ WithRow(t, "backoff")
    /\ Goto(t, "dispatch", th[t].ph)
    /\ UNCHANGED << rowVars, attempts, procVars, aux >>

-----------------------------------------------------------------------------
(* The server stops, by a signal or a panic, and is started again.  Only the  *)
(* row survives; nothing on the way up looks for tasks to go on with.         *)

Stop ==
    /\ stops < MaxStops /\ table # "empty"
    /\ stops' = stops + 1
    /\ setback' = TRUE
    /\ th' = [t \in Threads |-> Idle]
    /\ \E left \in SUBSET Procs : /\ Cardinality(left) <= MaxLost
                                 /\ H!ServerStops(left)
                                 /\ Forget(Procs \ left)
    /\ attempts' = 0
    /\ UNCHANGED << rowVars, stranded, faults, late, asked >>

-----------------------------------------------------------------------------
\* The steps a goroutine takes once it is running.
Step(t) ==
    \/ StartFlow(t) \/ ResetAttempts(t) \/ Dispatch(t) \/ Launch(t)
    \/ Register(t) \/ Authorize(t) \/ MarkCompleted(t) \/ AdvanceFind(t)
    \/ Terminal(t) \/ Finish(t) \/ Advance(t) \/ ReopenAuthorize(t)
    \/ ReopenFind(t) \/ Reopen(t) \/ Kill(t) \/ Signal(t) \/ PauseUpdate(t)
    \/ RetryCount(t) \/ Fail(t) \/ Backoff(t) \/ RowGone(t)

UserStep(t) == \/ UserComplete(t) \/ UserReopen(t) \/ UserPause(t)
               \/ UserResume(t) \/ UserRestart(t) \/ UserDelete(t)

HarnessCall(p) == \E t \in Threads : CallComplete(t, p) \/ CallReopen(t, p)
HarnessExit(p) == \E how \in {"clean", "dirty"} : Exit(p, how)

Next ==
    \/ \E t \in Threads : \/ Create(t) \/ Step(t) \/ UserStep(t)
                          \/ StatementFails(t) \/ LaunchFails(t)
    \/ Stop
    \/ \E p \in Procs : HarnessCall(p) \/ HarnessExit(p) \/ Monitor(p)

Spec == Init /\ [][Next]_vars

\* Goroutines and monitors keep running, and every harness of this server
\* exits, however often it calls: its timeout sees to that.  Nobody has to
\* create a task, to call or to ask for anything, but for attentive users.
Fairness ==
    /\ \A t \in Threads : WF_vars(Step(t))
    /\ \A p \in Procs : /\ WF_vars(Monitor(p))
                         /\ SF_vars(~H!Lost(p) /\ HarnessExit(p))
    /\ Attentive => WF_vars(\E t \in Threads : UserRestart(t))

FairSpec == Spec /\ Fairness
-----------------------------------------------------------------------------
\* The types of the variables.
TypeOK ==
    /\ life \in Life
    /\ table \in {"empty", "live", "deleted"}
    /\ attempts \in Nat
    /\ th \in [Threads -> Goroutine]
    /\ lane \in [Procs -> Phases \cup {NoPhase}]
    /\ spent \subseteq Procs
    /\ setback \in BOOLEAN /\ stranded \in BOOLEAN
    /\ faults \in Nat /\ late \in Nat /\ asked \in Nat /\ stops \in Nat
    /\ H!HarnessTypeOK

AtAny(pcs) == \E t \in Threads : th[t].pc \in pcs

\* However calls, retries and user operations interleave, a pending task has a
\* goroutine that is about to dispatch it: whoever writes pending (CreateTask,
\* AdvancePhase, ReopenPhase) goes on to dispatchPhase, and a second one that
\* overtakes it dispatches as well.  No card waits in a lane for nobody.
PendingIsPickedUp ==
    Live /\ life.status = "pending" /\ faults = 0 /\ stops = 0 =>
        AtAny({"start", "reset", "dispatch"})

\* A completed task that is not in the last lane is on its way to the next
\* one (SPEC 32.2: it is completed "temporarily"), whatever users and harnesses
\* ask for meanwhile; unless the completion named no lane, or was written by
\* one that had found the task done before it was reopened.
CompletedIsHandedOver ==
    /\ Live /\ life.status = "completed" /\ life.phase # "done"
    /\ faults = 0 /\ stops = 0
    => stranded \/ AtAny({"advFind", "advance", "finish"})

\* A task that nobody works on any more, whatever its row says, has been done,
\* failed or paused, or else since its last command was started one of these
\* happened: a statement or a start of a command failed, the server stopped, a
\* stray mark of a kill swallowed a failure, a harness ended well without
\* finalizing its phase, a completion named no phase, a completion that had
\* found the task done met it reopened.  In no other way does a card stand
\* still while it looks busy.
InterruptedForACause == Interrupted => setback

\* What drives the task on: goroutines that will move or dispatch it, commands
\* that have their phase to finalize, and those whose failure is still to be
\* retried.
Agents ==
    { t \in Threads : th[t].pc \notin {"idle", "authorize", "reopenAuth",
                                       "reopenFind", "register"} }
    \cup { p \in Procs : /\ mon[p] # "unregister"
                         /\ \/ os[p] = "alive" /\ p \notin spent
                            \/ os[p] = "dirty" }

\* Harnesses that nobody interferes with work one after the other: completing,
\* reopening and retrying hand the task over, never double it.  The one cause
\* for a second agent is a command that fails late, at its timeout say, beside
\* the successor its completion has started; and each such failure makes no
\* more than one, however its retries, calls and restarts go on.
AgentsAreAccountedFor == Cardinality(Agents) <= 1 + late

\* Until a command ends late, the card moves one lane to the right, or back by a
\* reopen, and only a task whose retries are exhausted fails.
LaneOrder ==
    [][late = 0 /\ life'.phase # life.phase =>
           \/ life'.phase = NextPhase(life.phase)
           \/ Before(life'.phase, life.phase) /\ life'.reopenReason]_vars

FailsWhenExhausted ==
    [][late = 0 /\ life'.status = "failed" /\ life.status # "failed" =>
           attempts > MaxRetries]_vars

\* Left to the harnesses, a card makes the moves that Card describes and no
\* others, however many goroutines, commands and commands of an earlier server
\* are about: until a command ends late, a phase is completed while it is
\* worked on, a completed one is left once, a retry keeps its count, and a done
\* or failed card stays; afterwards none of this is certain.
C == INSTANCE Card WITH there <- Live, outages <- stops
CardSteps == C!Spec

RegistryIsLive == H!RegistryIsLive

RunningIsKillable == H!RunningIsKillable

KillIsNoFailure == H!KillIsNoFailure

Settled == \/ life.phase = "done" /\ life.status = "completed"
           \/ life.status = "failed"

\* If harnesses reopen nothing, the flow of a task ends: it is done or failed,
\* and stays so, unless it is deleted.  This holds across failed statements,
\* failed starts and restarts of the server, if users restart the task when it
\* has been interrupted (README, troubleshooting: "Click Retry").
FlowEnds == Live ~> [](Settled \/ ~Live)

\* After a deletion the task is left alone: a retry in its backoff, a dispatch
\* under way or a harness that escaped the kill do not keep it going for ever.
\* Only a command of an earlier server, which nobody knows of, may.
DeletedIsQuiet ==
    table = "deleted" ~>
        [](/\ \A t \in Threads : At(t, "idle") \/ (th[t].who # NoProc /\ H!Lost(th[t].who))
           /\ \A p \in Procs : os[p] = "absent" \/ H!Lost(p))

-----------------------------------------------------------------------------
(* What the documentation says and the code does not do.                    *)

\* adapter.go: "KillProcess terminates a running harness process for the given
\* task": the command that works for the task must be in the registry, unless
\* a KillProcess has just taken it from there.
WorkerIsKillable ==
    \A p \in Procs :
        H!Running(p) /\ mon[p] = "wait" /\ p \notin spent =>
            \/ registry[Task] = p
            \/ p \in doomed
            \/ AtAny({"pauseSignal", "deleteSignal"})

\* adapter.go: the termination by KillProcess "is marked so monitorProcess does
\* not treat it as a harness failure".
KilledIsNotReported ==
    [][\A p \in Procs :
          H!Reaped(p) /\ os[p] = "dirty" => p \notin targets]_vars

\* adapter.go: "Non-zero exit or timeout: publish a harness error so the
\* orchestrator can apply the retry policy", only an intentional kill excepted.
FailureIsReported ==
    [][\A p \in Procs :
          H!Excused(p) /\ os[p] = "dirty" => p \in targets]_vars

\* docs/rules.md: a paused task returns to in_progress by ResumeTask only.
PausedStays ==
    [][ "resume" \notin UserOps /\ life.status = "paused" =>
            life'.status # "in_progress"]_vars

\* authorize.go: the check "prevents cross-phase or post-completion writes":
\* complete_phase completes the phase it was called for, while it is active.
CompletesItsOwnPhase ==
    [][\A t \in Threads :
          MarkCompleted(t) => life.phase = th[t].ph /\ Active(life)]_vars

\* ReopenPhase: "Reopening to the current or a later phase is rejected".
ReopenGoesBack ==
    [][\A t \in Threads : Reopen(t) => Before(life'.phase, life.phase)]_vars
=============================================================================
