---------------------------- MODULE Kanban_proofs ----------------------------
(* Theorems about Kanban for any number of goroutines and commands, any retry *)
(* limit and any set of operations, with or without disciplined harnesses;    *)
(* the last part is about disciplined harnesses that no user interferes with, *)
(* however and whenever they end.                                             *)
EXTENDS Kanban, TLAPS, FiniteSetTheorems

\* What a goroutine carries fits where it is: a lane to move the task to, the
\* command it has just started, or the one that called.
CarriedInv ==
    \A t \in Threads :
        /\ th[t].pc \in {"advance", "reopenAuth", "reopenFind", "reopen"} =>
               th[t].ph \in Lanes
        /\ At(t, "register") => th[t].proc \in Procs
        /\ At(t, "authorize") => th[t].who \in Procs

\* Every command runs for the one task, and only an existing one is monitored;
\* KillProcess has only ever found monitored ones.
OwnedInv ==
    \A p \in Procs :
        /\ os[p] # "absent" => owner[p] = Task
        /\ os[p] = "absent" => owner[p] = H!NoTask
        /\ mon[p] # "none" => os[p] # "absent"
        /\ p \in targets => mon[p] \notin {"none", "lost"}

\* A command that is not shared is the only one this server has.
OneCommand ==
    \A p \in Procs \ shared, q \in Procs :
        /\ os[p] # "absent" /\ ~H!Lost(p)
        /\ os[q] # "absent" /\ ~H!Lost(q)
        => p = q

\* What KillProcess and the monitors rely on.
AdapterInv == /\ H!HarnessTypeOK /\ OwnedInv /\ OneCommand /\ RegistryIsLive
              /\ RunningIsKillable /\ KillIsNoFailure

\* The inductive invariant.
KanbanInv == /\ TypeOK /\ CarriedInv /\ AdapterInv
             /\ PendingIsPickedUp /\ CompletedIsHandedOver

-----------------------------------------------------------------------------
(* The order of the lanes                                                   *)

\* The position of a phase is where it stands in PhaseSeq (Phase.Index).
LEMMA IndexOfPhase ==
  ASSUME NEW p \in Phases
  PROVE  Index(p) \in 0 .. 5 /\ PhaseSeq[Index(p) + 1] = p
<1>1. \E i \in 1 .. 6 : PhaseSeq[i] = p
  <2>1. PhaseSeq[1] = "planning" /\ PhaseSeq[2] = "todo"
    BY DEF PhaseSeq
  <2>2. PhaseSeq[3] = "doing" /\ PhaseSeq[4] = "validating"
    BY DEF PhaseSeq
  <2>3. PhaseSeq[5] = "testing" /\ PhaseSeq[6] = "done"
    BY DEF PhaseSeq
  <2>q. QED
    BY <2>1, <2>2, <2>3 DEF Phases
<1> DEFINE i == CHOOSE i \in 1 .. 6 : PhaseSeq[i] = p
<1>2. i \in 1 .. 6 /\ PhaseSeq[i] = p
  BY <1>1
<1>3. Index(p) = i - 1
  BY DEF Index
<1> HIDE DEF i
<1>4. Index(p) \in 0 .. 5 /\ Index(p) + 1 = i
  BY <1>2, <1>3
<1>q. QED
  BY <1>2, <1>4

\* Every phase but the last has a successor (Phase.Next).
LEMMA NextIsPhase ==
  ASSUME NEW p \in Lanes
  PROVE  NextPhase(p) \in Phases
<1>1. p \in Phases /\ p # "done"
  BY DEF Lanes
<1>2. Index(p) \in 0 .. 5 /\ PhaseSeq[Index(p) + 1] = p
  BY <1>1, IndexOfPhase
<1>3. Index(p) # 5
  <2>1. PhaseSeq[5 + 1] = "done"
    BY DEF PhaseSeq
  <2>q. QED
    BY <1>1, <1>2, <2>1
<1>4. \A k \in 1 .. 6 : PhaseSeq[k] \in Phases
  BY DEF PhaseSeq, Phases
<1>5. HasNext(p) /\ Index(p) + 2 \in 1 .. 6
  BY <1>2, <1>3 DEF HasNext
<1>q. QED
  BY <1>4, <1>5 DEF NextPhase

-----------------------------------------------------------------------------
(* The commands and the registry                                            *)

\* What a step of the orchestrator does to the adapter is a step of the
\* adapter, or none.
LEMMA AdapterStep ==
  KanbanInv /\ [Next]_vars => [H!HarnessNext]_(H!harnessVars)
<1> SUFFICES ASSUME KanbanInv, [Next]_vars
             PROVE  [H!HarnessNext]_(H!harnessVars)
  OBVIOUS
<1> DEFINE Quiet == UNCHANGED H!harnessVars
<1> USE DEF KanbanInv, harnessVars, procVars, H!harnessVars
<1>1. ASSUME NEW t \in Threads,
             Create(t) \/ StartFlow(t) \/ ResetAttempts(t) \/ Dispatch(t)
             \/ Authorize(t) \/ MarkCompleted(t) \/ AdvanceFind(t)
             \/ Terminal(t) \/ Finish(t) \/ Advance(t) \/ ReopenAuthorize(t)
             \/ ReopenFind(t) \/ Reopen(t)
      PROVE  Quiet
  BY <1>1 DEF Create, StartFlow, ResetAttempts, Dispatch, Authorize,
              MarkCompleted, AdvanceFind, Terminal, Finish, Advance,
              ReopenAuthorize, ReopenFind, Reopen
<1>2. ASSUME NEW t \in Threads,
             PauseUpdate(t) \/ RetryCount(t) \/ Fail(t) \/ Backoff(t)
             \/ RowGone(t) \/ StatementFails(t) \/ LaunchFails(t)
             \/ UserStep(t)
      PROVE  Quiet
  BY <1>2 DEF PauseUpdate, RetryCount, Fail, Backoff, RowGone, StatementFails,
              LaunchFails, UserStep, UserComplete, UserReopen, UserPause,
              UserResume, UserRestart, UserDelete, Ask
<1>3. ASSUME NEW t \in Threads, Launch(t) PROVE H!HarnessNext
  BY <1>3 DEF Launch, H!HarnessNext
<1>4. ASSUME NEW t \in Threads, Register(t) PROVE H!HarnessNext
  <2>1. th[t].proc \in Procs
    BY <1>4 DEF Register, CarriedInv
  <2>q. QED
    BY <1>4, <2>1 DEF Register, H!HarnessNext
<1>5. ASSUME NEW t \in Threads, Kill(t) PROVE H!HarnessNext
  BY <1>5 DEF Kill, H!HarnessNext
<1>6. ASSUME NEW t \in Threads, Signal(t) PROVE H!HarnessNext \/ Quiet
  <2>1. CASE th[t].proc = NoProc
    BY <1>6, <2>1 DEF Signal
  <2>2. CASE th[t].proc # NoProc
    <3>1. H!Signal(th[t].proc)
      BY <1>6, <2>2 DEF Signal
    <3>2. th[t].proc \in Procs
      BY <3>1 DEF H!Signal, TypeOK, H!HarnessTypeOK
    <3>q. QED
      BY <3>1, <3>2 DEF H!HarnessNext
  <2>q. QED
    BY <2>1, <2>2
<1>7. ASSUME NEW p \in Procs, HarnessCall(p) PROVE Quiet
  BY <1>7 DEF HarnessCall, CallComplete, CallReopen
<1>8. ASSUME NEW p \in Procs, HarnessExit(p) PROVE H!HarnessNext
  BY <1>8 DEF HarnessExit, Exit, H!HarnessNext
<1>9. ASSUME NEW p \in Procs, Monitor(p) PROVE H!HarnessNext
  BY <1>9 DEF Monitor, H!HarnessNext, H!Monitor
<1>10. ASSUME Stop PROVE H!HarnessNext
  BY <1>10 DEF Stop, H!HarnessNext
<1>11. CASE UNCHANGED vars
  BY <1>11 DEF vars
<1>q. QED
  BY <1>1, <1>2, <1>3, <1>4, <1>5, <1>6, <1>7, <1>8, <1>9, <1>10, <1>11
     DEF Next, Step

\* A step of the adapter keeps its types, the owners, the registry and the
\* kill marks right.
LEMMA AdapterInvStep ==
  ASSUME AdapterInv, [H!HarnessNext]_(H!harnessVars)
  PROVE  AdapterInv'
<1> USE ProcsAssumption
        DEF AdapterInv, H!HarnessTypeOK, H!OsStates, H!MonStates, OwnedInv,
            OneCommand, RegistryIsLive, H!RegistryIsLive, RunningIsKillable,
            H!RunningIsKillable, KillIsNoFailure, H!KillIsNoFailure,
            H!Running, H!Lost, H!NoProc, H!NoTask, Task
<1>1. ASSUME NEW t \in {Task}, NEW p \in Procs, H!Start(t, p)
      PROVE  AdapterInv'
  <2> USE <1>1 DEF H!Start, H!Free, H!Current
  <2>1. H!HarnessTypeOK'
    <3>1. os' \in [Procs -> H!OsStates]
      OBVIOUS
    <3>2. owner' \in [Procs -> {Task} \cup {H!NoTask}]
      OBVIOUS
    <3>3. shared' \subseteq Procs
      OBVIOUS
    <3>q. QED
      BY <3>1, <3>2, <3>3
  <2>2. OwnedInv'
    BY ZenonT(30)
  <2>r. RegistryIsLive'
    OBVIOUS
  <2>3. OneCommand'
    BY ZenonT(30)
  <2>4. RunningIsKillable' /\ KillIsNoFailure'
    OBVIOUS
  <2>q. QED
    BY <2>1, <2>2, <2>r, <2>3, <2>4
<1>2. ASSUME NEW t \in {Task}, H!MarkKilled(t) PROVE AdapterInv'
  <2>1. H!HarnessTypeOK'
    <3>1. t = Task /\ registry[t] \in Procs \cup {H!NoProc}
      OBVIOUS
    <3>2. killed' \subseteq {Task}
      BY <1>2, <3>1 DEF H!MarkKilled
    <3>3. doomed' \subseteq Procs /\ targets' \subseteq Procs
      BY <1>2, <3>1 DEF H!MarkKilled
    <3>4. registry' \in [{Task} -> Procs \cup {H!NoProc}]
      BY <1>2, <3>1 DEF H!MarkKilled
    <3>q. QED
      BY <1>2, <3>2, <3>3, <3>4 DEF H!MarkKilled
  <2>2. OwnedInv' /\ RegistryIsLive' /\ OneCommand'
    BY <1>2 DEF H!MarkKilled
  <2>3. RunningIsKillable'
    BY <1>2, ZenonT(30) DEF H!MarkKilled
  <2>4. KillIsNoFailure'
    BY <1>2 DEF H!MarkKilled
  <2>q. QED
    BY <2>1, <2>2, <2>3, <2>4
<1>3. ASSUME NEW p \in Procs, H!Register(p) PROVE AdapterInv'
  <2> USE <1>3 DEF H!Register
  <2>1. H!HarnessTypeOK'
    OBVIOUS
  <2>2. OwnedInv'
    OBVIOUS
  <2>r. RegistryIsLive'
    BY ZenonT(30)
  <2>3. OneCommand'
    OBVIOUS
  <2>4. RunningIsKillable'
    OBVIOUS
  <2>5. KillIsNoFailure'
    OBVIOUS
  <2>q. QED
    BY <2>1, <2>2, <2>r, <2>3, <2>4, <2>5
<1>4. ASSUME NEW p \in Procs, H!Signal(p) PROVE AdapterInv'
  <2> USE <1>4 DEF H!Signal
  <2>1. H!HarnessTypeOK'
    OBVIOUS
  <2>2. OwnedInv'
    BY ZenonT(30)
  <2>r. RegistryIsLive'
    OBVIOUS
  <2>3. OneCommand'
    OBVIOUS
  <2>4. RunningIsKillable'
    OBVIOUS
  <2>5. KillIsNoFailure'
    OBVIOUS
  <2>q. QED
    BY <2>1, <2>2, <2>r, <2>3, <2>4, <2>5
<1>5. ASSUME NEW p \in Procs, H!Excused(p) \/ H!Reaped(p) \/ H!Report(p)
      PROVE  AdapterInv'
  <2>1. /\ UNCHANGED << registry, os, owner, targets, shared >>
        /\ mon[p] \notin {"none", "lost"}
        /\ \E m \in {"report", "unregister"} : mon' = [mon EXCEPT ![p] = m]
    BY <1>5 DEF H!Excused, H!Reaped, H!Report
  <2>m. \A q \in Procs : /\ mon'[q] = "none" <=> mon[q] = "none"
                         /\ mon'[q] = "lost" <=> mon[q] = "lost"
    <3>1. PICK m \in {"report", "unregister"} : mon' = [mon EXCEPT ![p] = m]
      BY <2>1
    <3>2. mon'[p] = m
      BY <3>1, ZenonT(30)
    <3>3. \A q \in Procs \ {p} : mon'[q] = mon[q]
      BY <3>1, ZenonT(30)
    <3>q. QED
      BY <2>1, <3>2, <3>3
  <2>2. OwnedInv'
    BY <2>1, <2>m
  <2>3. OneCommand'
    BY <2>1, <2>m
  <2>4. RegistryIsLive'
    <3>1. registry[Task] \in Procs \cup {H!NoProc}
      OBVIOUS
    <3>2. registry' = registry /\ owner' = owner
      BY <2>1
    <3>q. QED
      BY <2>m, <3>1, <3>2
  <2>5. CASE H!Excused(p)
    <3> USE <2>5 DEF H!Excused
    <3>1. H!HarnessTypeOK'
      OBVIOUS
    <3>2. RunningIsKillable'
      OBVIOUS
    <3>3. KillIsNoFailure'
      OBVIOUS
    <3>q. QED
      BY <3>1, <3>2, <3>3, <2>2, <2>3, <2>4
  <2>6. CASE H!Reaped(p)
    <3> USE <2>6 DEF H!Reaped
    <3>1. H!HarnessTypeOK'
      OBVIOUS
    <3>2. RunningIsKillable'
      OBVIOUS
    <3>3. KillIsNoFailure'
      OBVIOUS
    <3>q. QED
      BY <3>1, <3>2, <3>3, <2>2, <2>3, <2>4
  <2>7. CASE H!Report(p)
    <3> USE <2>7 DEF H!Report
    <3>1. H!HarnessTypeOK'
      OBVIOUS
    <3>2. RunningIsKillable'
      OBVIOUS
    <3>3. KillIsNoFailure'
      OBVIOUS
    <3>q. QED
      BY <3>1, <3>2, <3>3, <2>2, <2>3, <2>4
  <2>q. QED
    BY <1>5, <2>5, <2>6, <2>7
<1>6. ASSUME NEW p \in Procs, H!Unregister(p) PROVE AdapterInv'
  <2> USE <1>6 DEF H!Unregister
  <2>1. H!HarnessTypeOK'
    OBVIOUS
  <2>2. OwnedInv'
    BY ZenonT(30)
  <2>r. RegistryIsLive'
    OBVIOUS
  <2>3. OneCommand'
    OBVIOUS
  <2>4. RunningIsKillable'
    OBVIOUS
  <2>5. KillIsNoFailure'
    OBVIOUS
  <2>q. QED
    BY <2>1, <2>2, <2>r, <2>3, <2>4, <2>5
<1>7. ASSUME NEW p \in Procs, NEW how \in {"clean", "dirty"}, H!Exit(p, how)
      PROVE  AdapterInv'
  <2> USE <1>7 DEF H!Exit
  <2>1. H!HarnessTypeOK'
    OBVIOUS
  <2>2. OwnedInv'
    OBVIOUS
  <2>r. RegistryIsLive'
    OBVIOUS
  <2>3. OneCommand'
    OBVIOUS
  <2>4. RunningIsKillable'
    OBVIOUS
  <2>5. KillIsNoFailure'
    OBVIOUS
  <2>q. QED
    BY <2>1, <2>2, <2>r, <2>3, <2>4, <2>5
<1>8. ASSUME NEW left \in SUBSET Procs, H!ServerStops(left) PROVE AdapterInv'
  <2> USE <1>8 DEF H!ServerStops
  <2>1. H!HarnessTypeOK'
    OBVIOUS
  <2>2. OwnedInv'
    OBVIOUS
  <2>r. RegistryIsLive'
    OBVIOUS
  <2>3. OneCommand'
    OBVIOUS
  <2>4. RunningIsKillable'
    OBVIOUS
  <2>5. KillIsNoFailure'
    OBVIOUS
  <2>q. QED
    BY <2>1, <2>2, <2>r, <2>3, <2>4, <2>5
<1>9. ASSUME NEW p \in Procs, H!LostExit(p) PROVE AdapterInv'
  <2> USE <1>9 DEF H!LostExit
  <2>1. H!HarnessTypeOK'
    OBVIOUS
  <2>2. OwnedInv'
    BY ZenonT(30)
  <2>r. RegistryIsLive'
    <3>1. registry' = registry /\ registry[Task] # p
      OBVIOUS
    <3>2. \A q \in Procs \ {p} : mon'[q] = mon[q] /\ owner'[q] = owner[q]
      BY ZenonT(30)
    <3>3. registry[Task] \in Procs \cup {H!NoProc}
      OBVIOUS
    <3>q. QED
      BY <3>1, <3>2, <3>3, ZenonT(30)
  <2>3. OneCommand'
    OBVIOUS
  <2>4. RunningIsKillable'
    OBVIOUS
  <2>5. KillIsNoFailure'
    OBVIOUS
  <2>q. QED
    BY <2>1, <2>2, <2>r, <2>3, <2>4, <2>5
<1>10. CASE UNCHANGED H!harnessVars
  BY <1>10 DEF H!harnessVars
<1> HIDE ProcsAssumption
         DEF AdapterInv, H!HarnessTypeOK, H!OsStates, H!MonStates, OwnedInv,
             OneCommand, RegistryIsLive, H!RegistryIsLive, RunningIsKillable,
             H!RunningIsKillable, KillIsNoFailure, H!KillIsNoFailure,
             H!Running, H!Lost, H!NoProc, H!NoTask, Task
<1>11. ASSUME H!HarnessNext PROVE AdapterInv'
  BY <1>1, <1>2, <1>3, <1>4, <1>5, <1>6, <1>7, <1>8, <1>9, <1>11
     DEF H!HarnessNext, H!Monitor
<1>q. QED
  BY <1>10, <1>11

-----------------------------------------------------------------------------
(* The goroutines and the row                                               *)

\* The part of TypeOK that is not about the adapter.
RowTypeOK ==
    /\ life \in Life
    /\ table \in {"empty", "live", "deleted"}
    /\ attempts \in Nat
    /\ th \in [Threads -> Goroutine]
    /\ lane \in [Procs -> Phases \cup {NoPhase}]
    /\ spent \subseteq Procs
    /\ setback \in BOOLEAN /\ stranded \in BOOLEAN
    /\ faults \in Nat /\ late \in Nat /\ asked \in Nat /\ stops \in Nat

\* The goroutine is about to dispatch the task.
Picking(t) == th[t].pc \in {"start", "reset", "dispatch"}

\* Before a task is created there is nothing to pick up and no command.
LEMMA InitInv == Init => KanbanInv
<1>1. FreshLife \in Life
  BY DEF FreshLife, Life, Phases, Statuses
<1>2. Idle \in Goroutine
  BY DEF Idle, Goroutine, PCs
<1>3. Init => AdapterInv
  <2>1. H!HarnessInit => H!HarnessTypeOK
    BY DEF H!HarnessInit, H!HarnessTypeOK, H!OsStates, H!MonStates
  <2>2. H!HarnessInit => OwnedInv /\ OneCommand
    BY DEF H!HarnessInit, OwnedInv, OneCommand
  <2>3. H!HarnessInit => RegistryIsLive
    BY DEF H!HarnessInit, RegistryIsLive, H!RegistryIsLive
  <2>4. H!HarnessInit => RunningIsKillable /\ KillIsNoFailure
    BY DEF H!HarnessInit, RunningIsKillable, H!RunningIsKillable, H!Running,
           KillIsNoFailure, H!KillIsNoFailure
  <2>q. QED
    BY <2>1, <2>2, <2>3, <2>4 DEF Init, AdapterInv
<1>4. Init => TypeOK
  <2>1. Init => setback \in BOOLEAN /\ stranded \in BOOLEAN
    BY DEF Init
  <2>2. Init => H!HarnessTypeOK
    BY <1>3 DEF AdapterInv
  <2>q. QED
    BY <1>1, <1>2, <2>1, <2>2 DEF Init, TypeOK
<1>5. Init => CarriedInv /\ PendingIsPickedUp /\ CompletedIsHandedOver
  BY DEF Init, CarriedInv, PendingIsPickedUp, CompletedIsHandedOver, Live, At,
         Idle
<1>q. QED
  BY <1>3, <1>4, <1>5 DEF KanbanInv

\* A goroutine that moves on is still one, and carries what fits.
LEMMA GotoType ==
  ASSUME NEW t \in Threads, RowTypeOK, CarriedInv,
         NEW pc \in PCs, NEW ph \in Phases \cup {NoPhase},
         pc \in {"advance", "reopenAuth", "reopenFind", "reopen"} =>
             ph \in Lanes,
         pc \notin {"register", "authorize"},
         Goto(t, pc, ph)
  PROVE  th' \in [Threads -> Goroutine] /\ CarriedInv'
<1>1. th' \in [Threads -> Goroutine]
  BY DEF Goto, RowTypeOK, Goroutine
<1>2. th'[t].pc = pc /\ th'[t].ph = ph
  BY DEF Goto, RowTypeOK, Goroutine
<1>3. \A u \in Threads \ {t} : th'[u] = th[u]
  BY DEF Goto, RowTypeOK
<1>q. QED
  BY <1>1, <1>2, <1>3 DEF CarriedInv, At

\* A goroutine that returns is idle, and carries nothing.
LEMMA ReturnType ==
  ASSUME NEW t \in Threads, RowTypeOK, CarriedInv, Return(t)
  PROVE  th' \in [Threads -> Goroutine] /\ CarriedInv'
<1>1. Idle \in Goroutine
  BY DEF Idle, Goroutine, PCs
<1>q. QED
  BY <1>1 DEF Return, RowTypeOK, CarriedInv, At, Idle

\* A goroutine that takes up a call carries what fits.
LEMMA ServeType ==
  ASSUME NEW t \in Threads, RowTypeOK, CarriedInv,
         NEW pc \in PCs, NEW ph \in Phases \cup {NoPhase},
         NEW who \in Procs \cup {NoProc},
         pc \in {"advance", "reopenAuth", "reopenFind", "reopen"} =>
             ph \in Lanes,
         pc # "register", pc = "authorize" => who \in Procs,
         Serve(t, pc, ph, who)
  PROVE  th' \in [Threads -> Goroutine] /\ CarriedInv'
<1> DEFINE g == [Idle EXCEPT !.pc = pc, !.ph = ph, !.who = who]
<1>1. g \in Goroutine /\ g.pc = pc /\ g.ph = ph /\ g.who = who
  BY DEF Idle, Goroutine
<1>2. th' = [th EXCEPT ![t] = g]
  BY DEF Serve
<1> HIDE DEF g
<1>q. QED
  BY <1>1, <1>2 DEF RowTypeOK, CarriedInv, At

\* The closures yield life-cycle columns.
LEMMA ClosureTypes ==
  ASSUME NEW l \in Life, NEW p \in Lanes
  PROVE  /\ MarkedCompleted(l) \in Life /\ Finished(l) \in Life
         /\ Dispatched(l) \in Life /\ Failed(l) \in Life
         /\ Paused(l) \in Life /\ AdvancedTo(l, p) \in Life
         /\ ReopenedTo(l, p) \in Life
<1>1. p \in Phases /\ "done" \in Phases
  BY DEF Lanes, Phases
<1>q. QED
  BY <1>1 DEF Life, Statuses, MarkedCompleted, Finished, Dispatched, Failed,
              Paused, AdvancedTo, ReopenedTo

\* None of these closures leaves the task pending.
LEMMA ClosureStatuses ==
  ASSUME NEW l \in Life
  PROVE  /\ Dispatched(l).status = "in_progress"
         /\ MarkedCompleted(l).status = "completed"
         /\ Finished(l).status = "completed"
         /\ Paused(l).status = "paused"
         /\ Failed(l).status = "failed"
<1>1. Dispatched(l).status = "in_progress"
  BY DEF Life, Dispatched
<1>2. MarkedCompleted(l).status = "completed"
  BY DEF Life, MarkedCompleted
<1>3. Finished(l).status = "completed"
  BY DEF Life, Finished
<1>4. Paused(l).status = "paused"
  BY DEF Life, Paused
<1>5. Failed(l).status = "failed"
  BY DEF Life, Failed
<1>q. QED
  BY <1>1, <1>2, <1>3, <1>4, <1>5

\* Of commands that are over nothing stays but the phase of a call.
LEMMA ForgetType ==
  ASSUME RowTypeOK, NEW ps, Forget(ps)
  PROVE  lane' \in [Procs -> Phases \cup {NoPhase}] /\ spent' \subseteq Procs
BY DEF RowTypeOK, Forget

\* No step takes the row or a goroutine out of its type, nor lets a goroutine
\* carry what does not fit.
LEMMA RowTypeStep ==
  KanbanInv /\ [Next]_vars => RowTypeOK' /\ CarriedInv'
<1> SUFFICES ASSUME KanbanInv, [Next]_vars PROVE RowTypeOK' /\ CarriedInv'
  OBVIOUS
<1> DEFINE Good == RowTypeOK /\ CarriedInv
<1>0. RowTypeOK /\ CarriedInv /\ H!HarnessTypeOK
  BY DEF KanbanInv, TypeOK, RowTypeOK
<1>p. "planning" \in Lanes /\ Lanes \subseteq Phases
  BY DEF Lanes, Phases
<1>g. \A t \in Threads : th[t].ph \in Phases \cup {NoPhase}
                          /\ th[t].pc \in PCs
  BY <1>0 DEF RowTypeOK, Goroutine
<1>l. life.phase \in Phases
  BY <1>0 DEF RowTypeOK, Life
<1>c. /\ MarkedCompleted(life) \in Life /\ Finished(life) \in Life
      /\ Dispatched(life) \in Life /\ Failed(life) \in Life
      /\ Paused(life) \in Life
      /\ \A p \in Lanes : AdvancedTo(life, p) \in Life
                          /\ ReopenedTo(life, p) \in Life
  BY <1>0, <1>p, ClosureTypes DEF RowTypeOK
<1>1. ASSUME NEW t \in Threads, Create(t) PROVE Good'
  <2>1. FreshLife \in Life
    BY DEF FreshLife, Life, Phases, Statuses
  <2>2. th' \in [Threads -> Goroutine] /\ CarriedInv'
    BY <1>0, <1>p, <1>1, ServeType DEF Create, PCs
  <2>q. QED
    BY <1>0, <1>1, <2>1, <2>2 DEF Create, RowTypeOK, procVars, aux, bounds
<1>2. ASSUME NEW t \in Threads, StartFlow(t) \/ Backoff(t) PROVE Good'
  <2>1. th' \in [Threads -> Goroutine] /\ CarriedInv'
    BY <1>0, <1>g, <1>2, GotoType DEF StartFlow, Backoff, PCs
  <2>q. QED
    BY <1>0, <1>2, <2>1
       DEF StartFlow, Backoff, RowTypeOK, rowVars, procVars, aux, bounds
<1>3. ASSUME NEW t \in Threads, ResetAttempts(t) \/ RetryCount(t) PROVE Good'
  <2>1. th' \in [Threads -> Goroutine] /\ CarriedInv'
    BY <1>0, <1>g, <1>3, GotoType DEF ResetAttempts, RetryCount, PCs
  <2>q. QED
    BY <1>0, <1>3, <2>1
       DEF ResetAttempts, RetryCount, RowTypeOK, rowVars, procVars, aux, bounds
<1>4. ASSUME NEW t \in Threads, Dispatch(t) PROVE Good'
  <2>1. th' \in [Threads -> Goroutine] /\ CarriedInv'
    BY <1>0, <1>g, <1>4, GotoType DEF Dispatch, PCs
  <2>q. QED
    BY <1>0, <1>c, <1>4, <2>1 DEF Dispatch, RowTypeOK, procVars, aux, bounds
<1>5. ASSUME NEW t \in Threads, Launch(t) PROVE Good'
  <2>1. PICK p \in Procs :
            /\ lane' = [lane EXCEPT ![p] = th[t].ph]
            /\ th' = [th EXCEPT ![t].pc = "register", ![t].proc = p]
    BY <1>5 DEF Launch
  <2>2. th' \in [Threads -> Goroutine]
    <3>1. [th[t] EXCEPT !.pc = "register", !.proc = p] \in Goroutine
      BY <1>0 DEF RowTypeOK, Goroutine, PCs
    <3>2. th' = [th EXCEPT ![t] = [th[t] EXCEPT !.pc = "register",
                                                !.proc = p]]
      BY <2>1
    <3>q. QED
      BY <1>0, <3>1, <3>2 DEF RowTypeOK
  <2>3. CarriedInv'
    BY <1>0, <2>1 DEF RowTypeOK, CarriedInv, At, Goroutine
  <2>4. lane' \in [Procs -> Phases \cup {NoPhase}]
    BY <1>0, <1>g, <2>1 DEF RowTypeOK
  <2>q. QED
    BY <1>0, <1>5, <2>2, <2>3, <2>4 DEF Launch, RowTypeOK, rowVars, aux, bounds
<1>6. ASSUME NEW t \in Threads,
             LaunchFails(t) \/ RowGone(t) \/ StatementFails(t)
      PROVE  Good'
  <2>1. th' \in [Threads -> Goroutine] /\ CarriedInv'
    BY <1>0, <1>6, ReturnType DEF LaunchFails, RowGone, StatementFails
  <2>2. setback' \in BOOLEAN
    BY <1>0, <1>6 DEF LaunchFails, RowGone, StatementFails, RowTypeOK, aux
  <2>q. QED
    BY <1>0, <1>6, <2>1, <2>2 DEF LaunchFails, RowGone, StatementFails, RowTypeOK,
                            rowVars, procVars, aux, bounds
<1>7. ASSUME NEW t \in Threads, Register(t) PROVE Good'
  <2>1. th' \in [Threads -> Goroutine] /\ CarriedInv'
    BY <1>0, <1>7, ReturnType DEF Register
  <2>q. QED
    BY <1>0, <1>7, <2>1 DEF Register, RowTypeOK, rowVars, aux, bounds
<1>8. ASSUME NEW t \in Threads, Authorize(t) PROVE Good'
  <2>1. th' \in [Threads -> Goroutine] /\ CarriedInv'
    BY <1>0, <1>g, <1>8, GotoType, ReturnType DEF Authorize, PCs
  <2>2. spent' \subseteq Procs
    <3>1. th[t].who \in Procs
      BY <1>0, <1>8 DEF Authorize, WithRow, CarriedInv
    <3>q. QED
      BY <1>0, <1>8, <3>1 DEF Authorize, RowTypeOK
  <2>q. QED
    BY <1>0, <1>8, <2>1, <2>2
       DEF Authorize, RowTypeOK, rowVars, aux, bounds
<1>9. ASSUME NEW t \in Threads, MarkCompleted(t) PROVE Good'
  <2>1. th' \in [Threads -> Goroutine] /\ CarriedInv'
    BY <1>0, <1>9, GotoType, ReturnType DEF MarkCompleted, PCs
  <2>q. QED
    BY <1>0, <1>c, <1>9, <2>1 DEF MarkCompleted, RowTypeOK, procVars, aux, bounds
<1>10. ASSUME NEW t \in Threads, AdvanceFind(t) PROVE Good'
  <2> DEFINE next == NextPhase(life.phase)
  <2>1. CASE IsTerminal(life.phase) \/ next = "done"
    <3>1. th' \in [Threads -> Goroutine] /\ CarriedInv'
      BY <1>0, <1>10, <2>1, GotoType DEF AdvanceFind, PCs
    <3>q. QED
      BY <1>0, <1>10, <3>1
         DEF AdvanceFind, RowTypeOK, rowVars, procVars, aux, bounds
  <2>2. CASE ~IsTerminal(life.phase) /\ next # "done"
    <3>1. next \in Lanes
      BY <1>l, <2>2, NextIsPhase DEF Lanes, IsTerminal
    <3>2. Goto(t, "advance", next)
      BY <1>10, <2>2 DEF AdvanceFind
    <3> HIDE DEF next
    <3>3. th' \in [Threads -> Goroutine] /\ CarriedInv'
      BY <1>0, <1>p, <3>1, <3>2, GotoType DEF PCs
    <3>q. QED
      BY <1>0, <1>10, <3>3
         DEF AdvanceFind, RowTypeOK, rowVars, procVars, aux, bounds
  <2>q. QED
    BY <2>1, <2>2
<1>11. ASSUME NEW t \in Threads,
              Terminal(t) \/ Finish(t) \/ PauseUpdate(t) \/ Fail(t)
       PROVE  Good'
  <2>1. th' \in [Threads -> Goroutine] /\ CarriedInv'
    BY <1>0, <1>11, ReturnType DEF Terminal, Finish, PauseUpdate, Fail
  <2>q. QED
    BY <1>0, <1>c, <1>11, <2>1 DEF Terminal, Finish, PauseUpdate, Fail,
                                   RowTypeOK, procVars, aux, bounds
<1>12. ASSUME NEW t \in Threads, Advance(t) \/ Reopen(t) PROVE Good'
  <2>1. th[t].ph \in Lanes
    BY <1>0, <1>12 DEF Advance, Reopen, WithRow, At, CarriedInv
  <2>2. th' \in [Threads -> Goroutine] /\ CarriedInv'
    BY <1>0, <1>g, <1>12, GotoType DEF Advance, Reopen, PCs
  <2>q. QED
    BY <1>0, <1>c, <1>12, <2>1, <2>2
       DEF Advance, Reopen, RowTypeOK, procVars, aux, bounds
<1>13. ASSUME NEW t \in Threads, ReopenAuthorize(t) \/ ReopenFind(t)
       PROVE  Good'
  <2>1. th[t].ph \in Lanes
    BY <1>0, <1>13 DEF ReopenAuthorize, ReopenFind, WithRow, At, CarriedInv
  <2>2. th' \in [Threads -> Goroutine] /\ CarriedInv'
    BY <1>0, <1>g, <1>13, <2>1, GotoType, ReturnType
       DEF ReopenAuthorize, ReopenFind, PCs
  <2>3. spent' \subseteq Procs
    <3>1. {th[t].who} \ {NoProc} \subseteq Procs
      BY <1>0 DEF RowTypeOK, Goroutine
    <3>q. QED
      BY <1>0, <1>13, <3>1 DEF ReopenAuthorize, ReopenFind, RowTypeOK, procVars
  <2>q. QED
    BY <1>0, <1>13, <2>2, <2>3
       DEF ReopenAuthorize, ReopenFind, RowTypeOK, rowVars, procVars, aux, bounds
<1>14. ASSUME NEW t \in Threads, UserStep(t) PROVE Good'
  <2>1. PICK op \in {"complete", "reopen", "pause", "resume", "restart",
                     "delete"},
             pc \in {"mark", "reopenFind", "pauseKill", "reset", "deleteKill"},
             ph \in Phases \cup {NoPhase} :
            Ask(t, op, pc, ph) /\ (pc = "reopenFind" => ph \in Lanes)
    BY <1>14, <1>l, <1>p
       DEF UserStep, UserComplete, UserReopen, UserPause, UserResume,
           UserRestart, UserDelete
  <2>2. Serve(t, pc, ph, NoProc)
    BY <2>1 DEF Ask
  <2>3. th' \in [Threads -> Goroutine] /\ CarriedInv'
    BY <1>0, <2>1, <2>2, ServeType DEF PCs
  <2>4. table' \in {"empty", "live", "deleted"}
    BY <1>0, <1>14 DEF UserStep, UserComplete, UserReopen, UserPause,
                       UserResume, UserRestart, UserDelete, RowTypeOK
  <2>q. QED
    BY <1>0, <2>1, <2>3, <2>4 DEF Ask, RowTypeOK, procVars
<1>15. ASSUME NEW t \in Threads, Kill(t) PROVE Good'
  <2>1. registry[Task] \in Procs \cup {NoProc}
    BY <1>0 DEF H!HarnessTypeOK, NoProc
  <2>2. th' \in [Threads -> Goroutine] /\ CarriedInv'
    BY <1>0, <1>15, <2>1 DEF Kill, RowTypeOK, CarriedInv, Goroutine, PCs, At
  <2>q. QED
    BY <1>0, <1>15, <2>2 DEF Kill, RowTypeOK, rowVars, aux, bounds
<1>16. ASSUME NEW t \in Threads, Signal(t) PROVE Good'
  <2>1. th' \in [Threads -> Goroutine] /\ CarriedInv'
    BY <1>0, <1>16
       DEF Signal, RowTypeOK, CarriedInv, Goroutine, PCs, At, Idle
  <2>q. QED
    BY <1>0, <1>16, <2>1 DEF Signal, RowTypeOK, rowVars, aux, bounds
<1>17. ASSUME NEW p \in Procs, HarnessCall(p) PROVE Good'
  <2>1. PICK t \in Threads : CallComplete(t, p) \/ CallReopen(t, p)
    BY <1>17 DEF HarnessCall
  <2>2. lane[p] \in Phases \cup {NoPhase}
    BY <1>0 DEF RowTypeOK
  <2>3. th' \in [Threads -> Goroutine] /\ CarriedInv'
    <3>1. CASE CallComplete(t, p)
      BY <1>0, <2>2, <3>1, ServeType DEF CallComplete, PCs
    <3>2. CASE CallReopen(t, p)
      <4>1. PICK target \in Lanes : Serve(t, "reopenAuth", target, p)
        BY <3>2 DEF CallReopen
      <4>q. QED
        BY <1>0, <1>p, <4>1, ServeType DEF PCs
    <3>q. QED
      BY <2>1, <3>1, <3>2
  <2>q. QED
    BY <1>0, <2>1, <2>3
       DEF CallComplete, CallReopen, RowTypeOK, rowVars, procVars, aux, bounds
<1>18. ASSUME NEW p \in Procs, HarnessExit(p) PROVE Good'
  <2>1. lane' \in [Procs -> Phases \cup {NoPhase}] /\ spent' \subseteq Procs
    BY <1>0, <1>18, ForgetType DEF HarnessExit, Exit, RowTypeOK
  <2>2. late' \in Nat /\ faults' \in Nat
    BY <1>0, <1>18 DEF HarnessExit, Exit, RowTypeOK
  <2>q. QED
    BY <1>0, <1>18, <2>1, <2>2
       DEF HarnessExit, Exit, RowTypeOK, CarriedInv, At, rowVars
<1>19. ASSUME NEW p \in Procs, Monitor(p) PROVE Good'
  <2>1. lane[p] \in Phases \cup {NoPhase}
    BY <1>0 DEF RowTypeOK
  <2>2. th' \in [Threads -> Goroutine] /\ CarriedInv'
    <3>1. CASE th' = th
      BY <1>0, <3>1 DEF RowTypeOK, CarriedInv, At
    <3>2. CASE \E t \in Threads : Serve(t, "retryCount", lane[p], NoProc)
      BY <1>0, <2>1, <3>2, ServeType DEF PCs
    <3>q. QED
      BY <1>19, <3>1, <3>2 DEF Monitor
  <2>3. lane' \in [Procs -> Phases \cup {NoPhase}] /\ spent' \subseteq Procs
    BY <1>0, <1>19, ForgetType DEF Monitor, RowTypeOK
  <2>4. setback' \in BOOLEAN
    BY <1>19 DEF Monitor
  <2>q. QED
    BY <1>0, <1>19, <2>2, <2>3, <2>4 DEF Monitor, RowTypeOK, rowVars, bounds
<1>20. ASSUME Stop PROVE Good'
  <2>1. Idle \in Goroutine
    BY DEF Idle, Goroutine, PCs
  <2>2. th' \in [Threads -> Goroutine] /\ CarriedInv'
    BY <1>20, <2>1 DEF Stop, CarriedInv, At, Idle
  <2>3. lane' \in [Procs -> Phases \cup {NoPhase}] /\ spent' \subseteq Procs
    BY <1>0, <1>20, ForgetType DEF Stop
  <2>q. QED
    BY <1>0, <1>20, <2>2, <2>3 DEF Stop, RowTypeOK, rowVars
<1>21. CASE UNCHANGED vars
  BY <1>0, <1>21 DEF vars, RowTypeOK, CarriedInv, At, rowVars, procVars, aux,
                     bounds
<1>q. QED
  BY <1>1, <1>2, <1>3, <1>4, <1>5, <1>6, <1>7, <1>8, <1>9, <1>10, <1>11,
     <1>12, <1>13, <1>14, <1>15, <1>16, <1>17, <1>18, <1>19, <1>20, <1>21
     DEF Next, Step

\* A step that leaves the row alone and the other goroutines where they are,
\* and does not take its own goroutine off a dispatch, keeps PendingIsPickedUp.
LEMMA PickingStays ==
  ASSUME PendingIsPickedUp, NEW t \in Threads, UNCHANGED << rowVars, faults, stops >>,
         \A u \in Threads \ {t} : th'[u] = th[u],
         Picking(t) => Picking(t)'
  PROVE  PendingIsPickedUp'
BY DEF PendingIsPickedUp, AtAny, Picking, Live, rowVars

\* Who makes a task pending goes on to dispatch it, and only a dispatch that
\* is done or has failed takes a goroutine off that way.
LEMMA PickedUpStep ==
  KanbanInv /\ [Next]_vars => PendingIsPickedUp'
<1> SUFFICES ASSUME KanbanInv, [Next]_vars PROVE PendingIsPickedUp'
  OBVIOUS
<1>0. /\ PendingIsPickedUp /\ th \in [Threads -> Goroutine]
      /\ faults \in Nat /\ stops \in Nat
  BY DEF KanbanInv, TypeOK
<1>1. ASSUME NEW t \in Threads, Create(t) \/ Advance(t) \/ Reopen(t)
      PROVE  PendingIsPickedUp'
  <2>1. th'[t].pc \in {"start", "reset"}
    BY <1>0, <1>1 DEF Create, Advance, Reopen, Serve, Goto, Goroutine, Idle
  <2>q. QED
    BY <2>1 DEF PendingIsPickedUp, AtAny
<1>2. ASSUME NEW t \in Threads,
             Dispatch(t) \/ MarkCompleted(t) \/ Terminal(t) \/ Finish(t)
             \/ PauseUpdate(t) \/ Fail(t)
      PROVE  PendingIsPickedUp'
  <2>1. \/ life' = Dispatched(life) \/ life' = MarkedCompleted(life)
        \/ life' = Finished(life) \/ life' = Paused(life)
        \/ life' = Failed(life)
    BY <1>2 DEF Dispatch, MarkCompleted, Terminal, Finish, PauseUpdate, Fail
  <2>2. life \in Life
    BY DEF KanbanInv, TypeOK
  <2>3. /\ Dispatched(life).status # "pending"
        /\ MarkedCompleted(life).status # "pending"
        /\ Finished(life).status # "pending"
        /\ Paused(life).status # "pending"
        /\ Failed(life).status # "pending"
    BY <2>2, ClosureStatuses
  <2>4. life'.status # "pending"
    BY <2>1, <2>3
  <2>q. QED
    BY <2>4 DEF PendingIsPickedUp
<1>3. ASSUME NEW t \in Threads,
             StartFlow(t) \/ ResetAttempts(t) \/ RetryCount(t) \/ Backoff(t)
      PROVE  PendingIsPickedUp'
  <2>1. \A u \in Threads \ {t} : th'[u] = th[u]
    BY <1>0, <1>3 DEF StartFlow, ResetAttempts, RetryCount, Backoff, Goto
  <2>2. Picking(t) => Picking(t)'
    BY <1>0, <1>3 DEF StartFlow, ResetAttempts, RetryCount, Backoff, Goto, At,
                      WithRow, Picking, Goroutine
  <2>q. QED
    BY <1>0, <1>3, <2>1, <2>2, PickingStays
       DEF StartFlow, ResetAttempts, RetryCount, Backoff, aux, bounds
<1>4. ASSUME NEW t \in Threads,
             Launch(t) \/ Register(t) \/ Authorize(t) \/ AdvanceFind(t)
             \/ ReopenAuthorize(t) \/ ReopenFind(t)
      PROVE  PendingIsPickedUp'
  <2>1. \A u \in Threads \ {t} : th'[u] = th[u]
    BY <1>0, <1>4 DEF Launch, Register, Authorize, AdvanceFind,
                      ReopenAuthorize, ReopenFind, Goto, Return
  <2>2. ~Picking(t)
    BY <1>4 DEF Launch, Register, Authorize, AdvanceFind, ReopenAuthorize,
                ReopenFind, At, WithRow, Picking
  <2>q. QED
    BY <1>0, <1>4, <2>1, <2>2, PickingStays
       DEF Launch, Register, Authorize, AdvanceFind, ReopenAuthorize,
           ReopenFind, aux, bounds
<1>5. ASSUME NEW t \in Threads, Kill(t) \/ Signal(t) PROVE PendingIsPickedUp'
  <2>1. \A u \in Threads \ {t} : th'[u] = th[u]
    BY <1>0, <1>5 DEF Kill, Signal
  <2>2. ~Picking(t)
    BY <1>5 DEF Kill, Signal, Picking
  <2>q. QED
    BY <1>0, <1>5, <2>1, <2>2, PickingStays DEF Kill, Signal, aux, bounds
<1>6. ASSUME NEW t \in Threads, RowGone(t) PROVE PendingIsPickedUp'
  BY <1>6 DEF RowGone, PendingIsPickedUp, Live, rowVars
<1>7. ASSUME NEW t \in Threads, StatementFails(t) \/ LaunchFails(t)
      PROVE  PendingIsPickedUp'
  BY <1>0, <1>7 DEF StatementFails, LaunchFails, PendingIsPickedUp
<1>8. ASSUME NEW t \in Threads, UserStep(t) PROVE PendingIsPickedUp'
  <2>1. CASE UserDelete(t)
    BY <2>1 DEF UserDelete, PendingIsPickedUp, Live
  <2>2. CASE ~UserDelete(t)
    <3>1. PICK pc, ph, op : pc \in PCs /\ Ask(t, op, pc, ph)
      BY <1>8 DEF UserStep, UserComplete, UserReopen, UserPause, UserResume,
                  UserRestart, UserDelete, PCs
    <3>2. UNCHANGED << rowVars, faults, stops >>
      BY <1>8, <2>2, <3>1
         DEF UserStep, UserComplete, UserReopen, UserPause, UserResume,
             UserRestart, Ask, rowVars
    <3>3. \A u \in Threads \ {t} : th'[u] = th[u]
      BY <1>0, <3>1 DEF Ask, Serve
    <3>4. ~Picking(t)
      BY <3>1 DEF Ask, Serve, At, Picking
    <3>q. QED
      BY <1>0, <3>2, <3>3, <3>4, PickingStays
  <2>q. QED
    BY <2>1, <2>2
<1>9. ASSUME NEW p \in Procs, HarnessCall(p) PROVE PendingIsPickedUp'
  <2>1. PICK t \in Threads : CallComplete(t, p) \/ CallReopen(t, p)
    BY <1>9 DEF HarnessCall
  <2>2. \A u \in Threads \ {t} : th'[u] = th[u]
    BY <1>0, <2>1 DEF CallComplete, CallReopen, Serve
  <2>3. ~Picking(t)
    BY <2>1 DEF CallComplete, CallReopen, Serve, At, Picking
  <2>q. QED
    BY <1>0, <2>1, <2>2, <2>3, PickingStays
       DEF CallComplete, CallReopen, aux, bounds
<1>10. ASSUME NEW p \in Procs, HarnessExit(p) PROVE PendingIsPickedUp'
  <2>1. faults' = 0 => faults = 0
    BY <1>0, <1>10 DEF HarnessExit, Exit
  <2>q. QED
    BY <1>0, <1>10, <2>1 DEF HarnessExit, Exit, PendingIsPickedUp, AtAny, Live,
                             rowVars
<1>11. ASSUME NEW p \in Procs, Monitor(p) PROVE PendingIsPickedUp'
  <2>1. CASE th' = th
    BY <1>0, <1>11, <2>1
       DEF Monitor, PendingIsPickedUp, AtAny, Live, rowVars, aux, bounds
  <2>2. CASE \E t \in Threads : Serve(t, "retryCount", lane[p], NoProc)
    <3>1. PICK t \in Threads : Serve(t, "retryCount", lane[p], NoProc)
      BY <2>2
    <3>2. \A u \in Threads \ {t} : th'[u] = th[u]
      BY <1>0, <3>1 DEF Serve
    <3>3. ~Picking(t)
      BY <3>1 DEF Serve, At, Picking
    <3>q. QED
      BY <1>0, <1>11, <3>2, <3>3, PickingStays DEF Monitor, aux, bounds
  <2>q. QED
    BY <1>11, <2>1, <2>2 DEF Monitor
<1>12. ASSUME Stop PROVE PendingIsPickedUp'
  BY <1>0, <1>12 DEF Stop, PendingIsPickedUp
<1>13. CASE UNCHANGED vars
  BY <1>0, <1>13 DEF vars, PendingIsPickedUp, AtAny, Live, rowVars, aux, bounds
<1>q. QED
  BY <1>1, <1>2, <1>3, <1>4, <1>5, <1>6, <1>7, <1>8, <1>9, <1>10, <1>11,
     <1>12, <1>13
     DEF Next, Step

\* Goroutine t will take a completed task to its next lane.
Handing(t) == th[t].pc \in {"advFind", "advance", "finish"}

\* A step that leaves the row alone and the other goroutines where they are,
\* and does not take its own goroutine off a hand-over, keeps the task on its
\* way.
LEMMA HandingStays ==
  ASSUME CompletedIsHandedOver, NEW t, UNCHANGED << rowVars, stranded, stops >>,
         faults' = 0 => faults = 0,
         \A u \in Threads \ {t} : th'[u] = th[u],
         t \in Threads /\ Handing(t) => Handing(t)'
  PROVE  CompletedIsHandedOver'
BY DEF CompletedIsHandedOver, AtAny, Handing, Live, rowVars

\* Whoever marks a phase completed goes on to advance the task, whatever others
\* do to it meanwhile, and who is on that way leaves it by moving the task.
LEMMA HandedOverStep ==
  KanbanInv /\ [Next]_vars => CompletedIsHandedOver'
<1> SUFFICES ASSUME KanbanInv, [Next]_vars PROVE CompletedIsHandedOver'
  OBVIOUS
<1>0. /\ CompletedIsHandedOver /\ th \in [Threads -> Goroutine]
      /\ life \in Life /\ faults \in Nat /\ stops \in Nat
  BY DEF KanbanInv, TypeOK
<1>a. (life'.status # "completed" \/ life'.phase = "done") =>
          CompletedIsHandedOver'
  BY DEF CompletedIsHandedOver
<1>1. ASSUME NEW t \in Threads, Create(t) \/ Dispatch(t) \/ Advance(t)
                                \/ Reopen(t) \/ Fail(t) \/ PauseUpdate(t)
      PROVE  CompletedIsHandedOver'
  <2>1. CASE Create(t)
    BY <1>a, <2>1 DEF Create, FreshLife
  <2>2. CASE Dispatch(t) \/ Fail(t) \/ PauseUpdate(t)
    BY <1>0, <1>a, <2>2, ClosureStatuses DEF Dispatch, Fail, PauseUpdate
  <2>3. CASE Advance(t) \/ Reopen(t)
    <3>1. life'.status = "pending"
      BY <1>0, <2>3 DEF Advance, AdvancedTo, Reopen, ReopenedTo, Life
    <3>q. QED
      BY <1>a, <3>1
  <2>q. QED
    BY <1>1, <2>1, <2>2, <2>3
<1>2. ASSUME NEW t \in Threads, MarkCompleted(t) PROVE CompletedIsHandedOver'
  <2>1. CASE th[t].ph \in Lanes
    BY <1>0, <1>2, <2>1
       DEF MarkCompleted, Goto, Goroutine, CompletedIsHandedOver, AtAny
  <2>2. CASE th[t].ph \notin Lanes
    BY <1>2, <2>2 DEF MarkCompleted, CompletedIsHandedOver
  <2>q. QED
    BY <2>1, <2>2
<1>3. ASSUME NEW t \in Threads, Terminal(t) \/ Finish(t)
      PROVE  CompletedIsHandedOver'
  <2>1. CASE Finish(t)
    BY <1>0, <1>a, <2>1 DEF Finish, Finished, Life
  <2>2. CASE Terminal(t) /\ IsTerminal(life.phase)
    BY <1>0, <1>a, <2>2 DEF Terminal, MarkedCompleted, IsTerminal, Life
  <2>3. CASE Terminal(t) /\ ~IsTerminal(life.phase)
    BY <2>3 DEF Terminal, CompletedIsHandedOver
  <2>q. QED
    BY <1>3, <2>1, <2>2, <2>3
<1>4. ASSUME NEW t \in Threads, AdvanceFind(t) PROVE CompletedIsHandedOver'
  <2>1. CASE IsTerminal(life.phase)
    BY <1>4, <1>a, <2>1 DEF AdvanceFind, rowVars, IsTerminal
  <2>2. CASE ~IsTerminal(life.phase)
    <3>1. th'[t].pc \in {"advance", "finish"}
      BY <1>0, <1>4, <2>2 DEF AdvanceFind, Goto, Goroutine
    <3>q. QED
      BY <3>1 DEF CompletedIsHandedOver, AtAny
  <2>q. QED
    BY <2>1, <2>2
<1>5. ASSUME NEW t \in Threads,
             StartFlow(t) \/ ResetAttempts(t) \/ RetryCount(t) \/ Backoff(t)
             \/ Launch(t) \/ Register(t) \/ Authorize(t)
             \/ ReopenAuthorize(t) \/ ReopenFind(t) \/ Kill(t) \/ Signal(t)
      PROVE  CompletedIsHandedOver'
  <2>1. \A u \in Threads \ {t} : th'[u] = th[u]
    BY <1>0, <1>5 DEF StartFlow, ResetAttempts, RetryCount, Backoff, Launch,
         Register, Authorize, ReopenAuthorize, ReopenFind, Kill, Signal, Goto,
         Return
  <2>2. ~Handing(t)
    BY <1>5 DEF StartFlow, ResetAttempts, RetryCount, Backoff, Launch,
         Register, Authorize, ReopenAuthorize, ReopenFind, Kill, Signal,
         WithRow, At, Handing
  <2>3. UNCHANGED << rowVars, stranded, faults, stops >>
    BY <1>5 DEF StartFlow, ResetAttempts, RetryCount, Backoff, Launch,
         Register, Authorize, ReopenAuthorize, ReopenFind, Kill, Signal, aux,
         bounds
  <2>q. QED
    BY <1>0, <2>1, <2>2, <2>3, HandingStays
<1>6. ASSUME NEW t \in Threads,
             RowGone(t) \/ StatementFails(t) \/ LaunchFails(t)
      PROVE  CompletedIsHandedOver'
  BY <1>0, <1>6 DEF RowGone, StatementFails, LaunchFails,
                    CompletedIsHandedOver, Live, rowVars
<1>7. ASSUME NEW t \in Threads, UserStep(t) PROVE CompletedIsHandedOver'
  <2>1. CASE UserDelete(t)
    BY <2>1 DEF UserDelete, CompletedIsHandedOver, Live
  <2>2. CASE ~UserDelete(t)
    <3>1. PICK pc, ph, op : Ask(t, op, pc, ph)
      BY <1>7 DEF UserStep, UserComplete, UserReopen, UserPause, UserResume,
                  UserRestart, UserDelete
    <3>2. UNCHANGED << rowVars, stranded, faults, stops >>
      BY <1>7, <2>2, <3>1
         DEF UserStep, UserComplete, UserReopen, UserPause, UserResume,
             UserRestart, Ask, rowVars
    <3>3. \A u \in Threads \ {t} : th'[u] = th[u]
      BY <1>0, <3>1 DEF Ask, Serve
    <3>4. ~Handing(t)
      BY <3>1 DEF Ask, Serve, At, Handing
    <3>q. QED
      BY <1>0, <3>2, <3>3, <3>4, HandingStays
  <2>q. QED
    BY <2>1, <2>2
<1>8. ASSUME NEW p \in Procs, HarnessCall(p) PROVE CompletedIsHandedOver'
  <2>1. PICK t \in Threads : CallComplete(t, p) \/ CallReopen(t, p)
    BY <1>8 DEF HarnessCall
  <2>2. \A u \in Threads \ {t} : th'[u] = th[u]
    BY <1>0, <2>1 DEF CallComplete, CallReopen, Serve
  <2>3. ~Handing(t)
    BY <2>1 DEF CallComplete, CallReopen, Serve, At, Handing
  <2>q. QED
    BY <1>0, <2>1, <2>2, <2>3, HandingStays
       DEF CallComplete, CallReopen, aux, bounds
<1>9. ASSUME NEW p \in Procs, HarnessExit(p) PROVE CompletedIsHandedOver'
  <2>1. faults' = 0 => faults = 0
    BY <1>0, <1>9 DEF HarnessExit, Exit
  <2>2. UNCHANGED << th, rowVars, stranded, stops >>
    BY <1>9 DEF HarnessExit, Exit
  <2>q. QED
    BY <1>0, <2>1, <2>2, HandingStays DEF Handing
<1>10. ASSUME NEW p \in Procs, Monitor(p) PROVE CompletedIsHandedOver'
  <2>0. UNCHANGED << rowVars, stranded, faults, stops >>
    BY <1>10 DEF Monitor, bounds
  <2>1. CASE th' = th
    BY <1>0, <2>0, <2>1, HandingStays DEF Handing
  <2>2. CASE \E t \in Threads : Serve(t, "retryCount", lane[p], NoProc)
    <3>1. PICK t \in Threads : Serve(t, "retryCount", lane[p], NoProc)
      BY <2>2
    <3>2. \A u \in Threads \ {t} : th'[u] = th[u]
      BY <1>0, <3>1 DEF Serve
    <3>3. ~Handing(t)
      BY <3>1 DEF Serve, At, Handing
    <3>q. QED
      BY <1>0, <2>0, <3>2, <3>3, HandingStays
  <2>q. QED
    BY <1>10, <2>1, <2>2 DEF Monitor
<1>11. ASSUME Stop PROVE CompletedIsHandedOver'
  BY <1>0, <1>11 DEF Stop, CompletedIsHandedOver
<1>12. CASE UNCHANGED vars
  BY <1>0, <1>12, HandingStays DEF vars, aux, bounds, Handing
<1>q. QED
  BY <1>1, <1>2, <1>3, <1>4, <1>5, <1>6, <1>7, <1>8, <1>9, <1>10, <1>11, <1>12
     DEF Next, Step

\* Every step keeps the invariant.
LEMMA KanbanInvStep == KanbanInv /\ [Next]_vars => KanbanInv'
<1> SUFFICES ASSUME KanbanInv, [Next]_vars PROVE KanbanInv'
  OBVIOUS
<1>1. AdapterInv'
  BY AdapterStep, AdapterInvStep DEF KanbanInv
<1>2. /\ RowTypeOK' /\ CarriedInv'
      /\ PendingIsPickedUp' /\ CompletedIsHandedOver'
  BY RowTypeStep, PickedUpStep, HandedOverStep
<1>q. QED
  BY <1>1, <1>2 DEF KanbanInv, AdapterInv, TypeOK, RowTypeOK

-----------------------------------------------------------------------------
\* KanbanInv holds in every run of the orchestrator and its harnesses.
THEOREM KanbanInvariance == Spec => []KanbanInv
<1>q. QED
  BY InitInv, KanbanInvStep, PTL DEF Spec

\* The variables keep their types: an advance or a reopen never leaves a task
\* in a lane that does not exist, and a goroutine registers a command only.
THEOREM KanbanTypeCorrect == Spec => []TypeOK
<1>1. KanbanInv => TypeOK
  BY DEF KanbanInv
<1>q. QED
  BY KanbanInvariance, <1>1, PTL

\* However many goroutines and commands there are and whatever users and
\* harnesses ask for, a pending task has a goroutine about to dispatch it,
\* unless a statement or a start of a command has failed.
THEOREM NoCardWaits == Spec => []PendingIsPickedUp
<1>1. KanbanInv => PendingIsPickedUp
  BY DEF KanbanInv
<1>q. QED
  BY KanbanInvariance, <1>1, PTL

\* The registry names only commands of the task whose monitor is running.
THEOREM KillsTheRightCommand == Spec => []RegistryIsLive
<1>1. KanbanInv => RegistryIsLive
  BY DEF KanbanInv, AdapterInv
<1>q. QED
  BY KanbanInvariance, <1>1, PTL

\* A running command that did not share the task with another one is found by
\* a pause or a deletion, whatever the orchestrator did before.
THEOREM WorkersCanBeKilled == Spec => []RunningIsKillable
<1>1. KanbanInv => RunningIsKillable
  BY DEF KanbanInv, AdapterInv
<1>q. QED
  BY KanbanInvariance, <1>1, PTL

\* The command a pause or a deletion took down is not retried, unless it shared
\* the task with another one.
THEOREM KilledIsExcused == Spec => []KillIsNoFailure
<1>1. KanbanInv => KillIsNoFailure
  BY DEF KanbanInv, AdapterInv
<1>q. QED
  BY KanbanInvariance, <1>1, PTL

\* A completed task that is not in the last lane has a goroutine that takes it
\* to the next one, whatever users ask for and however calls overlap, unless
\* its completion named no lane or came to a task reopened meanwhile, or a
\* statement failed or the server stopped.
THEOREM CompletedMovesOn == Spec => []CompletedIsHandedOver
<1>1. KanbanInv => CompletedIsHandedOver
  BY DEF KanbanInv
<1>q. QED
  BY KanbanInvariance, <1>1, PTL

-----------------------------------------------------------------------------
(* What drives a task                                                       *)

\* Goroutine t will move the task, dispatch it, fail it or pause it.
Drives(t) == th[t].pc \notin {"idle", "authorize", "reopenAuth", "reopenFind",
                              "register", "deleteKill", "deleteSignal"}

\* Command p has its phase still to finalize, and its end will be noticed.
Works(p) == /\ os[p] # "absent" /\ ~H!Lost(p)
            /\ p \notin targets /\ p \notin spent
            /\ mon[p] # "unregister"

Resting == \/ life.status \in {"paused", "failed"}
           \/ life.phase = "done" /\ life.status = "completed"

Driven == (\E t \in Threads : Drives(t)) \/ (\E p \in Procs : Works(p))

\* The inductive form of InterruptedForACause, which speaks of the moment at
\* which nothing is under way: at every moment before it, a goroutine or a
\* command carries the duty to go on with the task.
DrivenInv ==
    /\ Live => Resting \/ setback \/ Driven
    /\ \A t \in Threads :
           th[t].pc \in {"deleteKill", "deleteSignal"} => ~Live /\ table # "empty"

\* Nobody's duty ends and the row stays.
LEMMA DutyStays ==
  ASSUME DrivenInv, UNCHANGED rowVars, setback => setback',
         \A t \in Threads : Drives(t) => Drives(t)',
         \A p \in Procs : Works(p) => Works(p)'
  PROVE  Live' => Resting' \/ setback' \/ Driven'
BY DEF DrivenInv, Driven, Resting, Live, rowVars

\* Only a deletion kills for a deletion, and a deleted task stays deleted.
LEMMA DeletingStep ==
  ASSUME KanbanInv, DrivenInv, [Next]_vars
  PROVE  (\A t \in Threads :
             th[t].pc \in {"deleteKill", "deleteSignal"} =>
                 ~Live /\ table # "empty")'
<1> DEFINE Deleting(t) == th[t].pc \in {"deleteKill", "deleteSignal"}
           Gone == ~Live /\ table # "empty"
<1>0. /\ \A t \in Threads : Deleting(t) => Gone
      /\ th \in [Threads -> Goroutine]
  BY DEF DrivenInv, KanbanInv, TypeOK
<1> SUFFICES (\A t \in Threads : Deleting(t) => Gone)'
  OBVIOUS
<1>1. ASSUME NEW t \in Threads, UserStep(t)
      PROVE  (\A u \in Threads : Deleting(u) => Gone)'
  <2>1. CASE UserDelete(t)
    BY <2>1 DEF UserDelete, Live
  <2>2. CASE ~UserDelete(t)
    <3>1. \A u \in Threads : Deleting(u)' => Deleting(u)
      BY <1>0, <1>1, <2>2
         DEF UserStep, UserComplete, UserReopen, UserPause, UserResume,
             UserRestart, Ask, Serve, Idle
    <3>2. UNCHANGED table
      BY <1>1, <2>2 DEF UserStep, UserComplete, UserReopen, UserPause,
                        UserResume, UserRestart
    <3>q. QED
      BY <1>0, <3>1, <3>2 DEF Live
  <2>q. QED
    BY <2>1, <2>2
<1>2. ASSUME Gone => Gone', \A u \in Threads : Deleting(u)' => Deleting(u)
      PROVE  (\A u \in Threads : Deleting(u) => Gone)'
  BY <1>0, <1>2
<1>3. ASSUME NEW t \in Threads, Create(t)
      PROVE  (\A u \in Threads : Deleting(u) => Gone)'
  BY <1>0, <1>3 DEF Create, Serve, Idle
<1>4. ASSUME NEW t \in Threads,
             StartFlow(t) \/ ResetAttempts(t) \/ Dispatch(t) \/ Launch(t)
             \/ Register(t) \/ Authorize(t) \/ MarkCompleted(t)
             \/ AdvanceFind(t)
      PROVE  (\A u \in Threads : Deleting(u) => Gone)'
  <2>1. \A u \in Threads : Deleting(u)' => Deleting(u)
    BY <1>0, <1>4 DEF StartFlow, ResetAttempts, Dispatch, Launch, Register,
         Authorize, MarkCompleted, AdvanceFind, Goto, Return, Idle, Goroutine
  <2>q. QED
    BY <1>2, <1>4, <2>1
       DEF StartFlow, ResetAttempts, Dispatch, Launch, Register, Authorize,
           MarkCompleted, AdvanceFind, rowVars, Live
<1>5. ASSUME NEW t \in Threads,
             Terminal(t) \/ Finish(t) \/ Advance(t) \/ ReopenAuthorize(t)
             \/ ReopenFind(t) \/ Reopen(t) \/ PauseUpdate(t)
      PROVE  (\A u \in Threads : Deleting(u) => Gone)'
  <2>1. \A u \in Threads : Deleting(u)' => Deleting(u)
    BY <1>0, <1>5 DEF Terminal, Finish, Advance, ReopenAuthorize, ReopenFind,
                      Reopen, PauseUpdate, Goto, Return, Idle, Goroutine
  <2>q. QED
    BY <1>2, <1>5, <2>1
       DEF Terminal, Finish, Advance, ReopenAuthorize, ReopenFind, Reopen,
           PauseUpdate, rowVars, Live
<1>6. ASSUME NEW t \in Threads,
             RetryCount(t) \/ Fail(t) \/ Backoff(t) \/ RowGone(t)
             \/ StatementFails(t) \/ LaunchFails(t)
      PROVE  (\A u \in Threads : Deleting(u) => Gone)'
  <2>1. \A u \in Threads : Deleting(u)' => Deleting(u)
    BY <1>0, <1>6 DEF RetryCount, Fail, Backoff, RowGone, StatementFails,
                      LaunchFails, Goto, Return, Idle, Goroutine
  <2>q. QED
    BY <1>2, <1>6, <2>1 DEF RetryCount, Fail, Backoff, RowGone, StatementFails,
                            LaunchFails, rowVars, Live
<1>7. ASSUME NEW t \in Threads, Kill(t) \/ Signal(t)
      PROVE  (\A u \in Threads : Deleting(u) => Gone)'
  <2>1. \A u \in Threads : Deleting(u)' => Deleting(u)
    BY <1>0, <1>7 DEF Kill, Signal, Idle, Goroutine
  <2>q. QED
    BY <1>2, <1>7, <2>1 DEF Kill, Signal, rowVars, Live
<1>8. ASSUME NEW p \in Procs, HarnessCall(p) \/ HarnessExit(p) \/ Monitor(p)
      PROVE  (\A u \in Threads : Deleting(u) => Gone)'
  <2>1. \A u \in Threads : Deleting(u)' => Deleting(u)
    BY <1>0, <1>8 DEF HarnessCall, HarnessExit, Monitor, CallComplete,
                      CallReopen, Exit, Serve, Idle
  <2>q. QED
    BY <1>2, <1>8, <2>1 DEF HarnessCall, HarnessExit, Monitor, CallComplete,
                            CallReopen, Exit, rowVars, Live
<1>9. ASSUME Stop PROVE (\A u \in Threads : Deleting(u) => Gone)'
  BY <1>9 DEF Stop, Idle
<1>10. CASE UNCHANGED vars
  BY <1>0, <1>10 DEF vars, rowVars, Live
<1>q. QED
  BY <1>1, <1>3, <1>4, <1>5, <1>6, <1>7, <1>8, <1>9, <1>10 DEF Next, Step

\* Whoever gives up the duty hands it over, or the task rests, or one of the
\* listed causes has struck.
LEMMA DutyStep ==
  ASSUME KanbanInv, DrivenInv, [Next]_vars
  PROVE  Live' => Resting' \/ setback' \/ Driven'
<1> DEFINE Good == Live => Resting \/ setback \/ Driven
<1> SUFFICES Good'
  OBVIOUS
<1>0. /\ th \in [Threads -> Goroutine] /\ life \in Life /\ spent \subseteq Procs
      /\ H!HarnessTypeOK /\ OwnedInv /\ CarriedInv
  BY DEF KanbanInv, TypeOK, AdapterInv
<1>t. ASSUME NEW t \in Threads, th'[t].pc \notin
                 {"idle", "authorize", "reopenAuth", "reopenFind", "register",
                  "deleteKill", "deleteSignal"}
      PROVE  Good'
  BY <1>t DEF Driven, Drives
<1>1. ASSUME NEW t \in Threads,
             Create(t) \/ StartFlow(t) \/ ResetAttempts(t) \/ Dispatch(t)
             \/ AdvanceFind(t) \/ Advance(t) \/ Reopen(t) \/ RetryCount(t)
             \/ Backoff(t)
      PROVE  Good'
  <2>1. th'[t].pc \in {"start", "reset", "dispatch", "launch", "advance",
                       "finish", "terminal", "fail", "backoff"}
    BY <1>0, <1>1 DEF Create, StartFlow, ResetAttempts, Dispatch, AdvanceFind,
         Advance, Reopen, RetryCount, Backoff, Serve, Goto, Idle, Goroutine
  <2>q. QED
    BY <1>t, <2>1
<1>2. ASSUME NEW t \in Threads, Launch(t) PROVE Good'
  <2>1. PICK p \in Procs : H!Start(Task, p) /\ spent' = spent \ {p}
    BY <1>2 DEF Launch
  <2>2. os[p] = "absent" /\ mon[p] = "none" /\ p \notin targets
    BY <1>0, <2>1 DEF H!Start, H!Free, OwnedInv, H!HarnessTypeOK, H!MonStates
  <2>3. Works(p)'
    BY <1>0, <2>1, <2>2 DEF Works, H!Start, H!Lost, H!HarnessTypeOK
  <2>q. QED
    BY <2>3 DEF Driven
<1>3. ASSUME NEW t \in Threads, LaunchFails(t) \/ StatementFails(t) PROVE Good'
  BY <1>3 DEF LaunchFails, StatementFails
<1>4. ASSUME NEW t \in Threads,
             Terminal(t) \/ Finish(t) \/ Fail(t) \/ PauseUpdate(t)
      PROVE  Good'
  <2>1. CASE Fail(t) \/ PauseUpdate(t)
    BY <1>0, <2>1, ClosureStatuses DEF Fail, PauseUpdate, Resting
  <2>2. CASE Finish(t)
    BY <1>0, <2>2 DEF Finish, Finished, Resting, Life
  <2>3. CASE Terminal(t)
    <3>1. CASE IsTerminal(life.phase)
      BY <1>0, <2>3, <3>1
         DEF Terminal, MarkedCompleted, Resting, IsTerminal, Life
    <3>2. CASE ~IsTerminal(life.phase)
      BY <2>3, <3>2 DEF Terminal
    <3>q. QED
      BY <3>1, <3>2
  <2>q. QED
    BY <1>4, <2>1, <2>2, <2>3
<1>5. ASSUME NEW t \in Threads, MarkCompleted(t) PROVE Good'
  <2>1. CASE th[t].ph \in Lanes
    BY <1>0, <1>5, <1>t, <2>1 DEF MarkCompleted, Goto, Goroutine
  <2>2. CASE th[t].ph \notin Lanes
    BY <1>5, <2>2 DEF MarkCompleted
  <2>q. QED
    BY <2>1, <2>2
<1>6. ASSUME NEW t \in Threads, Authorize(t) \/ ReopenAuthorize(t)
                                \/ ReopenFind(t)
      PROVE  Good'
  <2>1. CASE th'[t].pc \in {"mark", "reopen"}
    BY <1>t, <2>1
  <2>2. CASE th'[t].pc \notin {"mark", "reopen"}
    <3>1. spent' = spent
      BY <1>0, <1>6, <2>2 DEF Authorize, ReopenAuthorize, ReopenFind, Goto,
                              Goroutine, procVars
    <3>2. \A u \in Threads : Drives(u) => Drives(u)'
      BY <1>0, <1>6 DEF Authorize, ReopenAuthorize, ReopenFind, Goto, Return,
                        Drives, WithRow, At
    <3>3. \A p \in Procs : Works(p) => Works(p)'
      BY <1>6, <3>1 DEF Authorize, ReopenAuthorize, ReopenFind, Works, H!Lost,
                        procVars, harnessVars
    <3>q. QED
      BY <1>6, <3>2, <3>3, DutyStays
         DEF Authorize, ReopenAuthorize, ReopenFind, aux
  <2>q. QED
    BY <2>1, <2>2
<1>7. ASSUME NEW t \in Threads, Register(t) PROVE Good'
  <2>1. \A u \in Threads : Drives(u) => Drives(u)'
    BY <1>0, <1>7 DEF Register, Return, Drives, At
  <2>2. \A p \in Procs : Works(p) => Works(p)'
    BY <1>0, <1>7 DEF Register, H!Register, Works, H!Lost, H!HarnessTypeOK
  <2>q. QED
    BY <1>7, <2>1, <2>2, DutyStays DEF Register, aux
<1>8. ASSUME NEW t \in Threads, Kill(t) PROVE Good'
  <2>1. CASE At(t, "pauseKill")
    BY <1>0, <1>8, <1>t, <2>1 DEF Kill, At, Goroutine
  <2>2. CASE At(t, "deleteKill")
    BY <1>8, <2>2 DEF Kill, At, DrivenInv, Live, rowVars
  <2>q. QED
    BY <1>8, <2>1, <2>2 DEF Kill, At
<1>9. ASSUME NEW t \in Threads, Signal(t) PROVE Good'
  <2>1. CASE At(t, "pauseSignal")
    BY <1>0, <1>9, <1>t, <2>1 DEF Signal, At, Goroutine, Idle
  <2>2. CASE At(t, "deleteSignal")
    BY <1>9, <2>2 DEF Signal, At, DrivenInv, Live, rowVars
  <2>q. QED
    BY <1>9, <2>1, <2>2 DEF Signal, At
<1>10. ASSUME NEW t \in Threads, RowGone(t) PROVE Good'
  BY <1>10 DEF RowGone, Live, rowVars
<1>11. ASSUME NEW t \in Threads, UserStep(t) PROVE Good'
  <2>1. CASE UserDelete(t)
    BY <2>1 DEF UserDelete, Live
  <2>2. CASE UserReopen(t)
    <3>1. UNCHANGED << rowVars, setback, procVars >>
      BY <2>2 DEF UserReopen, Ask, rowVars
    <3>2. \A u \in Threads : Drives(u) => Drives(u)'
      BY <1>0, <2>2 DEF UserReopen, Ask, Serve, Drives, At
    <3>3. \A p \in Procs : Works(p) => Works(p)'
      BY <3>1 DEF Works, H!Lost, procVars, harnessVars
    <3>q. QED
      BY <3>1, <3>2, <3>3, DutyStays
  <2>3. CASE UserComplete(t) \/ UserPause(t) \/ UserResume(t) \/ UserRestart(t)
    <3>1. th'[t].pc \in {"mark", "pauseKill", "reset"}
      BY <1>0, <2>3 DEF UserComplete, UserPause, UserResume, UserRestart, Ask,
                        Serve, Idle
    <3>q. QED
      BY <1>t, <3>1
  <2>q. QED
    BY <1>11, <2>1, <2>2, <2>3 DEF UserStep
<1>12. ASSUME NEW p \in Procs, HarnessCall(p) PROVE Good'
  <2>1. PICK t \in Threads : CallComplete(t, p) \/ CallReopen(t, p)
    BY <1>12 DEF HarnessCall
  <2>2. \A u \in Threads : Drives(u) => Drives(u)'
    BY <1>0, <2>1 DEF CallComplete, CallReopen, Serve, Drives, At
  <2>3. \A q \in Procs : Works(q) => Works(q)'
    BY <2>1 DEF CallComplete, CallReopen, Works, H!Lost, procVars, harnessVars
  <2>q. QED
    BY <2>1, <2>2, <2>3, DutyStays DEF CallComplete, CallReopen, aux
<1>13. ASSUME NEW p \in Procs, HarnessExit(p) PROVE Good'
  <2>1. PICK how \in {"clean", "dirty"} : Exit(p, how)
    BY <1>13 DEF HarnessExit
  <2>2. \A u \in Threads : Drives(u) => Drives(u)'
    BY <2>1 DEF Exit, Drives
  <2>3. \A q \in Procs : Works(q) => Works(q)'
    <3>1. CASE H!Exit(p, how) /\ UNCHANGED << lane, spent >>
      BY <1>0, <2>1, <3>1 DEF Exit, H!Exit, Works, H!Lost, H!HarnessTypeOK
    <3>2. CASE H!LostExit(p) /\ Forget({p})
      BY <1>0, <3>2 DEF H!LostExit, Forget, Works, H!Lost, H!HarnessTypeOK
    <3>q. QED
      BY <2>1, <3>1, <3>2 DEF Exit
  <2>q. QED
    BY <2>1, <2>2, <2>3, DutyStays DEF Exit, aux
<1>14. ASSUME NEW p \in Procs, Monitor(p) PROVE Good'
  <2>1. CASE H!Report(p) /\ \E t \in Threads :
                                Serve(t, "retryCount", lane[p], NoProc)
    BY <1>0, <1>t, <2>1 DEF Serve, Idle
  <2>2. CASE H!Unregister(p) /\ th' = th /\ Forget({p})
    <3>1. \A q \in Procs : Works(q) => Works(q)'
      BY <1>0, <2>2
         DEF H!Unregister, Forget, Works, H!Lost, H!HarnessTypeOK
    <3>2. ~EndsUnnoticed(p)
      BY <2>2 DEF H!Unregister, EndsUnnoticed, H!Excused, H!Reaped
    <3>q. QED
      BY <1>14, <2>2, <3>1, <3>2, DutyStays DEF Monitor, Drives
  <2>3. CASE (H!Excused(p) \/ H!Reaped(p)) /\ UNCHANGED << th, lane, spent >>
    <3>1. CASE EndsUnnoticed(p)
      BY <1>14, <3>1 DEF Monitor
    <3>2. CASE ~EndsUnnoticed(p)
      <4>1. ASSUME NEW q \in Procs, Works(q) PROVE Works(q)'
        <5>1. CASE q # p
          BY <1>0, <2>3, <4>1, <5>1
             DEF H!Excused, H!Reaped, Works, H!Lost, H!HarnessTypeOK
        <5>2. CASE q = p
          <6>1. H!Reaped(p) /\ os[p] = "dirty"
            BY <2>3, <3>2, <4>1, <5>2
               DEF EndsUnnoticed, Works, H!Reaped, H!Excused
          <6>q. QED
            BY <1>0, <2>3, <4>1, <5>2, <6>1
               DEF H!Reaped, Works, H!Lost, H!HarnessTypeOK
        <5>q. QED
          BY <5>1, <5>2
      <4>q. QED
        BY <1>14, <2>3, <3>2, <4>1, DutyStays DEF Monitor, Drives
    <3>q. QED
      BY <3>1, <3>2
  <2>q. QED
    BY <1>14, <2>1, <2>2, <2>3 DEF Monitor
<1>15. ASSUME Stop PROVE Good'
  BY <1>15 DEF Stop
<1>16. CASE UNCHANGED vars
  <2>1. /\ \A u \in Threads : Drives(u) => Drives(u)'
        /\ \A p \in Procs : Works(p) => Works(p)'
    BY <1>16 DEF vars, Drives, Works, H!Lost, procVars, harnessVars
  <2>q. QED
    BY <1>16, <2>1, DutyStays DEF vars, aux
<1>q. QED
  BY <1>1, <1>2, <1>3, <1>4, <1>5, <1>6, <1>7, <1>8, <1>9, <1>10, <1>11,
     <1>12, <1>13, <1>14, <1>15, <1>16
     DEF Next, Step

\* A card stands still for a listed cause only, whatever users and harnesses
\* do, however many goroutines and commands there are.
THEOREM CardsStandStillForACause == Spec => []InterruptedForACause
<1>1. Init => DrivenInv
  BY DEF Init, DrivenInv, Live, Idle
<1>2. KanbanInv /\ DrivenInv /\ [Next]_vars => DrivenInv'
  BY DeletingStep, DutyStep DEF DrivenInv
<1>3. DrivenInv => InterruptedForACause
  <2>1. Idling => ~Driven
    BY DEF Idling, Driven, Drives, Works, At
  <2>2. Interrupted => ~Resting
    BY DEF Interrupted, Resting
  <2>q. QED
    BY <2>1, <2>2 DEF DrivenInv, InterruptedForACause, Interrupted
<1>q. QED
  BY KanbanInvariance, <1>1, <1>2, <1>3, PTL DEF Spec

-----------------------------------------------------------------------------
(* Harnesses left to themselves                                             *)

\* What the rest assumes: harnesses keep to the order of calls of their skill,
\* and no user interferes.  How and when a command ends is not assumed.
LeftAlone == Disciplined /\ UserOps = {}

\* Nothing has been killed, and before the task is created there is nothing.
QuietInv ==
    /\ killed = {} /\ table # "deleted"
    /\ \A t \in Threads : th[t].pc \notin {"pauseKill", "pauseSignal",
                              "pauseUpdate", "deleteKill", "deleteSignal"}
    /\ table = "empty" => /\ life = FreshLife
                          /\ \A t \in Threads : At(t, "idle")
                          /\ \A p \in Procs : os[p] = "absent"

\* Only the end of a command moves its monitor on, and only a failure is
\* reported.
CommandInv ==
    \A p \in Procs :
        /\ mon[p] \in {"report", "unregister"} => os[p] # "alive"
        /\ mon[p] = "report" => os[p] = "dirty"

\* A call that has not been accepted yet is the only one of a command, which
\* has not finalized its phase unless it is over already.
Calling(t) == th[t].pc \in {"authorize", "reopenAuth", "reopenFind"}
CallInv ==
    \A t \in Threads :
        /\ Calling(t) => /\ th[t].who \in Procs
                         /\ os[th[t].who] = "alive" => th[t].who \notin spent
        /\ \A u \in Threads :
               th[u].who = th[t].who /\ th[t].who # NoProc => u = t

\* A goroutine or a command that is an agent.
ThreadAgent(t) == th[t].pc \notin {"idle", "authorize", "reopenAuth",
                                   "reopenFind", "register"}
CommandAgent(p) == /\ mon[p] # "unregister"
                   /\ \/ os[p] = "alive" /\ p \notin spent
                      \/ os[p] = "dirty"

\* A call that will make its goroutine an agent, and its command none the less
\* one: the command is over.
Orphan(t) == Calling(t) /\ os[th[t].who] # "alive"

\* The inductive form of AgentsAreAccountedFor counts what may become an agent
\* without a late end.
Potential == { t \in Threads : ThreadAgent(t) \/ Orphan(t) }
             \cup { p \in Procs : CommandAgent(p) }
AtMost(S, n) == IsFiniteSet(S) /\ Cardinality(S) <= n
CountInv == AtMost(Potential, 1 + late)

\* The inductive invariant of commands and calls.
ProtocolInv == QuietInv /\ CommandInv /\ CallInv /\ CountInv

\* As long as no command has ended late: a failed one has not finalized its
\* phase, a caller waits for its answer, and a command was started for a lane.
PunctualInv ==
    /\ \A p \in Procs : /\ os[p] = "dirty" => p \notin spent
                        /\ os[p] # "absent" => lane[p] \in Lanes
    /\ \A t \in Threads : Calling(t) => os[th[t].who] = "alive"

\* What a goroutine has read of the row is still so when it writes.
UpToDate(t) ==
    /\ th[t].pc \in {"start", "reset", "dispatch", "launch", "authorize",
                     "retryCount", "backoff"} => th[t].ph \in Lanes
    /\ At(t, "advance") => th[t].ph = NextPhase(life.phase)
    /\ At(t, "finish") => NextPhase(life.phase) = "done"
    /\ At(t, "terminal") => IsTerminal(life.phase)
    /\ At(t, "reopen") => Before(th[t].ph, life.phase)
    /\ At(t, "fail") => attempts > MaxRetries
UpToDateInv == \A t \in Threads : UpToDate(t)

\* The invariant of a flow in which no command has ended late.
FlowInv == PunctualInv /\ UpToDateInv

-----------------------------------------------------------------------------
(* Agents                                                                   *)

\* Who may become an agent, now and after the step.
LEMMA PotentialIs ==
  /\ \A t \in Threads : /\ t \in Potential <=> ThreadAgent(t) \/ Orphan(t)
                        /\ t \in Potential' <=> (ThreadAgent(t) \/ Orphan(t))'
  /\ \A p \in Procs : /\ p \in Potential <=> CommandAgent(p)
                      /\ p \in Potential' <=> CommandAgent(p)'
  /\ Potential \subseteq Threads \cup Procs
  /\ Potential' \subseteq Threads \cup Procs
BY ProcsAssumption DEF Potential

\* The number of members of a set that loses some, of one in which one takes
\* the place of another, and of one that gains one.
LEMMA Fewer ==
  ASSUME NEW S, NEW n \in Nat, AtMost(S, n), NEW T, T \subseteq S
  PROVE  AtMost(T, n)
<1>1. IsFiniteSet(T) /\ Cardinality(T) <= Cardinality(S)
  BY FS_Subset DEF AtMost
<1>2. Cardinality(S) \in Nat /\ Cardinality(T) \in Nat
  BY <1>1, FS_CardinalityType DEF AtMost
<1>q. QED
  BY <1>1, <1>2 DEF AtMost

LEMMA Exchanged ==
  ASSUME NEW S, NEW n \in Nat, AtMost(S, n), NEW x \in S, NEW y, NEW T,
         T \subseteq (S \ {x}) \cup {y}
  PROVE  AtMost(T, n)
<1> DEFINE R == S \ {x}
<1>1. IsFiniteSet(R) /\ Cardinality(R) = Cardinality(S) - 1
  BY FS_RemoveElement DEF AtMost
<1>2. Cardinality(S) \in Nat /\ Cardinality(R) \in Nat
  BY <1>1, FS_CardinalityType DEF AtMost
<1> HIDE DEF R
<1>3. /\ IsFiniteSet(R \cup {y})
      /\ \/ Cardinality(R \cup {y}) = Cardinality(R)
         \/ Cardinality(R \cup {y}) = Cardinality(R) + 1
  BY <1>1, FS_AddElement
<1>4. AtMost(R \cup {y}, n)
  BY <1>1, <1>2, <1>3 DEF AtMost
<1>q. QED
  BY <1>4, Fewer DEF R

LEMMA OneMore ==
  ASSUME NEW S, NEW n \in Nat, AtMost(S, n), NEW y, NEW T,
         T \subseteq S \cup {y}
  PROVE  AtMost(T, n + 1)
<1>1. Cardinality(S) \in Nat
  BY FS_CardinalityType DEF AtMost
<1>2. /\ IsFiniteSet(S \cup {y})
      /\ \/ Cardinality(S \cup {y}) = Cardinality(S)
         \/ Cardinality(S \cup {y}) = Cardinality(S) + 1
  BY FS_AddElement DEF AtMost
<1>3. AtMost(S \cup {y}, n + 1)
  BY <1>1, <1>2 DEF AtMost
<1>q. QED
  BY <1>3, Fewer

\* Nobody may become an agent who might not before.
LEMMA NoNewAgent ==
  ASSUME CountInv, late \in Nat, late' = late,
         \A t \in Threads : (ThreadAgent(t) \/ Orphan(t))' =>
                                ThreadAgent(t) \/ Orphan(t),
         \A p \in Procs : CommandAgent(p)' => CommandAgent(p)
  PROVE  CountInv'
<1>1. Potential' \subseteq Potential
  BY PotentialIs
<1>2. AtMost(Potential', 1 + late)
  BY <1>1, Fewer DEF CountInv
<1>q. QED
  BY <1>2 DEF CountInv, AtMost

\* One agent hands the task over to another.
LEMMA HandsOver ==
  ASSUME CountInv, late \in Nat, late' = late,
         NEW x \in Potential, x \notin Potential', NEW y,
         \A t \in Threads \ {y} : (ThreadAgent(t) \/ Orphan(t))' =>
                                      ThreadAgent(t) \/ Orphan(t),
         \A p \in Procs \ {y} : CommandAgent(p)' => CommandAgent(p)
  PROVE  CountInv'
<1>1. Potential' \subseteq (Potential \ {x}) \cup {y}
  BY PotentialIs
<1>2. AtMost(Potential', 1 + late)
  <2> DEFINE n == 1 + late
             T == Potential'
  <2>1. n \in Nat /\ AtMost(Potential, n)
    BY DEF CountInv
  <2>2. T \subseteq (Potential \ {x}) \cup {y}
    BY <1>1
  <2> HIDE DEF n, T
  <2>3. AtMost(T, n)
    BY <2>1, <2>2, Exchanged
  <2>q. QED
    BY <2>3 DEF n, T
<1>q. QED
  BY <1>2 DEF CountInv, AtMost

\* A late end may add one.
LEMMA AddsOne ==
  ASSUME CountInv, late \in Nat, late' = late + 1, NEW y,
         \A t \in Threads \ {y} : (ThreadAgent(t) \/ Orphan(t))' =>
                                      ThreadAgent(t) \/ Orphan(t),
         \A p \in Procs \ {y} : CommandAgent(p)' => CommandAgent(p)
  PROVE  CountInv'
<1>1. Potential' \subseteq Potential \cup {y}
  BY PotentialIs
<1>2. AtMost(Potential', (1 + late) + 1)
  <2> DEFINE n == 1 + late
             T == Potential'
  <2>1. n \in Nat /\ AtMost(Potential, n)
    BY DEF CountInv
  <2>2. T \subseteq Potential \cup {y}
    BY <1>1
  <2> HIDE DEF n, T
  <2>3. AtMost(T, n + 1)
    BY <2>1, <2>2, OneMore
  <2>q. QED
    BY <2>3 DEF n, T
<1>q. QED
  BY <1>2 DEF CountInv, AtMost

\* As long as nothing has ended late there is at most one agent.
LEMMA SoleAgent ==
  ASSUME CountInv, late = 0, NEW a \in Potential, NEW b \in Potential
  PROVE  a = b
<1> SUFFICES ASSUME a # b PROVE FALSE
  OBVIOUS
<1> DEFINE S == {a}
<1>1. IsFiniteSet(S) /\ Cardinality(S) = 1 /\ b \notin S
  BY FS_Singleton
<1>3. AtMost(S \cup {b}, 1)
  BY Fewer DEF CountInv
<1> HIDE DEF S
<1>2. IsFiniteSet(S \cup {b}) /\ Cardinality(S \cup {b}) = 2
  BY <1>1, FS_AddElement
<1>q. QED
  BY <1>2, <1>3 DEF AtMost

-----------------------------------------------------------------------------
(* The steps of the undisturbed flow                                        *)

\* Steps of a goroutine on its way that leave the commands alone.
OwnStep(t) ==
    \/ StartFlow(t) \/ ResetAttempts(t) \/ Dispatch(t) \/ MarkCompleted(t)
    \/ AdvanceFind(t) \/ Terminal(t) \/ Finish(t) \/ Advance(t)
    \/ ReopenAuthorize(t) \/ Reopen(t) \/ RetryCount(t) \/ Fail(t)
    \/ Backoff(t) \/ RowGone(t) \/ StatementFails(t) \/ LaunchFails(t)

\* What remains of Next when nobody interferes.
LEMMA FlowSteps ==
  ASSUME LeftAlone, QuietInv, Next
  PROVE  \/ \E t \in Threads :
                \/ Create(t) \/ OwnStep(t) \/ Launch(t) \/ Register(t)
                \/ Authorize(t) \/ ReopenFind(t)
         \/ Stop
         \/ \E p \in Procs : HarnessCall(p) \/ HarnessExit(p) \/ Monitor(p)
<1>1. \A t \in Threads : ~UserStep(t)
  BY DEF LeftAlone, UserStep, UserComplete, UserReopen, UserPause, UserResume,
         UserRestart, UserDelete, Ask
<1>2. \A t \in Threads : ~Kill(t) /\ ~Signal(t) /\ ~PauseUpdate(t)
  BY DEF QuietInv, Kill, Signal, PauseUpdate, WithRow, At
<1>q. QED
  BY <1>1, <1>2 DEF Next, Step, OwnStep

\* Nothing but the creation of the task happens before it.
LEMMA FirstStep ==
  ASSUME KanbanInv, QuietInv, LeftAlone, Next, table = "empty"
  PROVE  \E t \in Threads : Create(t)
<1>0. /\ \A t \in Threads : At(t, "idle")
      /\ \A p \in Procs : os[p] = "absent" /\ mon[p] = "none"
  BY DEF QuietInv, KanbanInv, AdapterInv, OwnedInv
<1>1. ASSUME NEW t \in Threads PROVE ~OwnStep(t)
  BY <1>0 DEF OwnStep, StartFlow, ResetAttempts, Dispatch, MarkCompleted,
              AdvanceFind, Terminal, Finish, Advance, ReopenAuthorize, Reopen,
              RetryCount, Fail, Backoff, RowGone, StatementFails, LaunchFails,
              WithRow, At, RowPCs
<1>2. ASSUME NEW t \in Threads
      PROVE  ~Launch(t) /\ ~Register(t) /\ ~Authorize(t) /\ ~ReopenFind(t)
  BY <1>0 DEF Launch, Register, Authorize, ReopenFind, WithRow, At
<1>3. ASSUME NEW p \in Procs
      PROVE  ~HarnessCall(p) /\ ~HarnessExit(p) /\ ~Monitor(p)
  BY <1>0 DEF HarnessCall, CallComplete, CallReopen, MayCall, H!Running,
              HarnessExit, Exit, H!Exit, H!LostExit, Monitor, H!Excused,
              H!Reaped, H!Report, H!Unregister
<1>4. ~Stop
  BY DEF Stop
<1>q. QED
  BY <1>1, <1>2, <1>3, <1>4, FlowSteps

\* What a goroutine's own step leaves as it is: the commands, the other
\* goroutines, who it works for; it neither begins a call nor becomes an agent.
LEMMA OwnStepFrame ==
  ASSUME KanbanInv, NEW t \in Threads, OwnStep(t)
  PROVE  /\ UNCHANGED << procVars, table, late >>
         /\ th' \in [Threads -> Goroutine]
         /\ \A u \in Threads \ {t} : th'[u] = th[u]
         /\ th'[t].who = th[t].who \/ th'[t].who = NoProc
         /\ Calling(t)' => Calling(t) /\ th'[t].who = th[t].who
         /\ ThreadAgent(t)' => ThreadAgent(t)
         /\ th'[t].pc \notin {"pauseKill", "pauseSignal", "pauseUpdate",
                              "deleteKill", "deleteSignal"}
<1>0. th \in [Threads -> Goroutine] /\ Idle \in Goroutine
  BY DEF KanbanInv, TypeOK, Idle, Goroutine, PCs
<1>1. th' \in [Threads -> Goroutine]
  <2>1. OwnStep(t) => [Next]_vars
    BY DEF OwnStep, Next, Step
  <2>q. QED
    BY <2>1, RowTypeStep DEF RowTypeOK
<1>2. UNCHANGED << procVars, table, late >>
  <2> USE DEF aux, bounds
  <2>1. CASE StartFlow(t) \/ ResetAttempts(t) \/ Dispatch(t) \/ MarkCompleted(t)
             \/ AdvanceFind(t) \/ Terminal(t) \/ Finish(t) \/ Advance(t)
    BY <2>1 DEF StartFlow, ResetAttempts, Dispatch, MarkCompleted, AdvanceFind,
                Terminal, Finish, Advance, rowVars
  <2>2. CASE ReopenAuthorize(t) \/ Reopen(t) \/ RetryCount(t) \/ Fail(t)
             \/ Backoff(t) \/ RowGone(t) \/ StatementFails(t)
             \/ LaunchFails(t)
    BY <2>2 DEF ReopenAuthorize, Reopen, RetryCount, Fail, Backoff, RowGone,
                StatementFails, LaunchFails, rowVars
  <2>q. QED
    BY <2>1, <2>2 DEF OwnStep
<1>3. CASE Return(t)
  BY <1>0, <1>1, <1>2, <1>3 DEF Return, Idle, Calling, ThreadAgent
<1>4. ASSUME NEW pc, NEW ph, Goto(t, pc, ph),
             \/ pc = "reopenFind" /\ Calling(t)
             \/ /\ pc \in {"reset", "dispatch", "launch", "advFind", "terminal",
                           "finish", "advance", "fail", "backoff"}
                /\ ThreadAgent(t)
      PROVE  /\ \A u \in Threads \ {t} : th'[u] = th[u]
             /\ th'[t].who = th[t].who
             /\ Calling(t)' => Calling(t)
             /\ ThreadAgent(t)' => ThreadAgent(t)
             /\ th'[t].pc \notin {"pauseKill", "pauseSignal", "pauseUpdate",
                                  "deleteKill", "deleteSignal"}
  <2>1. th'[t].pc = pc /\ th'[t].who = th[t].who
    BY <1>0, <1>4 DEF Goto, Goroutine
  <2>2. \A u \in Threads \ {t} : th'[u] = th[u]
    BY <1>0, <1>4 DEF Goto
  <2>q. QED
    BY <1>4, <2>1, <2>2 DEF Calling, ThreadAgent
<1> USE DEF WithRow, At, Calling, ThreadAgent
<1>5. CASE StartFlow(t) \/ ResetAttempts(t) \/ Dispatch(t) \/ Advance(t)
           \/ Reopen(t) \/ Backoff(t)
  BY <1>1, <1>2, <1>4, <1>5
     DEF StartFlow, ResetAttempts, Dispatch, Advance, Reopen, Backoff
<1>6. CASE AdvanceFind(t)
  BY <1>1, <1>2, <1>4, <1>6 DEF AdvanceFind
<1>7. CASE RetryCount(t)
  BY <1>1, <1>2, <1>4, <1>7 DEF RetryCount
<1>8. CASE MarkCompleted(t) \/ ReopenAuthorize(t)
  BY <1>1, <1>2, <1>3, <1>4, <1>8 DEF MarkCompleted, ReopenAuthorize
<1>9. CASE Terminal(t) \/ Finish(t) \/ Fail(t) \/ RowGone(t)
           \/ StatementFails(t) \/ LaunchFails(t)
  BY <1>3, <1>9 DEF Terminal, Finish, Fail, RowGone, StatementFails,
                    LaunchFails
<1>q. QED
  BY <1>5, <1>6, <1>7, <1>8, <1>9 DEF OwnStep

\* The types the steps below need.
LEMMA FlowTypes ==
  ASSUME KanbanInv
  PROVE  /\ th \in [Threads -> Goroutine] /\ life \in Life
         /\ attempts \in Nat /\ late \in Nat /\ stops \in Nat
         /\ lane \in [Procs -> Phases \cup {NoPhase}]
         /\ spent \subseteq Procs
         /\ os \in [Procs -> H!OsStates] /\ mon \in [Procs -> H!MonStates]
         /\ owner \in [Procs -> {Task, H!NoTask}] /\ killed \subseteq {Task}
         /\ OwnedInv
BY DEF KanbanInv, TypeOK, AdapterInv, H!HarnessTypeOK

\* The other goroutines stay where they are, and this one is now at pc.
LEMMA GotoEffect ==
  ASSUME th \in [Threads -> Goroutine], NEW t \in Threads,
         NEW pc, NEW ph, Goto(t, pc, ph)
  PROVE  /\ th'[t] = [th[t] EXCEPT !.pc = pc, !.ph = ph]
         /\ th'[t].pc = pc /\ th'[t].ph = ph /\ th'[t].who = th[t].who
         /\ \A u \in Threads \ {t} : th'[u] = th[u]
BY DEF Goto, Goroutine

\* It is idle now, and works for nobody.
LEMMA ReturnEffect ==
  ASSUME th \in [Threads -> Goroutine], NEW t \in Threads, Return(t)
  PROVE  /\ th'[t].pc = "idle" /\ th'[t].who = NoProc
         /\ \A u \in Threads \ {t} : th'[u] = th[u]
BY DEF Return, Idle

\* It was idle and has taken up a call.
LEMMA ServeEffect ==
  ASSUME th \in [Threads -> Goroutine], NEW t \in Threads,
         NEW pc, NEW ph, NEW who, Serve(t, pc, ph, who)
  PROVE  /\ At(t, "idle")
         /\ th'[t].pc = pc /\ th'[t].ph = ph /\ th'[t].who = who
         /\ \A u \in Threads \ {t} : th'[u] = th[u]
BY DEF Serve, Idle

\* Launch starts a command that nobody knows of yet and goes on to register it.
LEMMA LaunchEffect ==
  ASSUME KanbanInv, NEW t \in Threads, Launch(t)
  PROVE  \E p \in Procs :
            /\ os[p] = "absent" /\ mon[p] = "none"
            /\ os' = [os EXCEPT ![p] = "alive"] /\ mon' = mon
            /\ lane' = [lane EXCEPT ![p] = th[t].ph]
            /\ spent' = spent \ {p}
            /\ killed' = killed /\ UNCHANGED rowVars /\ attempts' = attempts
            /\ \A u \in Threads : th[u].who # p
            /\ th'[t].pc = "register" /\ th'[t].who = th[t].who
            /\ \A u \in Threads \ {t} : th'[u] = th[u]
            /\ late' = late /\ stops' = stops
<1>1. PICK p \in Procs :
         /\ \A u \in Threads : p \notin {th[u].who, th[u].proc}
         /\ H!Start(Task, p)
         /\ lane' = [lane EXCEPT ![p] = th[t].ph]
         /\ spent' = spent \ {p}
         /\ th' = [th EXCEPT ![t].pc = "register", ![t].proc = p]
  BY DEF Launch
<1>2. os[p] = "absent" /\ mon[p] = "none"
  BY <1>1, FlowTypes DEF H!Start, H!Free, OwnedInv
<1>3. /\ th'[t].pc = "register" /\ th'[t].who = th[t].who
      /\ \A u \in Threads \ {t} : th'[u] = th[u]
  BY <1>1, FlowTypes DEF Goroutine
<1>4. \A u \in Threads : th[u].who # p
  BY <1>1
<1>q. QED
  BY <1>1, <1>2, <1>3, <1>4 DEF Launch, H!Start, bounds

\* What a harness call changes: a goroutine that was idle takes it up.
LEMMA CallEffect ==
  ASSUME KanbanInv, LeftAlone, NEW p \in Procs, HarnessCall(p)
  PROVE  /\ os[p] = "alive" /\ p \notin spent
         /\ \A u \in Threads : th[u].who # p
         /\ UNCHANGED << rowVars, attempts, procVars, late, stops >>
         /\ \E t \in Threads, ph \in Phases \cup {NoPhase} :
               \/ Serve(t, "authorize", ph, p) /\ ph = lane[p]
               \/ Serve(t, "reopenAuth", ph, p) /\ ph \in Lanes
<1>1. PICK t \in Threads : CallComplete(t, p) \/ CallReopen(t, p)
  BY DEF HarnessCall
<1>2. MayCall(p) /\ UNCHANGED << rowVars, attempts, procVars, late, stops >>
  BY <1>1 DEF CallComplete, CallReopen, aux, bounds
<1>3. lane[p] \in Phases \cup {NoPhase} /\ Lanes \subseteq Phases
  BY FlowTypes DEF Lanes
<1>4. \/ Serve(t, "authorize", lane[p], p)
      \/ \E target \in Lanes : Serve(t, "reopenAuth", target, p)
  BY <1>1 DEF CallComplete, CallReopen
<1>q. QED
  BY <1>2, <1>3, <1>4 DEF MayCall, H!Running, LeftAlone

\* How a command ends, in one of two ways or, if it is lost, without a trace;
\* unless it ends late nobody works on its call, and it has not finalized the
\* phase it fails with.
LEMMA ExitEffect ==
  ASSUME KanbanInv, NEW p \in Procs, HarnessExit(p)
  PROVE  /\ os[p] = "alive"
         /\ UNCHANGED << rowVars, attempts, th, killed, stops >>
         /\ \A q \in Procs \ {p} :
               /\ os'[q] = os[q] /\ mon'[q] = mon[q]
               /\ q \in spent' <=> q \in spent
               /\ lane'[q] = lane[q]
         /\ \/ /\ os'[p] \in {"clean", "dirty"} /\ mon' = mon
               /\ spent' = spent /\ lane' = lane
            \/ os'[p] = "absent" /\ mon'[p] = "none" /\ p \notin spent'
         /\ \/ late' = late + 1
            \/ /\ late' = late
               /\ \A u \in Threads : th[u].who # p
               /\ os'[p] = "dirty" => p \notin spent
<1>1. PICK how \in {"clean", "dirty"} : Exit(p, how)
  BY DEF HarnessExit
<1>2. UNCHANGED << rowVars, attempts, th, stops >>
  BY <1>1 DEF Exit
<1>3. \/ late' = late + 1
      \/ /\ late' = late
         /\ \A u \in Threads : th[u].who # p
         /\ how = "dirty" => p \notin spent
  BY <1>1 DEF Exit, EndsLate
<1>4. CASE H!Exit(p, how) /\ UNCHANGED << lane, spent >>
  <2>1. os'[p] = how
    BY <1>4, FlowTypes DEF H!Exit
  <2>q. QED
    BY <1>2, <1>3, <1>4, <2>1, FlowTypes DEF H!Exit
<1>5. CASE H!LostExit(p) /\ Forget({p})
  <2>1. os'[p] = "absent" /\ mon'[p] = "none" /\ p \notin spent'
    BY <1>5, FlowTypes DEF H!LostExit, Forget
  <2>q. QED
    BY <1>2, <1>3, <1>5, <2>1, FlowTypes DEF H!LostExit, Forget
<1>q. QED
  BY <1>1, <1>4, <1>5 DEF Exit

\* What a monitor does when nothing has been killed.
LEMMA MonitorEffect ==
  ASSUME KanbanInv, QuietInv, NEW p \in Procs, Monitor(p)
  PROVE  /\ UNCHANGED << rowVars, attempts, late, stops >> /\ killed' = {}
         /\ \A q \in Procs \ {p} :
               /\ os'[q] = os[q] /\ mon'[q] = mon[q]
               /\ q \in spent' <=> q \in spent
               /\ lane'[q] = lane[q]
         /\ \/ /\ mon[p] = "wait" /\ os[p] \in {"clean", "dirty"}
               /\ mon'[p] = IF os[p] = "dirty" THEN "report" ELSE "unregister"
               /\ UNCHANGED << os, lane, spent, th >>
            \/ /\ mon[p] = "report" /\ mon'[p] = "unregister"
               /\ UNCHANGED << os, lane, spent >>
               /\ \E t \in Threads : Serve(t, "retryCount", lane[p], NoProc)
            \/ /\ mon[p] = "unregister" /\ os'[p] = "absent"
               /\ mon'[p] = "none" /\ p \notin spent' /\ th' = th
<1>0. killed = {} /\ ~H!Excused(p)
  BY DEF QuietInv, H!Excused
<1>1. UNCHANGED << rowVars, attempts, late, stops >>
  BY DEF Monitor, bounds
<1>2. CASE H!Reaped(p) /\ UNCHANGED << th, lane, spent >>
  BY <1>0, <1>1, <1>2, FlowTypes DEF H!Reaped
<1>3. CASE H!Report(p) /\ UNCHANGED << lane, spent >>
           /\ \E t \in Threads : Serve(t, "retryCount", lane[p], NoProc)
  BY <1>0, <1>1, <1>3, FlowTypes DEF H!Report
<1>4. CASE H!Unregister(p) /\ th' = th /\ Forget({p})
  BY <1>0, <1>1, <1>4, FlowTypes DEF H!Unregister, Forget
<1>q. QED
  BY <1>0, <1>2, <1>3, <1>4 DEF Monitor

\* What is left of the commands and the calls when the server stops.
LEMMA StopEffect ==
  ASSUME KanbanInv, Stop
  PROVE  /\ table # "empty" /\ UNCHANGED rowVars /\ killed' = {}
         /\ \A t \in Threads : th'[t] = Idle
         /\ late' = late
         /\ \E left \in SUBSET Procs : \A q \in Procs :
               IF q \in left
               THEN /\ os[q] = "alive" /\ os'[q] = "alive"
                    /\ mon'[q] = "lost" /\ lane'[q] = lane[q]
                    /\ q \in spent' <=> q \in spent
               ELSE os'[q] = "absent" /\ mon'[q] = "none"
<1>1. PICK left \in SUBSET Procs : H!ServerStops(left) /\ Forget(Procs \ left)
  BY DEF Stop
<1>2. \A q \in Procs :
         IF q \in left
         THEN /\ os[q] = "alive" /\ os'[q] = "alive"
              /\ mon'[q] = "lost" /\ lane'[q] = lane[q]
              /\ q \in spent' <=> q \in spent
         ELSE os'[q] = "absent" /\ mon'[q] = "none"
  BY <1>1 DEF H!ServerStops, Forget
<1>q. QED
  BY <1>1, <1>2, FlowTypes DEF Stop, H!ServerStops

\* A call is accepted, which finalizes the phase of its command, or refused.
LEMMA AnswerEffect ==
  ASSUME KanbanInv, CallInv, NEW t \in Threads, Authorize(t) \/ ReopenFind(t)
  PROVE  /\ UNCHANGED << rowVars, attempts, os, mon, lane, killed, late, stops >>
         /\ Calling(t) /\ \A u \in Threads \ {t} : th'[u] = th[u]
         /\ th[t].who \in Procs
         /\ os[th[t].who] = "alive" => th[t].who \notin spent
         /\ \/ th'[t].pc = "idle" /\ th'[t].who = NoProc /\ spent' = spent
            \/ /\ th'[t].pc \in {"mark", "reopen"} /\ th'[t].who = th[t].who
               /\ spent' = spent \cup {th[t].who}
<1>1. Calling(t)
  BY DEF Authorize, ReopenFind, WithRow, At, Calling
<1>2. /\ th[t].who \in Procs
      /\ os[th[t].who] = "alive" => th[t].who \notin spent
  BY <1>1 DEF CallInv
<1>3. {th[t].who} \ {NoProc} = {th[t].who}
  BY <1>2, ProcsAssumption DEF NoProc, H!NoProc
<1>4. UNCHANGED << rowVars, attempts, os, mon, lane, killed, late, stops >>
  BY DEF Authorize, ReopenFind, harnessVars, aux, bounds
<1>5. CASE Authorize(t)
  BY <1>1, <1>2, <1>4, <1>5, FlowTypes, GotoEffect, ReturnEffect DEF Authorize
<1>6. CASE ReopenFind(t)
  BY <1>1, <1>2, <1>3, <1>4, <1>6, FlowTypes, GotoEffect, ReturnEffect
     DEF ReopenFind
<1>q. QED
  BY <1>5, <1>6

-----------------------------------------------------------------------------
(* The invariant of the undisturbed flow                                    *)

\* Nobody kills, and the creation of the task is the first step.
LEMMA QuietStep ==
  ASSUME KanbanInv, LeftAlone, ProtocolInv, Next
  PROVE  QuietInv'
<1> USE FlowTypes DEF ProtocolInv
<1> DEFINE Killing(t) == th[t].pc \in {"pauseKill", "pauseSignal",
                              "pauseUpdate", "deleteKill", "deleteSignal"}
<1>1. table' = "live"
  <2>1. CASE table = "empty"
    BY <2>1, FirstStep DEF Create
  <2>2. CASE table # "empty"
    <3>1. table = "live"
      BY <2>2 DEF QuietInv, KanbanInv, TypeOK
    <3>2. \A t \in Threads : ~Create(t)
      BY <2>2 DEF Create
    <3>3. \A t \in Threads : Register(t) => UNCHANGED rowVars
      BY DEF Register
    <3>q. QED
      BY <3>1, <3>2, <3>3, FlowSteps, OwnStepFrame, LaunchEffect, AnswerEffect,
         CallEffect, ExitEffect, MonitorEffect, StopEffect DEF rowVars
  <2>q. QED
    BY <2>1, <2>2
<1>2. killed' = {}
  <2>1. killed = {}
    BY DEF QuietInv
  <2>2. \A t \in Threads : Create(t) \/ Register(t) => killed' = killed
    BY DEF Create, Register, H!Register, procVars, harnessVars
  <2>3. \A t \in Threads : OwnStep(t) => killed' = killed
    BY OwnStepFrame DEF procVars, harnessVars
  <2>4. \A p \in Procs : HarnessCall(p) => killed' = killed
    BY CallEffect DEF procVars, harnessVars
  <2>q. QED
    BY <2>1, <2>2, <2>3, <2>4, FlowSteps, LaunchEffect, AnswerEffect,
       ExitEffect, MonitorEffect, StopEffect
<1>3. \A t \in Threads : ~Killing(t)'
  <2>0. \A t \in Threads : ~Killing(t)
    BY DEF QuietInv
  <2>1. ASSUME NEW t \in Threads, Create(t) \/ Register(t)
        PROVE  \A u \in Threads : ~Killing(u)'
    BY <2>0, <2>1, ServeEffect, ReturnEffect DEF Create, Register
  <2>2. ASSUME NEW t \in Threads, OwnStep(t)
        PROVE  \A u \in Threads : ~Killing(u)'
    BY <2>0, <2>2, OwnStepFrame
  <2>3. ASSUME NEW t \in Threads, Launch(t)
        PROVE  \A u \in Threads : ~Killing(u)'
    BY <2>0, <2>3, LaunchEffect
  <2>4. ASSUME NEW t \in Threads, Authorize(t) \/ ReopenFind(t)
        PROVE  \A u \in Threads : ~Killing(u)'
    BY <2>0, <2>4, AnswerEffect
  <2>5. ASSUME NEW p \in Procs, HarnessCall(p)
        PROVE  \A u \in Threads : ~Killing(u)'
    BY <2>0, <2>5, CallEffect, ServeEffect
  <2>6. ASSUME NEW p \in Procs, HarnessExit(p) \/ Monitor(p)
        PROVE  \A u \in Threads : ~Killing(u)'
    BY <2>0, <2>6, ExitEffect, MonitorEffect, ServeEffect
  <2>7. Stop => \A u \in Threads : ~Killing(u)'
    BY StopEffect DEF Idle
  <2>q. QED
    BY <2>1, <2>2, <2>3, <2>4, <2>5, <2>6, <2>7, FlowSteps
<1>q. QED
  BY <1>1, <1>2, <1>3 DEF QuietInv

\* Only the end of a command moves its monitor on.
LEMMA CommandStep ==
  ASSUME KanbanInv, LeftAlone, ProtocolInv, Next
  PROVE  CommandInv'
<1> USE DEF ProtocolInv, CommandInv
<1>1. ASSUME NEW t \in Threads, Create(t) \/ OwnStep(t) PROVE CommandInv'
  <2>1. UNCHANGED procVars
    BY <1>1, OwnStepFrame DEF Create
  <2>q. QED
    BY <2>1 DEF procVars, harnessVars
<1>2. ASSUME NEW t \in Threads, Launch(t) PROVE CommandInv'
  BY <1>2, LaunchEffect, FlowTypes
<1>3. ASSUME NEW t \in Threads, Register(t) PROVE CommandInv'
  BY <1>3, FlowTypes DEF Register, H!Register
<1>4. ASSUME NEW t \in Threads, Authorize(t) \/ ReopenFind(t)
      PROVE  CommandInv'
  BY <1>4, AnswerEffect
<1>5. ASSUME NEW p \in Procs, HarnessCall(p) PROVE CommandInv'
  BY <1>5, CallEffect DEF procVars, harnessVars
<1>6. ASSUME NEW p \in Procs, HarnessExit(p) PROVE CommandInv'
  BY <1>6, ExitEffect
<1>7. ASSUME NEW p \in Procs, Monitor(p) PROVE CommandInv'
  BY <1>7, MonitorEffect
<1>8. Stop => CommandInv'
  BY StopEffect
<1>q. QED
  BY <1>1, <1>2, <1>3, <1>4, <1>5, <1>6, <1>7, <1>8, FlowSteps

\* A call stays the only one of its command.
LEMMA CallStep ==
  ASSUME KanbanInv, LeftAlone, ProtocolInv, Next
  PROVE  CallInv'
<1> USE FlowTypes DEF ProtocolInv, CallInv, Calling
<1>1. ASSUME NEW t \in Threads, Create(t) PROVE CallInv'
  BY <1>1, ServeEffect DEF Create, procVars, harnessVars
<1>2. ASSUME NEW t \in Threads, OwnStep(t) PROVE CallInv'
  BY <1>2, OwnStepFrame DEF procVars, harnessVars
<1>3. ASSUME NEW t \in Threads, Launch(t) PROVE CallInv'
  BY <1>3, LaunchEffect
<1>4. ASSUME NEW t \in Threads, Register(t) PROVE CallInv'
  BY <1>4, ReturnEffect DEF Register, H!Register
<1>5. ASSUME NEW t \in Threads, Authorize(t) \/ ReopenFind(t) PROVE CallInv'
  <2>1. th[t].who \in Procs /\ th[t].who # NoProc
    BY <1>5, AnswerEffect, ProcsAssumption DEF NoProc, H!NoProc
  <2>2. \A u \in Threads : th'[u].who = th[u].who \/ th'[u].who = NoProc
    BY <1>5, AnswerEffect
  <2>3. ASSUME NEW u \in Threads, Calling(u)'
        PROVE  /\ th'[u].who \in Procs
               /\ os'[th'[u].who] = "alive" => th'[u].who \notin spent'
    <3>1. u # t /\ th'[u] = th[u] /\ os' = os
      BY <1>5, <2>3, AnswerEffect
    <3>2. Calling(u) /\ th[u].who # th[t].who
      BY <2>1, <2>3, <3>1
    <3>q. QED
      BY <1>5, <3>1, <3>2, AnswerEffect
  <2>q. QED
    BY <2>2, <2>3
<1>6. ASSUME NEW p \in Procs, HarnessCall(p) PROVE CallInv'
  BY <1>6, CallEffect, ServeEffect DEF procVars, harnessVars
<1>7. ASSUME NEW p \in Procs, HarnessExit(p) PROVE CallInv'
  <2>1. \A q \in Procs : os'[q] = "alive" =>
                             os[q] = "alive" /\ (q \in spent' => q \in spent)
    BY <1>7, ExitEffect
  <2>2. th' = th
    BY <1>7, ExitEffect
  <2>q. QED
    BY <2>1, <2>2
<1>8. ASSUME NEW p \in Procs, Monitor(p) PROVE CallInv'
  <2>1. \A q \in Procs : os'[q] = "alive" =>
                             os[q] = "alive" /\ (q \in spent' => q \in spent)
    BY <1>8, MonitorEffect DEF CommandInv
  <2>2. \A u \in Threads : Calling(u)' => Calling(u) /\ th'[u].who = th[u].who
    BY <1>8, MonitorEffect, ServeEffect
  <2>3. \A u \in Threads : th'[u].who = th[u].who \/ th'[u].who = NoProc
    BY <1>8, MonitorEffect, ServeEffect
  <2>4. \A u \in Threads : Calling(u)' =>
           /\ th'[u].who \in Procs
           /\ os'[th'[u].who] = "alive" => th'[u].who \notin spent'
    BY <2>1, <2>2
  <2>q. QED
    BY <2>3, <2>4
<1>9. Stop => CallInv'
  BY StopEffect DEF Idle
<1>q. QED
  BY <1>1, <1>2, <1>3, <1>4, <1>5, <1>6, <1>7, <1>8, <1>9, FlowSteps

\* The task is handed over, never doubled, but by a late end.
LEMMA CountStep ==
  ASSUME KanbanInv, LeftAlone, ProtocolInv, Next
  PROVE  CountInv'
<1> USE FlowTypes DEF ProtocolInv
<1>1. ASSUME NEW t \in Threads, Create(t) PROVE CountInv'
  <2>1. /\ \A u \in Threads : At(u, "idle")
        /\ \A p \in Procs : os[p] = "absent"
    BY <1>1 DEF Create, QuietInv
  <2>2. /\ \A u \in Threads \ {t} : th'[u] = th[u]
        /\ os' = os /\ late' = late
    BY <1>1, ServeEffect DEF Create, procVars, harnessVars, aux, bounds
  <2>3. /\ \A u \in Threads \ {t} : ~(ThreadAgent(u) \/ Orphan(u))'
        /\ \A p \in Procs : ~CommandAgent(p)'
    BY <2>1, <2>2 DEF ThreadAgent, Orphan, Calling, CommandAgent, At
  <2>4. Potential' \subseteq {t}
    BY <2>3, PotentialIs
  <2>5. late \in Nat
    BY FlowTypes
  <2>6. IsFiniteSet({t}) /\ Cardinality({t}) = 1
    BY FS_Singleton
  <2>7. AtMost({t}, 1 + late)
    BY <2>5, <2>6 DEF AtMost
  <2>8. AtMost(Potential', 1 + late)
    BY <2>4, <2>5, <2>7, Fewer
  <2>q. QED
    BY <2>2, <2>8 DEF CountInv, AtMost
<1>2. ASSUME NEW t \in Threads, OwnStep(t) PROVE CountInv'
  <2>1. \A u \in Threads : (ThreadAgent(u) \/ Orphan(u))' =>
                               ThreadAgent(u) \/ Orphan(u)
    BY <1>2, OwnStepFrame
       DEF ThreadAgent, Orphan, Calling, procVars, harnessVars
  <2>2. \A p \in Procs : CommandAgent(p)' => CommandAgent(p)
    BY <1>2, OwnStepFrame DEF CommandAgent, procVars, harnessVars
  <2>q. QED
    BY <1>2, <2>1, <2>2, NoNewAgent, OwnStepFrame
<1>3. ASSUME NEW t \in Threads, Launch(t) PROVE CountInv'
  <2>1. PICK p \in Procs : /\ os[p] = "absent" /\ mon' = mon
                           /\ os' = [os EXCEPT ![p] = "alive"]
                           /\ spent' = spent \ {p}
                           /\ \A u \in Threads : th[u].who # p
                           /\ th'[t].pc = "register" /\ late' = late
                           /\ \A u \in Threads \ {t} : th'[u] = th[u]
    BY <1>3, LaunchEffect
  <2>2. ThreadAgent(t) /\ ~(ThreadAgent(t) \/ Orphan(t))'
    BY <1>3, <2>1 DEF Launch, At, ThreadAgent, Orphan, Calling
  <2>3. t \in Potential /\ t \notin Potential'
    BY <2>2, PotentialIs
  <2>4. \A u \in Threads : (ThreadAgent(u) \/ Orphan(u))' =>
                               ThreadAgent(u) \/ Orphan(u)
    BY <2>1, <2>2 DEF ThreadAgent, Orphan, Calling, CallInv
  <2>5. \A q \in Procs \ {p} : CommandAgent(q)' => CommandAgent(q)
    BY <2>1 DEF CommandAgent
  <2>q. QED
    BY <2>1, <2>3, <2>4, <2>5, HandsOver
<1>4. ASSUME NEW t \in Threads, Register(t) PROVE CountInv'
  <2>1. \A u \in Threads : (ThreadAgent(u) \/ Orphan(u))' =>
                               ThreadAgent(u) \/ Orphan(u)
    BY <1>4, ReturnEffect
       DEF Register, H!Register, ThreadAgent, Orphan, Calling
  <2>2. \A p \in Procs : CommandAgent(p)' => CommandAgent(p)
    BY <1>4 DEF Register, H!Register, CommandAgent
  <2>q. QED
    BY <1>4, <2>1, <2>2, NoNewAgent DEF Register, aux, bounds
<1>5. ASSUME NEW t \in Threads, Authorize(t) \/ ReopenFind(t) PROVE CountInv'
  <2>0. PICK p \in Procs : p = th[t].who
    BY <1>5, AnswerEffect
  <2>f. /\ UNCHANGED << os, mon, late >>
        /\ \A u \in Threads \ {t} : th'[u] = th[u]
        /\ Calling(t) /\ (os[p] = "alive" => p \notin spent)
        /\ \/ th'[t].pc = "idle" /\ spent' = spent
           \/ th'[t].pc \in {"mark", "reopen"} /\ spent' = spent \cup {p}
    BY <1>5, <2>0, AnswerEffect
  <2>1. \A u \in Threads \ {t} : (ThreadAgent(u) \/ Orphan(u))' =>
                                     ThreadAgent(u) \/ Orphan(u)
    BY <2>f DEF ThreadAgent, Orphan, Calling
  <2>2. \A q \in Procs : CommandAgent(q)' => CommandAgent(q)
    BY <2>f DEF CommandAgent
  <2>3. CASE th'[t].pc = "idle" \/ os[p] # "alive"
    <3>1. (ThreadAgent(t) \/ Orphan(t))' => ThreadAgent(t) \/ Orphan(t)
      BY <2>0, <2>f, <2>3 DEF ThreadAgent, Orphan, Calling
    <3>q. QED
      BY <2>f, <2>1, <2>2, <3>1, NoNewAgent
  <2>4. CASE th'[t].pc # "idle" /\ os[p] = "alive"
    <3>1. CommandAgent(p) /\ ~CommandAgent(p)'
      BY <2>f, <2>4 DEF CommandAgent, CommandInv
    <3>2. p \in Potential /\ p \notin Potential'
      BY <3>1, PotentialIs
    <3>q. QED
      BY <2>f, <2>1, <2>2, <3>2, HandsOver
  <2>q. QED
    BY <2>3, <2>4
<1>6. ASSUME NEW p \in Procs, HarnessCall(p) PROVE CountInv'
  <2>0. PICK t \in Threads, ph \in Phases \cup {NoPhase} :
            Serve(t, "authorize", ph, p) \/ Serve(t, "reopenAuth", ph, p)
    BY <1>6, CallEffect
  <2>1. \A u \in Threads : (ThreadAgent(u) \/ Orphan(u))' =>
                               ThreadAgent(u) \/ Orphan(u)
    <3>1. os[p] = "alive" /\ os' = os
      BY <1>6, CallEffect DEF procVars, harnessVars
    <3>2. /\ th'[t].who = p /\ th'[t].pc \in {"authorize", "reopenAuth"}
          /\ \A u \in Threads \ {t} : th'[u] = th[u]
      BY <2>0, ServeEffect
    <3>q. QED
      BY <3>1, <3>2 DEF ThreadAgent, Orphan, Calling
  <2>2. \A q \in Procs : CommandAgent(q)' => CommandAgent(q)
    BY <1>6, CallEffect DEF CommandAgent, procVars, harnessVars
  <2>q. QED
    BY <1>6, <2>1, <2>2, NoNewAgent, CallEffect
<1>7. ASSUME NEW p \in Procs, HarnessExit(p) PROVE CountInv'
  <2>0. /\ os[p] = "alive" /\ th' = th
        /\ \A q \in Procs \ {p} : /\ os'[q] = os[q] /\ mon'[q] = mon[q]
                                  /\ q \in spent' <=> q \in spent
    BY <1>7, ExitEffect
  <2>1. \A q \in Procs \ {p} : CommandAgent(q)' => CommandAgent(q)
    BY <2>0 DEF CommandAgent
  <2>2. ASSUME NEW u \in Threads, th[u].who # p
        PROVE  (ThreadAgent(u) \/ Orphan(u))' => ThreadAgent(u) \/ Orphan(u)
    BY <2>0, <2>2 DEF ThreadAgent, Orphan, Calling, CallInv
  <2>3. CASE late' = late /\ \A u \in Threads : th[u].who # p
    <3>1. CommandAgent(p)' => CommandAgent(p)
      BY <1>7, <2>0, <2>3, ExitEffect DEF CommandAgent, CommandInv
    <3>q. QED
      BY <2>1, <2>2, <2>3, <3>1, NoNewAgent
  <2>4. CASE late' = late + 1 /\ \A u \in Threads : ~(Calling(u) /\ th[u].who = p)
    <3>1. \A u \in Threads : (ThreadAgent(u) \/ Orphan(u))' =>
                                 ThreadAgent(u) \/ Orphan(u)
      BY <2>0, <2>2, <2>4 DEF ThreadAgent, Orphan, Calling
    <3>q. QED
      BY <2>1, <2>4, <3>1, AddsOne
  <2>5. CASE late' = late + 1 /\ \E u \in Threads : Calling(u) /\ th[u].who = p
    <3>1. PICK t \in Threads : Calling(t) /\ th[t].who = p
      BY <2>5
    <3>2. \A u \in Threads \ {t} : (ThreadAgent(u) \/ Orphan(u))' =>
                                       ThreadAgent(u) \/ Orphan(u)
      BY <2>2, <3>1, ProcsAssumption DEF CallInv, NoProc, H!NoProc
    <3>3. CommandAgent(p)
      BY <2>0, <3>1 DEF CallInv, CommandAgent, CommandInv
    <3>q. QED
      BY <2>1, <2>5, <3>2, <3>3, AddsOne
  <2>q. QED
    BY <1>7, <2>3, <2>4, <2>5, ExitEffect
<1>8. ASSUME NEW p \in Procs, Monitor(p) PROVE CountInv'
  <2>0. /\ late' = late
        /\ \A q \in Procs \ {p} : /\ os'[q] = os[q] /\ mon'[q] = mon[q]
                                  /\ q \in spent' <=> q \in spent
        /\ os[p] = "alive" <=> os'[p] = "alive"
    BY <1>8, MonitorEffect DEF CommandInv
  <2>1. \A q \in Procs \ {p} : CommandAgent(q)' => CommandAgent(q)
    BY <2>0 DEF CommandAgent
  <2>t. ASSUME NEW u \in Threads, th'[u] = th[u]
        PROVE  (ThreadAgent(u) \/ Orphan(u))' => ThreadAgent(u) \/ Orphan(u)
    <3>1. \A q \in Procs : os[q] = "alive" <=> os'[q] = "alive"
      BY <2>0
    <3>q. QED
      BY <2>t, <3>1 DEF ThreadAgent, Orphan, Calling, CallInv
  <2>2. CASE th' = th
    <3>1. CommandAgent(p)' => CommandAgent(p)
      BY <1>8, <2>2, MonitorEffect, ServeEffect DEF CommandAgent, At
    <3>q. QED
      BY <2>0, <2>1, <2>2, <2>t, <3>1, NoNewAgent
  <2>3. CASE /\ mon[p] = "report" /\ mon'[p] = "unregister"
             /\ \E t \in Threads : Serve(t, "retryCount", lane[p], NoProc)
    <3>1. PICK t \in Threads : Serve(t, "retryCount", lane[p], NoProc)
      BY <2>3
    <3>2. CommandAgent(p) /\ ~CommandAgent(p)'
      BY <2>3 DEF CommandAgent, CommandInv
    <3>3. p \in Potential /\ p \notin Potential'
      BY <3>2, PotentialIs
    <3>4. \A u \in Threads \ {t} : (ThreadAgent(u) \/ Orphan(u))' =>
                                       ThreadAgent(u) \/ Orphan(u)
      BY <2>t, <3>1, ServeEffect
    <3>5. \A q \in Procs \ {t} : CommandAgent(q)' => CommandAgent(q)
      BY <2>1, <3>2
    <3>q. QED
      BY <2>0, <3>3, <3>4, <3>5, HandsOver
  <2>q. QED
    BY <1>8, <2>2, <2>3, MonitorEffect
<1>9. Stop => CountInv'
  <2>1. SUFFICES ASSUME Stop PROVE CountInv'
    OBVIOUS
  <2>2. \A u \in Threads : ~(ThreadAgent(u) \/ Orphan(u))'
    BY <2>1, StopEffect DEF ThreadAgent, Orphan, Calling, Idle
  <2>3. \A q \in Procs : CommandAgent(q)' => CommandAgent(q)
    BY <2>1, StopEffect DEF CommandAgent, CommandInv
  <2>q. QED
    BY <2>1, <2>2, <2>3, NoNewAgent, StopEffect
<1>q. QED
  BY <1>1, <1>2, <1>3, <1>4, <1>5, <1>6, <1>7, <1>8, <1>9, FlowSteps

\* Every step keeps the invariant of commands and calls.
LEMMA ProtocolStep ==
  ASSUME KanbanInv, LeftAlone, ProtocolInv, [Next]_vars
  PROVE  ProtocolInv'
<1>1. CASE Next
  BY <1>1, QuietStep, CommandStep, CallStep, CountStep DEF ProtocolInv
<1>2. CASE UNCHANGED vars
  <2> USE <1>2 DEF vars, rowVars, procVars, harnessVars, aux, bounds, ProtocolInv
  <2>1. QuietInv' /\ CommandInv' /\ CallInv'
    BY DEF QuietInv, CommandInv, CallInv, Calling, At
  <2>2. CountInv'
    <3>1. Potential' = Potential
      BY DEF Potential, ThreadAgent, Orphan, Calling, CommandAgent
    <3>q. QED
      BY <3>1 DEF CountInv, AtMost
  <2>q. QED
    BY <2>1, <2>2
<1>q. QED
  BY <1>1, <1>2

\* At first there is no task, no command and no agent.
LEMMA ProtocolInit == Init => ProtocolInv
<1> SUFFICES ASSUME Init PROVE ProtocolInv
  OBVIOUS
<1> USE DEF Init, H!HarnessInit, Idle
<1>1. QuietInv /\ CommandInv /\ CallInv
  BY DEF QuietInv, CommandInv, CallInv, Calling, At
<1>2. CountInv
  <2>1. Potential = {}
    BY DEF Potential, ThreadAgent, Orphan, Calling, CommandAgent
  <2>q. QED
    BY <2>1, FS_EmptySet DEF CountInv, AtMost
<1>q. QED
  BY <1>1, <1>2 DEF ProtocolInv

\* ProtocolInv holds throughout a flow nobody interferes with.
THEOREM ProtocolInvariance ==
  ASSUME LeftAlone
  PROVE  Spec => []ProtocolInv
<1>1. KanbanInv /\ ProtocolInv /\ [Next]_vars => ProtocolInv'
  BY ProtocolStep
<1>q. QED
  BY KanbanInvariance, ProtocolInit, <1>1, PTL DEF Spec

\* However commands end, and whatever fails or stops: there is one agent, and
\* one more for every command that ended late.
THEOREM AgentsAreCounted ==
  ASSUME LeftAlone
  PROVE  Spec => []AgentsAreAccountedFor
<1>1. KanbanInv /\ ProtocolInv => AgentsAreAccountedFor
  <2> SUFFICES ASSUME KanbanInv, ProtocolInv PROVE AgentsAreAccountedFor
    OBVIOUS
  <2>1. Agents \subseteq Potential
    BY DEF Agents, Potential, ThreadAgent, CommandAgent
  <2>2. late \in Nat
    BY FlowTypes
  <2>3. AtMost(Agents, 1 + late)
    BY <2>1, <2>2, Fewer DEF ProtocolInv, CountInv
  <2>q. QED
    BY <2>3 DEF AtMost, AgentsAreAccountedFor
<1>q. QED
  BY KanbanInvariance, ProtocolInvariance, <1>1, PTL

-----------------------------------------------------------------------------
(* As long as nothing has ended late                                        *)

\* So far no command has ended late, nor does one in this step.
Punctual == late = 0 /\ late' = 0

\* Then the exceptional ends of commands stay away.
LEMMA PunctualStep ==
  ASSUME KanbanInv, LeftAlone, ProtocolInv, FlowInv, Next, Punctual
  PROVE  PunctualInv'
<1> USE FlowTypes DEF FlowInv, PunctualInv, Punctual, Calling
<1>0. ProtocolInv' /\ CallInv /\ CommandInv
  BY ProtocolStep DEF ProtocolInv
<1>1. ASSUME NEW t \in Threads, Create(t) PROVE PunctualInv'
  BY <1>1, ServeEffect DEF Create, procVars, harnessVars
<1>2. ASSUME NEW t \in Threads, OwnStep(t) PROVE PunctualInv'
  BY <1>2, OwnStepFrame DEF procVars, harnessVars
<1>3. ASSUME NEW t \in Threads, Launch(t) PROVE PunctualInv'
  <2>1. th[t].ph \in Lanes
    BY <1>3 DEF Launch, At, UpToDateInv, UpToDate
  <2>2. PICK p \in Procs :
           /\ os' = [os EXCEPT ![p] = "alive"]
           /\ lane' = [lane EXCEPT ![p] = th[t].ph]
           /\ spent' = spent \ {p}
           /\ th'[t].pc = "register"
           /\ \A u \in Threads : th[u].who # p
           /\ \A u \in Threads \ {t} : th'[u] = th[u]
    BY <1>3, LaunchEffect
  <2>3. \A q \in Procs : /\ os'[q] = "dirty" => q \notin spent'
                         /\ os'[q] # "absent" => lane'[q] \in Lanes
    BY <2>1, <2>2
  <2>4. \A u \in Threads : Calling(u)' => os'[th'[u].who] = "alive"
    BY <1>0, <2>2 DEF CallInv
  <2>q. QED
    BY <2>3, <2>4
<1>4. ASSUME NEW t \in Threads, Register(t) PROVE PunctualInv'
  BY <1>4, ReturnEffect DEF Register, H!Register
<1>5. ASSUME NEW t \in Threads, Authorize(t) \/ ReopenFind(t)
      PROVE  PunctualInv'
  BY <1>0, <1>5, AnswerEffect
<1>6. ASSUME NEW p \in Procs, HarnessCall(p) PROVE PunctualInv'
  BY <1>6, CallEffect, ServeEffect DEF procVars, harnessVars
<1>7. ASSUME NEW p \in Procs, HarnessExit(p) PROVE PunctualInv'
  <2>1. /\ \A u \in Threads : th[u].who # p
        /\ os'[p] = "dirty" => p \notin spent
    BY <1>7, ExitEffect
  <2>q. QED
    BY <1>0, <1>7, <2>1, ExitEffect DEF CallInv
<1>8. ASSUME NEW p \in Procs, Monitor(p) PROVE PunctualInv'
  <2>0. QuietInv
    BY DEF ProtocolInv
  <2>1. \A u \in Threads : Calling(u)' => Calling(u) /\ th'[u].who = th[u].who
    BY <1>8, <2>0, MonitorEffect, ServeEffect
  <2>2. os[p] = "alive" => os'[p] = "alive"
    BY <1>0, <1>8, <2>0, MonitorEffect DEF CommandInv
  <2>3. \A q \in Procs : /\ os'[q] = "dirty" => q \notin spent'
                         /\ os'[q] # "absent" => lane'[q] \in Lanes
    BY <1>8, <2>0, MonitorEffect
  <2>4. \A u \in Threads : Calling(u)' => os'[th'[u].who] = "alive"
    BY <1>0, <1>8, <2>0, <2>1, <2>2, MonitorEffect DEF CallInv
  <2>q. QED
    BY <2>3, <2>4
<1>9. Stop => PunctualInv'
  BY StopEffect DEF Idle
<1>q. QED
  BY <1>1, <1>2, <1>3, <1>4, <1>5, <1>6, <1>7, <1>8, <1>9, FlowSteps
     DEF ProtocolInv

\* While a goroutine is on its way with the card, no other goroutine and no
\* command is.
LEMMA AloneOnItsWay ==
  ASSUME ProtocolInv, late = 0, NEW t \in Threads, ThreadAgent(t)
  PROVE  /\ \A u \in Threads \ {t} : ~ThreadAgent(u)
         /\ \A p \in Procs : ~CommandAgent(p)
BY SoleAgent, PotentialIs, ProcsAssumption DEF ProtocolInv

\* Whoever writes the row or counts the attempts is the only agent, so what
\* the others have read does not change.
LEMMA OthersUpToDate ==
  ASSUME ProtocolInv, FlowInv, late = 0, NEW t \in Threads,
         \A u \in Threads \ {t} : th'[u] = th[u],
         \/ ThreadAgent(t)
         \/ UNCHANGED << life, attempts >>
  PROVE  \A u \in Threads \ {t} : UpToDate(u)'
<1>1. ASSUME NEW u \in Threads \ {t} PROVE UpToDate(u)'
  <2>1. UpToDate(u)
    BY DEF FlowInv, UpToDateInv
  <2>2. CASE ThreadAgent(t)
    <3>1. ~ThreadAgent(u)
      BY <2>2, AloneOnItsWay
    <3>q. QED
      BY <2>1, <3>1 DEF UpToDate, ThreadAgent, At
  <2>3. CASE UNCHANGED << life, attempts >>
    BY <2>1, <2>3 DEF UpToDate, At
  <2>q. QED
    BY <2>2, <2>3
<1>q. QED
  BY <1>1

\* What a goroutine has to carry on its way to pc.
LEMMA GotoUpToDate ==
  ASSUME th \in [Threads -> Goroutine], NEW t \in Threads,
         NEW pc, NEW ph, Goto(t, pc, ph),
         pc \in {"start", "reset", "dispatch", "launch", "authorize",
                "retryCount", "backoff"} => ph \in Lanes,
         pc = "advance" => ph = NextPhase(life'.phase),
         pc = "finish" => NextPhase(life'.phase) = "done",
         pc = "terminal" => IsTerminal(life'.phase),
         pc = "reopen" => Before(ph, life'.phase),
         pc = "fail" => attempts' > MaxRetries
  PROVE  UpToDate(t)'
<1>1. th'[t].pc = pc /\ th'[t].ph = ph
  BY GotoEffect
<1>q. QED
  BY <1>1 DEF UpToDate, At

\* A goroutine acts on what is still so.
LEMMA UpToDateStep ==
  ASSUME KanbanInv, LeftAlone, ProtocolInv, FlowInv, Next, Punctual
  PROVE  UpToDateInv'
<1> USE FlowTypes DEF Punctual
<1>a. (\A t \in Threads : UpToDate(t)') => UpToDateInv'
  BY DEF UpToDateInv
<1>b. \A t \in Threads : UpToDate(t)
  BY DEF UpToDateInv, FlowInv
<1>p. "planning" \in Lanes /\ life.phase \in Phases
  BY DEF Lanes, Phases, Life
<1>1. ASSUME NEW t \in Threads, Create(t) PROVE UpToDateInv'
  <2>1. \A u \in Threads : At(u, "idle")
    BY <1>1 DEF Create, ProtocolInv, QuietInv
  <2>2. /\ th'[t].pc = "start" /\ th'[t].ph = "planning"
        /\ \A u \in Threads \ {t} : th'[u] = th[u]
    BY <1>1, ServeEffect DEF Create
  <2>q. QED
    BY <1>a, <1>p, <2>1, <2>2 DEF UpToDate, At
<1>2. ASSUME NEW t \in Threads, OwnStep(t) PROVE UpToDateInv'
  <2>1. \A u \in Threads \ {t} : UpToDate(u)'
    <3>1. ThreadAgent(t) \/ UNCHANGED << life, attempts >>
      BY <1>2 DEF OwnStep, StartFlow, ResetAttempts, Dispatch, MarkCompleted,
           AdvanceFind, Terminal, Finish, Advance, ReopenAuthorize, Reopen,
           RetryCount, Fail, Backoff, RowGone, StatementFails, LaunchFails,
           ThreadAgent, At, WithRow, rowVars
    <3>q. QED
      BY <1>2, <3>1, OthersUpToDate, OwnStepFrame
  <2>r. ASSUME Return(t) PROVE UpToDate(t)'
    BY <2>r, ReturnEffect DEF UpToDate, At
  <2>2. CASE StartFlow(t) \/ ResetAttempts(t) \/ Dispatch(t) \/ Backoff(t)
    <3>1. th[t].ph \in Lanes
      BY <1>b, <2>2 DEF UpToDate, StartFlow, ResetAttempts, Dispatch, Backoff,
                        WithRow, At
    <3>2. UpToDate(t)'
      BY <2>2, <3>1, GotoUpToDate
         DEF StartFlow, ResetAttempts, Dispatch, Backoff
    <3>q. QED
      BY <1>a, <2>1, <3>2
  <2>3. CASE MarkCompleted(t)
    BY <1>a, <2>1, <2>3, <2>r, GotoUpToDate DEF MarkCompleted
  <2>4. CASE AdvanceFind(t)
    <3> DEFINE next == NextPhase(life.phase)
    <3>1. \/ IsTerminal(life.phase) /\ Goto(t, "terminal", NoPhase)
          \/ next = "done" /\ Goto(t, "finish", NoPhase)
          \/ Goto(t, "advance", next)
      BY <2>4 DEF AdvanceFind
    <3>2. life' = life
      BY <2>4 DEF AdvanceFind, rowVars
    <3>3. UpToDate(t)'
      BY <3>1, <3>2, GotoUpToDate
    <3>q. QED
      BY <1>a, <2>1, <3>3
  <2>5. CASE Advance(t) \/ Reopen(t)
    <3>1. th[t].ph \in Lanes
      BY <2>5 DEF Advance, Reopen, WithRow, At, KanbanInv, CarriedInv
    <3>2. UpToDate(t)'
      BY <2>5, <3>1, GotoUpToDate DEF Advance, Reopen
    <3>q. QED
      BY <1>a, <2>1, <3>2
  <2>6. CASE ReopenAuthorize(t)
    BY <1>a, <2>1, <2>6, <2>r, GotoUpToDate DEF ReopenAuthorize
  <2>7. CASE RetryCount(t)
    <3>1. th[t].ph \in Lanes
      BY <1>b, <2>7 DEF UpToDate, RetryCount, At
    <3>2. UpToDate(t)'
      BY <2>7, <3>1, GotoUpToDate DEF RetryCount
    <3>q. QED
      BY <1>a, <2>1, <3>2
  <2>8. CASE Terminal(t) \/ Finish(t) \/ Fail(t) \/ RowGone(t)
             \/ StatementFails(t) \/ LaunchFails(t)
    BY <1>a, <2>1, <2>8, <2>r DEF Terminal, Finish, Fail, RowGone,
                                  StatementFails, LaunchFails
  <2>q. QED
    BY <1>2, <2>2, <2>3, <2>4, <2>5, <2>6, <2>7, <2>8 DEF OwnStep
<1>3. ASSUME NEW t \in Threads, Launch(t) PROVE UpToDateInv'
  <2>1. \A u \in Threads \ {t} : UpToDate(u)'
    BY <1>3, OthersUpToDate, LaunchEffect DEF rowVars
  <2>2. UpToDate(t)'
    BY <1>3, LaunchEffect DEF UpToDate, At
  <2>q. QED
    BY <1>a, <2>1, <2>2
<1>4. ASSUME NEW t \in Threads, Register(t) PROVE UpToDateInv'
  <2>1. \A u \in Threads \ {t} : UpToDate(u)'
    BY <1>4, OthersUpToDate, ReturnEffect DEF Register, rowVars
  <2>2. UpToDate(t)'
    BY <1>4, ReturnEffect DEF Register, UpToDate, At
  <2>q. QED
    BY <1>a, <2>1, <2>2
<1>5. ASSUME NEW t \in Threads, Authorize(t) \/ ReopenFind(t)
      PROVE  UpToDateInv'
  <2>1. \A u \in Threads \ {t} : UpToDate(u)'
    BY <1>5, OthersUpToDate, AnswerEffect DEF ProtocolInv, rowVars
  <2>r. ASSUME Return(t) PROVE UpToDate(t)'
    BY <2>r, ReturnEffect DEF UpToDate, At
  <2>2. CASE Authorize(t)
    <3>1. th[t].ph \in Lanes
      BY <1>b, <2>2 DEF UpToDate, Authorize, WithRow, At
    <3>2. UpToDate(t)'
      BY <2>2, <2>r, <3>1, GotoUpToDate DEF Authorize
    <3>q. QED
      BY <1>a, <2>1, <3>2
  <2>3. CASE ReopenFind(t)
    <3>1. life' = life
      BY <2>3 DEF ReopenFind, rowVars
    <3>2. UpToDate(t)'
      BY <2>3, <2>r, <3>1, GotoUpToDate DEF ReopenFind
    <3>q. QED
      BY <1>a, <2>1, <3>2
  <2>q. QED
    BY <1>5, <2>2, <2>3
<1>6. ASSUME NEW p \in Procs, HarnessCall(p) PROVE UpToDateInv'
  <2>1. PICK t \in Threads, ph \in Phases \cup {NoPhase} :
           \/ Serve(t, "authorize", ph, p) /\ ph = lane[p]
           \/ Serve(t, "reopenAuth", ph, p) /\ ph \in Lanes
    BY <1>6, CallEffect
  <2>2. lane[p] \in Lanes
    BY <1>6, CallEffect DEF FlowInv, PunctualInv
  <2>3. UpToDate(t)'
    BY <2>1, <2>2, ServeEffect DEF UpToDate, At
  <2>4. \A u \in Threads \ {t} : UpToDate(u)'
    BY <1>6, <2>1, CallEffect, ServeEffect, OthersUpToDate DEF rowVars
  <2>q. QED
    BY <1>a, <2>3, <2>4
<1>7. ASSUME NEW p \in Procs, HarnessExit(p) PROVE UpToDateInv'
  BY <1>a, <1>b, <1>7, ExitEffect DEF UpToDate, At, rowVars
<1>8. ASSUME NEW p \in Procs, Monitor(p) PROVE UpToDateInv'
  <2>1. UNCHANGED << life, attempts >>
    BY <1>8 DEF Monitor, rowVars
  <2>2. CASE th' = th
    BY <1>a, <1>b, <2>1, <2>2 DEF UpToDate, At
  <2>3. CASE mon[p] = "report" /\ \E t \in Threads :
                                     Serve(t, "retryCount", lane[p], NoProc)
    <3>1. PICK t \in Threads : Serve(t, "retryCount", lane[p], NoProc)
      BY <2>3
    <3>2. lane[p] \in Lanes
      BY <2>3 DEF ProtocolInv, CommandInv, FlowInv, PunctualInv
    <3>3. UpToDate(t)'
      BY <3>1, <3>2, ServeEffect DEF UpToDate, At
    <3>4. \A u \in Threads \ {t} : UpToDate(u)'
      BY <2>1, <3>1, ServeEffect, OthersUpToDate
    <3>q. QED
      BY <1>a, <3>3, <3>4
  <2>q. QED
    BY <1>8, <2>2, <2>3, MonitorEffect DEF ProtocolInv
<1>9. Stop => UpToDateInv'
  BY <1>a, StopEffect DEF UpToDate, At, Idle
<1>q. QED
  BY <1>1, <1>2, <1>3, <1>4, <1>5, <1>6, <1>7, <1>8, <1>9, FlowSteps
     DEF ProtocolInv

\* The count of late ends never decreases.
LEMMA LateStays ==
  ASSUME KanbanInv, LeftAlone, ProtocolInv, [Next]_vars
  PROVE  late' = late \/ late' = late + 1
<1> USE DEF ProtocolInv
<1>1. CASE UNCHANGED vars
  BY <1>1 DEF vars, aux, bounds
<1>2. \A t \in Threads : Create(t) \/ Register(t) => late' = late
  BY DEF Create, Register, aux, bounds
<1>3. CASE Next
  BY <1>2, <1>3, FlowSteps, OwnStepFrame, LaunchEffect, AnswerEffect,
     CallEffect, ExitEffect, MonitorEffect, StopEffect
<1>q. QED
  BY <1>1, <1>3

\* Every step keeps the invariant of the flow until a command ends late.
LEMMA FlowInvStep ==
  ASSUME KanbanInv, LeftAlone, ProtocolInv, late = 0 => FlowInv, [Next]_vars
  PROVE  late' = 0 => FlowInv'
<1> SUFFICES ASSUME late' = 0 PROVE FlowInv'
  OBVIOUS
<1>0. late = 0 /\ Punctual /\ FlowInv
  BY LateStays, FlowTypes DEF Punctual
<1>1. CASE Next
  BY <1>0, <1>1, PunctualStep, UpToDateStep DEF FlowInv
<1>2. CASE UNCHANGED vars
  <2> USE <1>0, <1>2 DEF vars, rowVars, procVars, harnessVars, FlowInv
  <2>1. PunctualInv'
    BY DEF PunctualInv, Calling
  <2>2. UpToDateInv'
    BY DEF UpToDateInv, UpToDate, At
  <2>q. QED
    BY <2>1, <2>2
<1>q. QED
  BY <1>1, <1>2

\* FlowInv holds in a flow nobody interferes with, until a command ends late.
THEOREM FlowInvariance ==
  ASSUME LeftAlone
  PROVE  Spec => [](late = 0 => FlowInv)
<1>1. Init => FlowInv
  BY DEF Init, H!HarnessInit, Idle, FlowInv, PunctualInv, Calling, UpToDateInv,
         UpToDate, At
<1>2. KanbanInv /\ ProtocolInv /\ (late = 0 => FlowInv) /\ [Next]_vars =>
          (late = 0 => FlowInv)'
  BY FlowInvStep
<1>q. QED
  BY KanbanInvariance, ProtocolInvariance, <1>1, <1>2, PTL DEF Spec

\* Of the steps of a goroutine only these three move the card.
LEMMA OnlyMovers ==
  ASSUME NEW t \in Threads, OwnStep(t), life'.phase # life.phase, life \in Life
  PROVE  Advance(t) \/ Finish(t) \/ Reopen(t)
<1>1. CASE Dispatch(t) \/ MarkCompleted(t) \/ Terminal(t) \/ Fail(t)
  BY <1>1 DEF Dispatch, Dispatched, MarkCompleted, Terminal, MarkedCompleted,
              Fail, Failed, Life
<1>2. CASE StartFlow(t) \/ ResetAttempts(t) \/ AdvanceFind(t)
           \/ ReopenAuthorize(t) \/ RetryCount(t) \/ Backoff(t) \/ RowGone(t)
           \/ StatementFails(t) \/ LaunchFails(t)
  BY <1>2 DEF StartFlow, ResetAttempts, AdvanceFind, ReopenAuthorize,
              RetryCount, Backoff, RowGone, StatementFails, LaunchFails, rowVars
<1>q. QED
  BY <1>1, <1>2 DEF OwnStep

\* Until a command ends late the card moves to the next lane, or back by a
\* reopen that keeps its reason: no lane is skipped by two decisions on one read.
THEOREM LaneByLane ==
  ASSUME LeftAlone
  PROVE  Spec => LaneOrder
<1> DEFINE Moves == life'.phase # life.phase =>
                       \/ life'.phase = NextPhase(life.phase)
                       \/ Before(life'.phase, life.phase) /\ life'.reopenReason
<1>1. ASSUME KanbanInv, ProtocolInv, FlowInv, Next PROVE Moves
  <2> USE <1>1, FlowTypes
  <2>u. \A t \in Threads : UpToDate(t)
    BY DEF FlowInv, UpToDateInv
  <2>1. ASSUME NEW t \in Threads, Create(t) PROVE Moves
    BY <2>1 DEF Create, ProtocolInv, QuietInv
  <2>2. ASSUME NEW t \in Threads, OwnStep(t) PROVE Moves
    <3>1. CASE life'.phase # life.phase
      <4>1. Advance(t) \/ Finish(t) \/ Reopen(t)
        BY <2>2, <3>1, OnlyMovers
      <4>2. ASSUME Advance(t) PROVE life'.phase = NextPhase(life.phase)
        BY <4>2, <2>u DEF Advance, AdvancedTo, WithRow, UpToDate, Life
      <4>3. ASSUME Finish(t) PROVE life'.phase = NextPhase(life.phase)
        BY <4>3, <2>u DEF Finish, Finished, WithRow, UpToDate, Life
      <4>4. ASSUME Reopen(t)
            PROVE  Before(life'.phase, life.phase) /\ life'.reopenReason
        BY <4>4, <2>u DEF Reopen, ReopenedTo, WithRow, UpToDate, Life
      <4>q. QED
        BY <4>1, <4>2, <4>3, <4>4
    <3>q. QED
      BY <3>1
  <2>3. ASSUME NEW t \in Threads, Launch(t) \/ Register(t) PROVE Moves
    BY <2>3 DEF Launch, Register, rowVars
  <2>4. ASSUME NEW t \in Threads, Authorize(t) \/ ReopenFind(t) PROVE Moves
    BY <2>4 DEF Authorize, ReopenFind, rowVars
  <2>5. ASSUME NEW p \in Procs, HarnessCall(p) \/ HarnessExit(p) \/ Monitor(p)
        PROVE  Moves
    BY <2>5, CallEffect, ExitEffect, MonitorEffect DEF ProtocolInv, rowVars
  <2>6. Stop => Moves
    BY DEF Stop, rowVars
  <2>q. QED
    BY <2>1, <2>2, <2>3, <2>4, <2>5, <2>6, FlowSteps DEF ProtocolInv
<1>2. KanbanInv /\ ProtocolInv /\ (late = 0 => FlowInv) /\ [Next]_vars =>
          [late = 0 /\ life'.phase # life.phase =>
               \/ life'.phase = NextPhase(life.phase)
               \/ Before(life'.phase, life.phase) /\ life'.reopenReason]_vars
  BY <1>1
<1>q. QED
  BY KanbanInvariance, ProtocolInvariance, FlowInvariance, <1>2, PTL
     DEF Spec, LaneOrder

\* Until a command ends late only a task whose retries are exhausted fails,
\* although the counter belongs to the task and every lane starts it anew.
THEOREM FailsOnlyWhenExhausted ==
  ASSUME LeftAlone
  PROVE  Spec => FailsWhenExhausted
<1> DEFINE Exhausted == life'.status = "failed" /\ life.status # "failed" =>
                            attempts > MaxRetries
<1>1. ASSUME KanbanInv, ProtocolInv, FlowInv, Next PROVE Exhausted
  <2> USE <1>1, FlowTypes
  <2>1. ASSUME NEW t \in Threads, Create(t) PROVE Exhausted
    BY <2>1 DEF Create, FreshLife
  <2>2. ASSUME NEW t \in Threads, OwnStep(t) PROVE Exhausted
    <3>1. CASE Fail(t)
      BY <3>1 DEF Fail, WithRow, FlowInv, UpToDateInv, UpToDate
    <3>2. CASE Dispatch(t) \/ MarkCompleted(t) \/ Terminal(t) \/ Finish(t)
               \/ Advance(t) \/ Reopen(t)
      BY <3>2 DEF Dispatch, Dispatched, MarkCompleted, Terminal,
           MarkedCompleted, Finish, Finished, Advance, AdvancedTo, Reopen,
           ReopenedTo, Life
    <3>3. CASE StartFlow(t) \/ ResetAttempts(t) \/ AdvanceFind(t)
               \/ ReopenAuthorize(t) \/ RetryCount(t) \/ Backoff(t)
               \/ RowGone(t) \/ StatementFails(t) \/ LaunchFails(t)
      BY <3>3 DEF StartFlow, ResetAttempts, AdvanceFind, ReopenAuthorize,
           RetryCount, Backoff, RowGone, StatementFails, LaunchFails, rowVars
    <3>q. QED
      BY <2>2, <3>1, <3>2, <3>3 DEF OwnStep
  <2>3. ASSUME NEW t \in Threads, Launch(t) \/ Register(t) PROVE Exhausted
    BY <2>3 DEF Launch, Register, rowVars
  <2>4. ASSUME NEW t \in Threads, Authorize(t) \/ ReopenFind(t)
        PROVE  Exhausted
    BY <2>4 DEF Authorize, ReopenFind, rowVars
  <2>5. ASSUME NEW p \in Procs, HarnessCall(p) \/ HarnessExit(p) \/ Monitor(p)
        PROVE  Exhausted
    BY <2>5, CallEffect, ExitEffect, MonitorEffect DEF ProtocolInv, rowVars
  <2>6. Stop => Exhausted
    BY DEF Stop, rowVars
  <2>q. QED
    BY <2>1, <2>2, <2>3, <2>4, <2>5, <2>6, FlowSteps DEF ProtocolInv
<1>2. KanbanInv /\ ProtocolInv /\ (late = 0 => FlowInv) /\ [Next]_vars =>
          [late = 0 /\ life'.status = "failed" /\ life.status # "failed" =>
               attempts > MaxRetries]_vars
  BY <1>1
<1>q. QED
  BY KanbanInvariance, ProtocolInvariance, FlowInvariance, <1>2, PTL
     DEF Spec, FailsWhenExhausted
-----------------------------------------------------------------------------
(* The card                                                                  *)

\* The card is in progress in the lane ph, which has a retry or its last try
\* left.
WorkedOn(ph) == /\ life.status = "in_progress" /\ life.phase = ph
                /\ attempts <= MaxRetries

\* What is true of the card while a goroutine is on its way with it.
Duty(t) ==
    /\ th[t].pc \in {"start", "reset"} =>
           life.status = "pending" /\ life.phase = th[t].ph
    /\ At(t, "dispatch") => /\ Active(life) /\ life.phase = th[t].ph
                            /\ attempts <= MaxRetries
    /\ th[t].pc \in {"launch", "retryCount", "backoff"} => WorkedOn(th[t].ph)
    /\ th[t].pc \in {"mark", "reopen", "fail"} => life.status = "in_progress"
    /\ th[t].pc \in {"mark", "advFind", "advance", "finish"} =>
           life.phase \in Lanes
    /\ th[t].pc \in {"advFind", "advance", "finish"} =>
           life.status = "completed"
    /\ ~At(t, "terminal")

\* The inductive form of the refinement, until a command ends late: who acts on
\* the card knows its lane and its status, and a command works on the lane the
\* card is in.
WorkInv == /\ \A t \in Threads : Duty(t)
           /\ \A p \in Procs : CommandAgent(p) => WorkedOn(lane[p])

\* Who is not on its way has nothing to know of the card.
LEMMA BystandersDuty ==
  ASSUME NEW t \in Threads, ~ThreadAgent(t)
  PROVE  Duty(t)
BY DEF ThreadAgent, Duty, At

\* A step of one goroutine or none leaves the others with what they know.
LEMMA OthersDuty ==
  ASSUME ProtocolInv, late = 0, WorkInv, NEW t,
         \A u \in Threads \ {t} : th'[u] = th[u],
         \/ t \in Threads /\ ThreadAgent(t)
         \/ UNCHANGED << life, attempts >>
  PROVE  \A u \in Threads \ {t} : Duty(u)'
<1>1. ASSUME NEW u \in Threads \ {t} PROVE Duty(u)'
  <2>1. CASE t \in Threads /\ ThreadAgent(t)
    <3>1. ~ThreadAgent(u)
      BY <2>1, AloneOnItsWay
    <3>q. QED
      BY <3>1 DEF ThreadAgent, Duty, At
  <2>2. CASE UNCHANGED << life, attempts >>
    BY <2>2 DEF WorkInv, Duty, WorkedOn, At
  <2>q. QED
    BY <2>1, <2>2
<1>q. QED
  BY <1>1

\* What has to be so when a goroutine goes on to pc with the phase ph.
LEMMA GotoDuty ==
  ASSUME th \in [Threads -> Goroutine], NEW t \in Threads,
         NEW pc, NEW ph, Goto(t, pc, ph),
         pc = "reset" => life'.status = "pending" /\ life'.phase = ph,
         pc = "dispatch" => /\ Active(life') /\ life'.phase = ph
                            /\ attempts' <= MaxRetries,
         pc \in {"launch", "backoff"} =>
             /\ life'.status = "in_progress" /\ life'.phase = ph
             /\ attempts' <= MaxRetries,
         pc = "fail" => life'.status = "in_progress",
         pc \in {"advFind", "advance", "finish"} =>
             life'.phase \in Lanes /\ life'.status = "completed",
         pc \notin {"start", "retryCount", "mark", "reopen", "terminal"}
  PROVE  Duty(t)'
<1>1. th'[t].pc = pc /\ th'[t].ph = ph
  BY DEF Goto, Goroutine
<1>q. QED
  BY <1>1 DEF Duty, At, Active, WorkedOn

\* A goroutine's own step leaves it with what it has to know next.
LEMMA OwnDuty ==
  ASSUME KanbanInv, LeftAlone, FlowInv, WorkInv, NEW t \in Threads, OwnStep(t)
  PROVE  Duty(t)'
<1> USE FlowTypes, MaxRetriesAssumption
<1>u. UpToDate(t) /\ Duty(t)
  BY DEF FlowInv, UpToDateInv, WorkInv
<1>r. ASSUME Return(t) PROVE Duty(t)'
  BY <1>r, ReturnEffect DEF Duty, At
<1>1. CASE StartFlow(t)
  <2>1. /\ Goto(t, "reset", th[t].ph)
        /\ life'.status = "pending" /\ life'.phase = th[t].ph
    BY <1>u, <1>1 DEF StartFlow, WithRow, At, Duty, rowVars
  <2>q. QED
    BY <2>1, GotoDuty
<1>2. CASE ResetAttempts(t)
  <2>1. /\ Goto(t, "dispatch", th[t].ph)
        /\ Active(life') /\ life'.phase = th[t].ph /\ attempts' <= MaxRetries
    BY <1>u, <1>2 DEF ResetAttempts, At, Duty, rowVars, Active
  <2>q. QED
    BY <2>1, GotoDuty
<1>3. CASE Dispatch(t)
  <2>1. /\ Goto(t, "launch", th[t].ph)
        /\ life'.status = "in_progress" /\ life'.phase = th[t].ph
        /\ attempts' <= MaxRetries
    BY <1>u, <1>3
       DEF Dispatch, Dispatched, WithRow, At, Duty, WorkedOn, Life
  <2>q. QED
    BY <2>1, GotoDuty
<1>4. CASE MarkCompleted(t)
  <2>1. life'.phase \in Lanes /\ life'.status = "completed"
    BY <1>u, <1>4 DEF MarkCompleted, MarkedCompleted, WithRow, At, Duty, Life
  <2>2. Goto(t, "advFind", NoPhase) \/ Return(t)
    BY <1>4 DEF MarkCompleted
  <2>q. QED
    BY <1>r, <2>1, <2>2, GotoDuty
<1>5. CASE AdvanceFind(t)
  <2>1. ~IsTerminal(life.phase) /\ UNCHANGED rowVars
    BY <1>u, <1>5 DEF AdvanceFind, WithRow, At, Duty, IsTerminal, Lanes
  <2>2. \/ Goto(t, "finish", NoPhase)
        \/ Goto(t, "advance", NextPhase(life.phase))
    BY <1>5, <2>1 DEF AdvanceFind
  <2>3. life'.phase \in Lanes /\ life'.status = "completed"
    BY <1>u, <1>5, <2>1 DEF AdvanceFind, WithRow, At, Duty, rowVars
  <2>q. QED
    BY <2>2, <2>3, GotoDuty
<1>6. CASE Advance(t) \/ Reopen(t)
  <2>1. /\ Goto(t, "reset", th[t].ph)
        /\ life'.status = "pending" /\ life'.phase = th[t].ph
    BY <1>6 DEF Advance, AdvancedTo, Reopen, ReopenedTo, Life
  <2>q. QED
    BY <2>1, GotoDuty
<1>7. CASE ReopenAuthorize(t)
  <2>1. Goto(t, "reopenFind", th[t].ph) \/ Return(t)
    BY <1>7 DEF ReopenAuthorize
  <2>q. QED
    BY <1>r, <2>1, GotoDuty
<1>8. CASE RetryCount(t)
  <2>1. WorkedOn(th[t].ph) /\ UNCHANGED rowVars /\ attempts' = attempts + 1
    BY <1>u, <1>8 DEF RetryCount, At, Duty
  <2>2. \/ Goto(t, "fail", th[t].ph)
        \/ Goto(t, "backoff", th[t].ph) /\ attempts' <= MaxRetries
    BY <1>8, <2>1 DEF RetryCount
  <2>3. life'.status = "in_progress" /\ life'.phase = th[t].ph
    BY <2>1 DEF WorkedOn, rowVars
  <2>q. QED
    BY <2>2, <2>3, GotoDuty
<1>9. CASE Backoff(t)
  <2>1. /\ Goto(t, "dispatch", th[t].ph)
        /\ Active(life') /\ life'.phase = th[t].ph /\ attempts' <= MaxRetries
    BY <1>u, <1>9
       DEF Backoff, WithRow, At, Duty, WorkedOn, Active, rowVars
  <2>q. QED
    BY <2>1, GotoDuty
<1>10. CASE Terminal(t) \/ Finish(t) \/ Fail(t) \/ RowGone(t)
            \/ StatementFails(t) \/ LaunchFails(t)
  BY <1>r, <1>10 DEF Terminal, Finish, Fail, RowGone, StatementFails,
                     LaunchFails
<1>q. QED
  BY <1>1, <1>2, <1>3, <1>4, <1>5, <1>6, <1>7, <1>8, <1>9, <1>10 DEF OwnStep

\* Every step of the undisturbed flow keeps it.
LEMMA WorkStep ==
  ASSUME KanbanInv, LeftAlone, ProtocolInv, FlowInv, WorkInv, Next, Punctual
  PROVE  WorkInv'
<1> USE FlowTypes
<1>s. late = 0 /\ \A t \in Threads : Duty(t)
  BY DEF Punctual, WorkInv
<1>w. \A p \in Procs : CommandAgent(p) => WorkedOn(lane[p])
  BY DEF WorkInv
<1>1. ASSUME NEW t \in Threads, Create(t) PROVE WorkInv'
  <2>1. /\ \A u \in Threads : At(u, "idle")
        /\ \A p \in Procs : ~CommandAgent(p)'
    BY <1>1 DEF Create, ProtocolInv, QuietInv, CommandAgent, procVars,
                harnessVars
  <2>2. /\ th'[t].pc = "start" /\ th'[t].ph = "planning"
        /\ \A u \in Threads \ {t} : th'[u] = th[u]
    BY <1>1, ServeEffect DEF Create
  <2>3. life'.status = "pending" /\ life'.phase = "planning"
    BY <1>1 DEF Create, FreshLife
  <2>q. QED
    BY <2>1, <2>2, <2>3 DEF WorkInv, Duty, At
<1>2. ASSUME NEW t \in Threads, OwnStep(t) PROVE WorkInv'
  <2>1. ThreadAgent(t) \/ UNCHANGED << life, attempts >>
    BY <1>2 DEF OwnStep, StartFlow, ResetAttempts, Dispatch, MarkCompleted,
         AdvanceFind, Terminal, Finish, Advance, ReopenAuthorize, Reopen,
         RetryCount, Fail, Backoff, RowGone, StatementFails, LaunchFails,
         ThreadAgent, At, WithRow, rowVars
  <2>2. \A u \in Threads \ {t} : Duty(u)'
    BY <1>2, <1>s, <2>1, OthersDuty, OwnStepFrame
  <2>3. ASSUME NEW p \in Procs, CommandAgent(p)' PROVE WorkedOn(lane[p])'
    <3>1. CommandAgent(p) /\ lane'[p] = lane[p]
      BY <1>2, <2>3, OwnStepFrame DEF CommandAgent, procVars, harnessVars
    <3>2. UNCHANGED << life, attempts >>
      BY <1>s, <2>1, <3>1, AloneOnItsWay
    <3>q. QED
      BY <1>w, <3>1, <3>2 DEF WorkedOn
  <2>q. QED
    BY <1>2, <2>2, <2>3, OwnDuty DEF WorkInv
<1>3. ASSUME NEW t \in Threads, Launch(t) PROVE WorkInv'
  <2>1. PICK p \in Procs :
           /\ os' = [os EXCEPT ![p] = "alive"] /\ mon' = mon
           /\ lane' = [lane EXCEPT ![p] = th[t].ph]
           /\ spent' = spent \ {p}
           /\ UNCHANGED rowVars /\ attempts' = attempts
           /\ th'[t].pc = "register"
           /\ \A u \in Threads \ {t} : th'[u] = th[u]
    BY <1>3, LaunchEffect
  <2>2. ThreadAgent(t) /\ WorkedOn(th[t].ph)
    BY <1>3, <1>s DEF Launch, At, ThreadAgent, Duty
  <2>3. \A q \in Procs : ~CommandAgent(q)
    BY <1>s, <2>2, AloneOnItsWay
  <2>4. \A q \in Procs : CommandAgent(q)' => q = p
    BY <2>1, <2>3 DEF CommandAgent
  <2>5. WorkedOn(lane[p])'
    BY <2>1, <2>2 DEF WorkedOn, rowVars
  <2>6. \A u \in Threads : Duty(u)'
    BY <1>s, <2>1 DEF Duty, At, WorkedOn, rowVars
  <2>q. QED
    BY <2>4, <2>5, <2>6 DEF WorkInv
<1>4. ASSUME NEW t \in Threads, Register(t) PROVE WorkInv'
  <2>1. \A u \in Threads : Duty(u)'
    BY <1>4, <1>s, ReturnEffect DEF Register, Duty, At, WorkedOn, rowVars
  <2>2. \A q \in Procs : CommandAgent(q)' => CommandAgent(q)
    BY <1>4 DEF Register, H!Register, CommandAgent
  <2>q. QED
    BY <1>4, <1>w, <2>1, <2>2 DEF Register, WorkInv, WorkedOn, rowVars
<1>5. ASSUME NEW t \in Threads, Authorize(t) \/ ReopenFind(t) PROVE WorkInv'
  <2>0. /\ CallInv /\ CommandInv
        /\ UNCHANGED << life, attempts, os, mon, lane >>
    BY <1>5, AnswerEffect DEF ProtocolInv, rowVars
  <2>1. PICK p \in Procs : /\ p = th[t].who /\ os[p] = "alive" /\ p \notin spent
                           /\ spent' \in {spent, spent \cup {p}}
    BY <1>5, <2>0, AnswerEffect DEF FlowInv, PunctualInv
  <2>2. WorkedOn(lane[p]) /\ lane[p] \in Lanes
    BY <1>w, <2>0, <2>1 DEF CommandAgent, CommandInv, FlowInv, PunctualInv
  <2>3. Duty(t)'
    BY <1>5, <2>0, <2>2, AnswerEffect DEF Duty, At, WorkedOn
  <2>4. \A u \in Threads \ {t} : Duty(u)'
    BY <1>5, <1>s, <2>0, OthersDuty, AnswerEffect
  <2>5. \A q \in Procs : CommandAgent(q)' => CommandAgent(q)
    BY <2>0, <2>1 DEF CommandAgent
  <2>q. QED
    BY <1>w, <2>0, <2>3, <2>4, <2>5 DEF WorkInv, WorkedOn
<1>6. ASSUME NEW p \in Procs, HarnessCall(p) PROVE WorkInv'
  <2>1. PICK t \in Threads, ph \in Phases \cup {NoPhase} :
           \/ Serve(t, "authorize", ph, p)
           \/ Serve(t, "reopenAuth", ph, p)
    BY <1>6, CallEffect
  <2>2. UNCHANGED << life, attempts, lane, os, mon, spent >>
    BY <1>6, CallEffect DEF rowVars, procVars, harnessVars
  <2>3. Duty(t)'
    BY <2>1, ServeEffect DEF Duty, At
  <2>4. \A u \in Threads \ {t} : Duty(u)'
    BY <1>s, <2>1, <2>2, OthersDuty, ServeEffect
  <2>q. QED
    BY <1>w, <2>2, <2>3, <2>4 DEF WorkInv, WorkedOn, CommandAgent
<1>7. ASSUME NEW p \in Procs, HarnessExit(p) PROVE WorkInv'
  <2>1. UNCHANGED << life, attempts, th >>
    BY <1>7, ExitEffect DEF rowVars
  <2>2. \A u \in Threads : Duty(u)'
    BY <1>s, <2>1 DEF Duty, At, WorkedOn
  <2>3. \A q \in Procs : CommandAgent(q)' => CommandAgent(q) /\ lane'[q] = lane[q]
    BY <1>7, ExitEffect DEF CommandAgent, Punctual
  <2>q. QED
    BY <1>w, <2>1, <2>2, <2>3 DEF WorkInv, WorkedOn
<1>8. ASSUME NEW p \in Procs, Monitor(p) PROVE WorkInv'
  <2>0. UNCHANGED << life, attempts >> /\ QuietInv
    BY <1>8 DEF Monitor, rowVars, ProtocolInv
  <2>1. ASSUME NEW q \in Procs, CommandAgent(q)' PROVE WorkedOn(lane[q])'
    <3>1. CommandAgent(q) /\ lane'[q] = lane[q]
      BY <1>8, <2>0, <2>1, MonitorEffect DEF CommandAgent
    <3>q. QED
      BY <1>w, <2>0, <3>1 DEF WorkedOn
  <2>2. CASE th' = th
    BY <1>s, <2>0, <2>1, <2>2 DEF WorkInv, Duty, At, WorkedOn
  <2>3. CASE mon[p] = "report" /\ \E t \in Threads :
                                     Serve(t, "retryCount", lane[p], NoProc)
    <3>1. PICK t \in Threads : Serve(t, "retryCount", lane[p], NoProc)
      BY <2>3
    <3>2. WorkedOn(lane[p])
      BY <1>w, <2>3 DEF CommandAgent, ProtocolInv, CommandInv
    <3>3. Duty(t)'
      BY <2>0, <3>1, <3>2, ServeEffect DEF Duty, At, WorkedOn
    <3>4. \A u \in Threads \ {t} : Duty(u)'
      BY <1>s, <2>0, <3>1, ServeEffect, OthersDuty
    <3>q. QED
      BY <2>1, <3>3, <3>4 DEF WorkInv
  <2>q. QED
    BY <1>8, <2>0, <2>2, <2>3, MonitorEffect
<1>9. ASSUME Stop PROVE WorkInv'
  <2>1. \A u \in Threads : Duty(u)'
    BY <1>9, StopEffect DEF Duty, At, Idle
  <2>2. attempts' = 0 /\ life' = life
    BY <1>9 DEF Stop, rowVars
  <2>3. \A q \in Procs : CommandAgent(q)' => CommandAgent(q) /\ lane'[q] = lane[q]
    BY <1>9, StopEffect DEF CommandAgent, ProtocolInv, CommandInv
  <2>q. QED
    BY <1>w, <2>1, <2>2, <2>3, MaxRetriesAssumption DEF WorkInv, WorkedOn
<1>q. QED
  BY <1>1, <1>2, <1>3, <1>4, <1>5, <1>6, <1>7, <1>8, <1>9, FlowSteps
     DEF ProtocolInv

\* WorkInv holds in a flow nobody interferes with, until a command ends late.
THEOREM WorkInvariance ==
  ASSUME LeftAlone
  PROVE  Spec => [](late = 0 => WorkInv)
<1>1. Init => WorkInv
  BY DEF Init, H!HarnessInit, WorkInv, Duty, At, Idle, CommandAgent
<1>2. KanbanInv /\ ProtocolInv /\ (late = 0 => FlowInv)
      /\ (late = 0 => WorkInv) /\ [Next]_vars => (late = 0 => WorkInv)'
  <2> SUFFICES ASSUME KanbanInv, ProtocolInv, late = 0 => FlowInv,
                      late = 0 => WorkInv, [Next]_vars, late' = 0
               PROVE  WorkInv'
    OBVIOUS
  <2>0. late = 0 /\ Punctual /\ FlowInv /\ WorkInv
    BY LateStays, FlowTypes DEF Punctual
  <2>1. CASE UNCHANGED vars
    BY <2>0, <2>1 DEF vars, rowVars, procVars, harnessVars, WorkInv, Duty,
                      WorkedOn, At, CommandAgent
  <2>2. CASE Next
    BY <2>0, <2>2, WorkStep
  <2>q. QED
    BY <2>1, <2>2
<1>q. QED
  BY KanbanInvariance, ProtocolInvariance, FlowInvariance, <1>1, <1>2, PTL
     DEF Spec

\* Card sees the row as Kanban does: both have it from TaskRow.
LEMMA SameRow ==
  /\ C!FreshLife = FreshLife /\ C!Lanes = Lanes
  /\ \A l \in Life :
        /\ C!Active(l) <=> Active(l)
        /\ C!Dispatched(l) = Dispatched(l)
        /\ C!MarkedCompleted(l) = MarkedCompleted(l)
        /\ C!Finished(l) = Finished(l) /\ C!Failed(l) = Failed(l)
  /\ \A l \in Life, p \in Lanes : /\ C!AdvancedTo(l, p) = AdvancedTo(l, p)
                                 /\ C!ReopenedTo(l, p) = ReopenedTo(l, p)
  /\ \A p \in Phases : C!NextPhase(p) = NextPhase(p)
  /\ \A p \in Phases, q \in Phases : C!Before(p, q) <=> Before(p, q)
<1>1. C!FreshLife = FreshLife /\ C!Lanes = Lanes
  BY DEF C!FreshLife, FreshLife, C!Lanes, Lanes, C!Phases, Phases
<1>2. \A l \in Life :
         /\ C!Active(l) <=> Active(l)
         /\ C!Dispatched(l) = Dispatched(l)
         /\ C!MarkedCompleted(l) = MarkedCompleted(l)
         /\ C!Finished(l) = Finished(l) /\ C!Failed(l) = Failed(l)
  BY DEF C!Active, Active, C!Dispatched, Dispatched, C!MarkedCompleted,
         MarkedCompleted, C!Finished, Finished, C!Failed, Failed
<1>3. \A l \in Life, p \in Lanes : /\ C!AdvancedTo(l, p) = AdvancedTo(l, p)
                                  /\ C!ReopenedTo(l, p) = ReopenedTo(l, p)
  BY DEF C!AdvancedTo, AdvancedTo, C!ReopenedTo, ReopenedTo
<1>4. C!PhaseSeq = PhaseSeq /\ C!Phases = Phases
  BY DEF C!PhaseSeq, PhaseSeq, C!Phases, Phases
<1>5. \A p \in Phases : C!Index(p) = Index(p)
  BY <1>4 DEF C!Index, Index
<1>6. \A p \in Phases : C!NextPhase(p) = NextPhase(p)
  BY <1>4, <1>5 DEF C!NextPhase, NextPhase, C!HasNext, HasNext, C!NoPhase,
                    NoPhase
<1>7. \A p \in Phases, q \in Phases : C!Before(p, q) <=> Before(p, q)
  BY <1>5 DEF C!Before, Before
<1>q. QED
  BY <1>1, <1>2, <1>3, <1>6, <1>7

\* What the moves take into account is so as long as no command has ended late;
\* afterwards they have nothing to take into account.
LEMMA Conditions ==
  ASSUME KanbanInv, LeftAlone, late = 0 => FlowInv, late = 0 => WorkInv,
         late = 0, NEW t \in Threads
  PROVE  /\ At(t, "reset") => life.status = "pending"
         /\ At(t, "dispatch") => Active(life) /\ attempts <= MaxRetries
         /\ At(t, "mark") => life.status = "in_progress" /\ life.phase \in Lanes
         /\ th[t].pc \in {"advance", "finish"} =>
                life.status = "completed" /\ life.phase \in Lanes
         /\ At(t, "advance") => th[t].ph = NextPhase(life.phase)
         /\ At(t, "finish") => NextPhase(life.phase) = "done"
         /\ At(t, "reopen") => /\ life.status = "in_progress"
                               /\ Before(th[t].ph, life.phase)
         /\ At(t, "retryCount") => /\ life.status = "in_progress"
                                   /\ attempts <= MaxRetries
         /\ At(t, "fail") => life.status = "in_progress" /\ attempts > MaxRetries
         /\ ~At(t, "terminal")
<1>1. UpToDate(t) /\ Duty(t)
  BY DEF FlowInv, UpToDateInv, WorkInv
<1>q. QED
  BY <1>1 DEF UpToDate, Duty, At, WorkedOn

\* Every step is a move of the card, or leaves it alone.
LEMMA CardStep ==
  ASSUME KanbanInv, LeftAlone, ProtocolInv, late = 0 => FlowInv,
         late = 0 => WorkInv, [Next]_vars
  PROVE  [C!Next]_(C!vars)
<1> USE FlowTypes, SameRow
<1>l. life.phase \in Phases /\ Lanes \subseteq Phases
  BY DEF Life, Lanes
<1>c. \A t \in Threads : th[t].pc \in {"advance", "reopen"} => th[t].ph \in Lanes
  BY DEF KanbanInv, CarriedInv, At
<1>f. UNCHANGED << life, table, attempts, stops, late >> => UNCHANGED C!vars
  BY DEF C!vars, Live
<1>1. ASSUME NEW t \in Threads, Create(t) PROVE C!Next
  BY <1>1 DEF Create, Live, C!Create, C!Next, aux, bounds
<1>2. ASSUME NEW t \in Threads, OwnStep(t) PROVE [C!Next]_(C!vars)
  <2> USE <1>2, Conditions DEF WithRow, At, aux, bounds, rowVars
  <2>m. Live' = Live
    BY OwnStepFrame DEF Live
  <2>1. CASE StartFlow(t) \/ AdvanceFind(t) \/ ReopenAuthorize(t)
             \/ Backoff(t) \/ RowGone(t) \/ StatementFails(t)
             \/ LaunchFails(t)
    BY <1>f, <2>1 DEF StartFlow, AdvanceFind, ReopenAuthorize, Backoff, RowGone,
                      StatementFails, LaunchFails
  <2>2. CASE ResetAttempts(t)
    <3>1. C!StartAfresh
      BY <2>2, <2>m DEF ResetAttempts, C!StartAfresh
    <3>q. QED
      BY <3>1 DEF C!Next
  <2>3. CASE Dispatch(t)
    <3>1. C!PickUp
      BY <2>3, <2>m DEF Dispatch, C!PickUp, C!Move
    <3>q. QED
      BY <3>1 DEF C!Next
  <2>4. CASE MarkCompleted(t)
    <3>1. C!Complete
      BY <2>4, <2>m DEF MarkCompleted, C!Complete, C!Move
    <3>q. QED
      BY <3>1 DEF C!Next
  <2>5. CASE Finish(t)
    <3>1. C!Move(C!MayMoveOn("done"), C!Finished(life))
      BY <1>l, <2>5, <2>m DEF Finish, C!MayMoveOn, C!Move
    <3>q. QED
      BY <3>1 DEF C!MoveOn, C!Next
  <2>6. CASE Advance(t)
    <3>1. th[t].ph \in C!Lanes
      BY <1>c, <2>6 DEF Advance
    <3>2. C!Move(C!MayMoveOn(th[t].ph), C!AdvancedTo(life, th[t].ph))
      BY <1>l, <2>6, <2>m, <3>1 DEF Advance, C!MayMoveOn, C!Move
    <3>q. QED
      BY <3>1, <3>2 DEF C!MoveOn, C!Next
  <2>7. CASE Reopen(t)
    <3>1. th[t].ph \in Lanes
      BY <1>c, <2>7 DEF Reopen
    <3>2. C!SendBack
      BY <1>l, <2>7, <2>m, <3>1 DEF Reopen, C!SendBack, C!Move
    <3>q. QED
      BY <3>2 DEF C!Next
  <2>8. CASE RetryCount(t)
    <3>1. C!Count
      BY <2>8, <2>m DEF RetryCount, C!Count
    <3>q. QED
      BY <3>1 DEF C!Next
  <2>9. CASE Fail(t)
    <3>1. C!GiveUp
      BY <2>9, <2>m DEF Fail, C!GiveUp, C!Move
    <3>q. QED
      BY <3>1 DEF C!Next
  <2>10. CASE Terminal(t)
    <3>1. C!Complete
      BY <2>10, <2>m DEF Terminal, C!Complete, C!Move
    <3>q. QED
      BY <3>1 DEF C!Next
  <2>q. QED
    BY <2>1, <2>2, <2>3, <2>4, <2>5, <2>6, <2>7, <2>8, <2>9, <2>10 DEF OwnStep
<1>3. ASSUME NEW t \in Threads,
             Launch(t) \/ Register(t) \/ Authorize(t) \/ ReopenFind(t)
      PROVE  UNCHANGED C!vars
  BY <1>f, <1>3 DEF Launch, Register, Authorize, ReopenFind, rowVars, aux,
                    bounds
<1>4. ASSUME NEW p \in Procs, HarnessCall(p) \/ Monitor(p)
      PROVE  UNCHANGED C!vars
  BY <1>f, <1>4, CallEffect, MonitorEffect DEF ProtocolInv, rowVars
<1>5. ASSUME NEW p \in Procs, HarnessExit(p) PROVE [C!Next]_(C!vars)
  <2>1. UNCHANGED << life, table, attempts, stops >>
        /\ (late' = late \/ late' = late + 1)
    BY <1>5, ExitEffect DEF rowVars
  <2>2. late' = late + 1 => C!LateEnd
    BY <2>1 DEF C!LateEnd, Live
  <2>q. QED
    BY <1>f, <2>1, <2>2 DEF C!Next
<1>6. ASSUME Stop PROVE C!Next
  BY <1>6 DEF Stop, C!Outage, C!Next, rowVars, Live
<1>7. CASE UNCHANGED vars
  BY <1>f, <1>7 DEF vars, rowVars, aux, bounds
<1>q. QED
  BY <1>1, <1>2, <1>3, <1>4, <1>5, <1>6, <1>7, FlowSteps DEF ProtocolInv

\* However many goroutines and commands there are, and however the commands end,
\* a card that is left to the harnesses makes only the moves of Card.
THEOREM ImplementsCard ==
  ASSUME LeftAlone
  PROVE  Spec => CardSteps
<1>1. Init => C!Init
  BY SameRow DEF Init, C!Init, Live
<1>2. KanbanInv /\ ProtocolInv /\ (late = 0 => FlowInv)
      /\ (late = 0 => WorkInv) /\ [Next]_vars => [C!Next]_(C!vars)
  BY CardStep
<1>q. QED
  BY KanbanInvariance, ProtocolInvariance, FlowInvariance, WorkInvariance,
     <1>1, <1>2, PTL
     DEF Spec, CardSteps, C!Spec

\* So a card that is done or failed stays so, until a command has ended late: no
\* retry, second completion or command of an earlier server takes it up again.
THEOREM SettledCardsStay ==
  ASSUME LeftAlone
  PROVE  Spec => [][Live /\ Settled /\ late = 0 => life' = life]_vars
<1>1. ASSUME KanbanInv, ProtocolInv, FlowInv, WorkInv, Next, Live, Settled,
             late = 0
      PROVE  life' = life
  <2>1. [C!Next]_(C!vars)
    BY <1>1, CardStep
  <2>2. ~C!Create
    BY <1>1 DEF C!Create
  <2>3. life.status \in {"completed", "failed"}
        /\ (life.status = "completed" => life.phase \notin Lanes)
    BY <1>1 DEF Settled, Lanes
  <2>4. ~C!PickUp /\ ~C!Complete /\ ~C!MoveOn /\ ~C!SendBack /\ ~C!GiveUp
    BY <1>1, <2>3, FlowTypes, SameRow
       DEF C!PickUp, C!Complete, C!MoveOn, C!MayMoveOn, C!SendBack, C!GiveUp,
           C!Move, Active
  <2>5. \/ C!StartAfresh \/ C!Count \/ C!Outage \/ C!LateEnd
        \/ UNCHANGED C!vars
    BY <2>1, <2>2, <2>4 DEF C!Next
  <2>q. QED
    BY <2>5 DEF C!StartAfresh, C!Count, C!Outage, C!LateEnd, C!vars
<1>2. KanbanInv /\ ProtocolInv /\ (late = 0 => FlowInv)
      /\ (late = 0 => WorkInv) /\ [Next]_vars =>
          [Live /\ Settled /\ late = 0 => life' = life]_vars
  BY <1>1
<1>q. QED
  BY KanbanInvariance, ProtocolInvariance, FlowInvariance, WorkInvariance,
     <1>2, PTL
     DEF Spec
=============================================================================
