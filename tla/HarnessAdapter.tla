---------------------------- MODULE HarnessAdapter ----------------------------
(* The harness adapter: it starts one command per dispatch of a task, keeps   *)
(* the command of each task in a registry so that it can be killed, and waits *)
(* for each command in a goroutine of its own (monitorProcess).  The registry *)
(* and the set killed are protected by one mutex; each locked section is one  *)
(* step here, and so is each system call between two of them.                 *)
(*                                                                            *)
(* A member of Procs names a command.  It is free again when its monitor has  *)
(* returned, so a few names stand for any number of runs.                     *)
EXTENDS FiniteSets

CONSTANTS Tasks,    \* tasks a harness runs for
          Procs     \* names of commands

NoProc == "no process"
NoTask == "no task"

\* What the adapter's theorems assume of the names.
NamesAreFree == NoProc \notin Procs /\ NoTask \notin Tasks

VARIABLES registry,   \* processRegistry: the command of each task, or NoProc
          killed,     \* tasks whose next exit is taken to be intentional
          os,         \* the operating system's view of each command
          mon,        \* where the monitor of each command is
          owner,      \* the task a command runs for
          doomed,     \* commands KillProcess has taken from the registry and
                      \* is about to signal
          targets,    \* (history) commands KillProcess has found registered
          shared      \* (history) commands that were there together with
                      \* another one of the task, which is what happens when a
                      \* harness completes its phase before it exits

harnessVars == << registry, killed, os, mon, owner, doomed, targets, shared >>

\* "absent": the name is free; "clean" and "dirty": exited with status zero,
\* or with another status, a signal or the timeout.
OsStates == {"absent", "alive", "clean", "dirty"}

\* "none": the goroutine has not been started; "wait": in cmd.Wait; "report":
\* about to publish HarnessErrorOccurred; "unregister": in the deferred calls;
\* "lost": the server that started the command is gone, and its deadline too.
MonStates == {"none", "wait", "report", "unregister", "lost"}

HarnessInit ==
    /\ registry = [t \in Tasks |-> NoProc]
    /\ killed = {}
    /\ os = [p \in Procs |-> "absent"]
    /\ mon = [p \in Procs |-> "none"]
    /\ owner = [p \in Procs |-> NoTask]
    /\ doomed = {}
    /\ targets = {}
    /\ shared = {}

Free(p) == os[p] = "absent" /\ p \notin doomed

Lost(p) == mon[p] = "lost"
\* The commands of a task that this server has started and not yet reaped.
Current(t) == { p \in Procs : owner[p] = t /\ ~Lost(p) }

\* Dispatch, up to cmd.Start, which starts the command.
Start(t, p) ==
    /\ Free(p)
    /\ os' = [os EXCEPT ![p] = "alive"]
    /\ owner' = [owner EXCEPT ![p] = t]
    /\ shared' = IF Current(t) = {} THEN shared
                                    ELSE shared \cup Current(t) \cup {p}
    /\ UNCHANGED << registry, killed, mon, doomed, targets >>

\* Defect: the command is monitored but not registered.
RegisterNothing(p) ==
    /\ os[p] # "absent"
    /\ mon[p] = "none"
    /\ mon' = [mon EXCEPT ![p] = "wait"]
    /\ UNCHANGED << registry, killed, os, owner, doomed, targets, shared >>

\* The end of Dispatch: RegisterProcess and the go statement.
Register(p) ==
    /\ os[p] # "absent"
    /\ mon[p] = "none"
    /\ registry' = [registry EXCEPT ![owner[p]] = p]
    /\ mon' = [mon EXCEPT ![p] = "wait"]
    /\ UNCHANGED << killed, os, owner, doomed, targets, shared >>

\* Defect: the kill is not marked as intentional.
MarkKilledSilently(t) ==
    /\ doomed' = doomed \cup ({registry[t]} \ {NoProc})
    /\ targets' = targets \cup ({registry[t]} \ {NoProc})
    /\ registry' = [registry EXCEPT ![t] = NoProc]
    /\ UNCHANGED << killed, os, mon, owner, shared >>

\* KillProcess, the locked section.  The task is marked even when no command
\* is registered for it.
MarkKilled(t) ==
    /\ killed' = killed \cup {t}
    /\ doomed' = doomed \cup ({registry[t]} \ {NoProc})
    /\ targets' = targets \cup ({registry[t]} \ {NoProc})
    /\ registry' = [registry EXCEPT ![t] = NoProc]
    /\ UNCHANGED << os, mon, owner, shared >>

\* KillProcess, after the unlock: cmd.Process.Kill.
Signal(p) ==
    /\ p \in doomed
    /\ doomed' = doomed \ {p}
    /\ os' = [os EXCEPT ![p] = IF @ = "alive" THEN "dirty" ELSE @]
    /\ UNCHANGED << registry, killed, mon, owner, targets,
                    shared >>

\* The command ends by itself or at its timeout.
Exit(p, how) ==
    /\ os[p] = "alive" /\ ~Lost(p)
    /\ os' = [os EXCEPT ![p] = how]
    /\ UNCHANGED << registry, killed, mon, owner, doomed, targets, shared >>

\* cmd.Wait returns and the mark of an intentional kill is looked up and taken.
Excused(p) ==
    /\ mon[p] = "wait"
    /\ os[p] \in {"clean", "dirty"}
    /\ owner[p] \in killed
    /\ killed' = killed \ {owner[p]}
    /\ mon' = [mon EXCEPT ![p] = "unregister"]
    /\ UNCHANGED << registry, os, owner, doomed, targets, shared >>

\* Defect: every exit is reported, whatever its status.
ReapedAsFailure(p) ==
    /\ mon[p] = "wait"
    /\ os[p] \in {"clean", "dirty"}
    /\ owner[p] \notin killed
    /\ mon' = [mon EXCEPT ![p] = "report"]
    /\ UNCHANGED << registry, killed, os, owner, doomed, targets, shared >>

Reaped(p) ==
    /\ mon[p] = "wait"
    /\ os[p] \in {"clean", "dirty"}
    /\ owner[p] \notin killed
    /\ mon' = [mon EXCEPT ![p] = IF os[p] = "dirty" THEN "report"
                                                    ELSE "unregister"]
    /\ UNCHANGED << registry, killed, os, owner, doomed, targets, shared >>

\* HarnessErrorOccurred is published.
Report(p) ==
    /\ mon[p] = "report"
    /\ mon' = [mon EXCEPT ![p] = "unregister"]
    /\ UNCHANGED << registry, killed, os, owner, doomed, targets, shared >>

\* Defect: the deferred UnregisterProcess is missing.
UnregisterMissing(p) ==
    /\ mon[p] = "unregister"
    /\ mon' = [mon EXCEPT ![p] = "none"]
    /\ os' = [os EXCEPT ![p] = "absent"]
    /\ owner' = [owner EXCEPT ![p] = NoTask]
    /\ targets' = targets \ {p}
    /\ shared' = shared \ {p}
    /\ UNCHANGED << registry, killed, doomed >>

\* The deferred UnregisterProcess deletes by task, whatever is registered.
Unregister(p) ==
    /\ mon[p] = "unregister"
    /\ registry' = [registry EXCEPT ![owner[p]] = NoProc]
    /\ mon' = [mon EXCEPT ![p] = "none"]
    /\ os' = [os EXCEPT ![p] = "absent"]
    /\ owner' = [owner EXCEPT ![p] = NoTask]
    /\ targets' = targets \ {p}
    /\ shared' = shared \ {p}
    /\ UNCHANGED << killed, doomed >>

\* The server stops and starts again.  Its maps and its goroutines are new; of
\* the commands that run, some go on without it.
ServerStops(left) ==
    /\ left \subseteq { p \in Procs : os[p] = "alive" }
    /\ registry' = [t \in Tasks |-> NoProc]
    /\ killed' = {} /\ doomed' = {} /\ targets' = {} /\ shared' = {}
    /\ os' = [p \in Procs |-> IF p \in left THEN "alive" ELSE "absent"]
    /\ mon' = [p \in Procs |-> IF p \in left THEN "lost" ELSE "none"]
    /\ owner' = [p \in Procs |-> IF p \in left THEN owner[p] ELSE NoTask]

\* Nobody waits for a command of an earlier server: nothing follows its end.
LostExit(p) ==
    /\ os[p] = "alive" /\ Lost(p)
    /\ os' = [os EXCEPT ![p] = "absent"]
    /\ mon' = [mon EXCEPT ![p] = "none"]
    /\ owner' = [owner EXCEPT ![p] = NoTask]
    /\ UNCHANGED << registry, killed, doomed, targets, shared >>

Monitor(p) == Excused(p) \/ Reaped(p) \/ Report(p) \/ Unregister(p)

HarnessNext ==
    \/ \E t \in Tasks, p \in Procs : Start(t, p)
    \/ \E t \in Tasks : MarkKilled(t)
    \/ \E left \in SUBSET Procs : ServerStops(left)
    \/ \E p \in Procs : \/ Register(p) \/ Signal(p) \/ Monitor(p)
                        \/ LostExit(p)
                        \/ \E how \in {"clean", "dirty"} : Exit(p, how)

HarnessSpec == HarnessInit /\ [][HarnessNext]_harnessVars

-----------------------------------------------------------------------------
\* The types of the variables.
HarnessTypeOK ==
    /\ registry \in [Tasks -> Procs \cup {NoProc}]
    /\ killed \subseteq Tasks
    /\ os \in [Procs -> OsStates]
    /\ mon \in [Procs -> MonStates]
    /\ owner \in [Procs -> Tasks \cup {NoTask}]
    /\ doomed \subseteq Procs
    /\ targets \subseteq Procs
    /\ shared \subseteq Procs

Running(p) == os[p] = "alive"

\* The registry never names a command whose monitor has already returned, and
\* never one of another task (RegisterProcess, UnregisterProcess, KillProcess):
\* otherwise deleting a task could signal a recycled process identifier or the
\* harness of a different task.
RegistryIsLive ==
    \A t \in Tasks : registry[t] # NoProc =>
        /\ owner[registry[t]] = t
        /\ mon[registry[t]] \notin {"none", "lost"}

\* A running command that this server monitors can be killed: it is in the
\* registry, or KillProcess has just taken it from there; the one cause for
\* another answer is that it shared the task with another command, which took
\* its entry over or deleted it.
RunningIsKillable ==
    \A p \in Procs \ shared :
        Running(p) /\ mon[p] = "wait" => registry[owner[p]] = p \/ p \in doomed

\* A command that KillProcess has taken down still finds its mark when it is
\* reaped, so that its death is not reported as a harness failure (the promise
\* of KillProcess's comment), unless it shared the task with another command:
\* the mark, which bears the task's name, is not taken by anybody else.
KillIsNoFailure ==
    \A p \in targets \ shared : mon[p] = "wait" => owner[p] \in killed
=============================================================================
