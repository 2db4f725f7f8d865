----------------------------- MODULE AtomicTask -----------------------------
(* What the optimistic-locking loops around the tasks table promise their   *)
(* callers: an update takes effect at one instant between its call and its  *)
(* return, on the row as it is at that instant, or it has no effect at all  *)
(* and is refused for one of three reasons, or fails with its statement.    *)
(* TaskStore implements this.                                               *)
EXTENDS TaskRow

CONSTANTS Clients,      \* callers of the update loops
          Contents,     \* values of the columns a user edits
          Patience      \* number of conflicts that exhausts a loop

VARIABLES task,     \* the stored row
          live,     \* FALSE once the row is deleted
          call,     \* the update each client asked for
          since,    \* the version of the row when it asked
          result    \* "pending" until the call returns

vars == << task, live, call, since, result >>

\* A user's edit names the version of the row the user was looking at.
EditCalls(versions) == [kind : {"edit"}, content : Contents, seen : versions]
Calls(versions) == Mutators \cup EditCalls(versions)

\* The row after the call c is applied to the row t.
Effect(c, t) ==
    IF c.kind = "edit"
    THEN [t EXCEPT !.content = c.content, !.version = @ + 1]
    ELSE [t EXCEPT !.life = Mutate(c, @), !.version = @ + 1]

Init ==
    /\ task \in [life : {FreshLife}, content : Contents, version : {1}]
    /\ live = TRUE
    /\ call \in [Clients -> Mutators]
    /\ since = [g \in Clients |-> 1]
    /\ result = [g \in Clients |-> "none"]

Invoke(g) ==
    /\ result[g] # "pending"
    /\ \E c \in Calls(1 .. task.version) : call' = [call EXCEPT ![g] = c]
    /\ since' = [since EXCEPT ![g] = task.version]
    /\ result' = [result EXCEPT ![g] = "pending"]
    /\ UNCHANGED << task, live >>

Commit(g) ==
    /\ result[g] = "pending"
    /\ live
    /\ call[g].kind = "edit" => call[g].seen = task.version
    /\ task' = Effect(call[g], task)
    /\ result' = [result EXCEPT ![g] = "ok"]
    /\ UNCHANGED << live, call, since >>

\* A call is refused only if the row is gone, the editor was looking at an
\* older version, or Patience other updates were committed since it started.
Refuse(g) ==
    /\ result[g] = "pending"
    /\ \/ ~live
       \/ call[g].kind = "edit" /\ call[g].seen # task.version
       \/ task.version >= since[g] + Patience
    /\ result' = [result EXCEPT ![g] = "refused"]
    /\ UNCHANGED << task, live, call, since >>

\* The database failed the call, before it had any effect.
Fail(g) ==
    /\ result[g] = "pending"
    /\ result' = [result EXCEPT ![g] = "failed"]
    /\ UNCHANGED << task, live, call, since >>

Delete ==
    /\ live
    /\ live' = FALSE
    /\ UNCHANGED << task, call, since, result >>

Next == \/ \E g \in Clients : Invoke(g) \/ Commit(g) \/ Refuse(g) \/ Fail(g)
        \/ Delete

Spec == Init /\ [][Next]_vars
=============================================================================
