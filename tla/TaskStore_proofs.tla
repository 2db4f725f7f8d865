--------------------------- MODULE TaskStore_proofs ---------------------------
(* Theorems about TaskStore for any goroutines, closures, contents and retry *)
(* bound: its safety invariants, and that it implements AtomicTask.          *)
EXTENDS TaskStore, TLAPS

\* What the loop knows of its own call: a goroutine is in the loop exactly
\* while its call is pending, no copy is newer than the stored row, and an
\* edit holds a copy of the version the user was looking at.
LoopInv ==
    /\ \A g \in Goroutines : (pc[g] = "idle") <=> (result[g] # "pending")
    /\ \A g \in Goroutines : pc[g] = "update" => copy[g].version <= task.version
    /\ \A g \in Goroutines : pc[g] = "update" /\ call[g].kind = "edit" =>
                                 call[g].seen = copy[g].version

\* The inductive invariant.
IInv == TypeOK /\ LoopInv /\ CopyIsCurrent /\ ConflictsAreCommits

\* A closure yields life-cycle columns: statuses stay statuses, phases phases.
LEMMA MutateType ==
  ASSUME NEW m \in Mutators, NEW l \in Life
  PROVE  Mutate(m, l) \in Life
<1>1. CASE m.kind \in {"complete", "finish", "dispatch", "fail", "pause"}
  BY <1>1 DEF Mutate, Life, MarkedCompleted, Finished, Dispatched, Failed,
              Paused, Statuses, Phases
<1>2. CASE m.kind = "advance"
  BY <1>2 DEF Mutate, Mutators, Life, AdvancedTo, Statuses, Lanes, NoPhase
<1>3. CASE m.kind = "reopen"
  BY <1>3 DEF Mutate, Mutators, Life, ReopenedTo, Statuses, Lanes, NoPhase
<1>q. QED
  BY <1>1, <1>2, <1>3 DEF Mutators

\* A closure in play is never mistaken for a user's edit.
LEMMA CallKinds ==
  ASSUME NEW c \in Closures \cup EditCalls(Nat)
  PROVE  /\ c.kind = "edit" => c.content \in Contents /\ c.seen \in Nat
         /\ c.kind # "edit" => c \in Mutators
<1>1. \A m \in Mutators : m.kind # "edit"
  BY DEF Mutators
<1>q. QED
  BY <1>1, ClosuresAssumption DEF EditCalls

\* The changed copy is a row, with the version of the copy.
LEMMA ChangedType ==
  ASSUME TypeOK, NEW g \in Goroutines
  PROVE  Changed(g) \in Tasks /\ Changed(g).version = copy[g].version
<1>1. copy[g] \in Tasks /\ call[g] \in Closures \cup EditCalls(Nat)
  BY DEF TypeOK
<1>2. CASE call[g].kind = "edit"
  BY <1>1, <1>2, CallKinds DEF Changed, Tasks
<1>3. CASE call[g].kind # "edit"
  <2>1. Mutate(call[g], copy[g].life) \in Life
    BY <1>1, <1>3, CallKinds, MutateType DEF Tasks
  <2>q. QED
    BY <1>1, <1>3, <2>1 DEF Changed, Tasks
<1>q. QED
  BY <1>2, <1>3

\* A new row is version 1, and nobody holds a copy yet.
LEMMA InitIInv == Init => IInv
<1>1. FreshLife \in Life
  BY DEF FreshLife, Life, Phases, Statuses
<1>q. QED
  BY <1>1, MaxRetriesAssumption
     DEF Init, IInv, TypeOK, LoopInv, CopyIsCurrent, ConflictsAreCommits,
         Tasks, Results

\* No step takes a variable out of its type.
LEMMA TypeStep == TypeOK /\ [Next]_vars => TypeOK'
<1> SUFFICES ASSUME TypeOK, [Next]_vars PROVE TypeOK'
  OBVIOUS
<1> USE MaxRetriesAssumption DEF TypeOK, Results
<1>1. ASSUME NEW g \in Goroutines, Begin(g) PROVE TypeOK'
  <2>1. task.version \in Nat
    BY DEF Tasks
  <2>2. PICK c \in Closures \cup EditCalls(1 .. task.version) :
            call' = [call EXCEPT ![g] = c]
    BY <1>1 DEF Begin
  <2>3. c \in Closures \cup EditCalls(Nat)
    BY <2>1, <2>2 DEF EditCalls
  <2>q. QED
    BY <1>1, <2>1, <2>2, <2>3 DEF Begin, row
<1>2. ASSUME NEW g \in Goroutines, Find(g) PROVE TypeOK'
  BY <1>2 DEF Find, row
<1>3. ASSUME NEW g \in Goroutines, FindStale(g) PROVE TypeOK'
  BY <1>3 DEF FindStale, Return, row
<1>4. ASSUME NEW g \in Goroutines, FindGone(g) PROVE TypeOK'
  BY <1>4 DEF FindGone, Return, row
<1>5. ASSUME NEW g \in Goroutines, Update(g) PROVE TypeOK'
  <2>1. task' \in Tasks
    BY <1>5, ChangedType DEF Update, Tasks
  <2>q. QED
    BY <1>5, <2>1 DEF Update, Return
<1>6. ASSUME NEW g \in Goroutines, Conflict(g) PROVE TypeOK'
  BY <1>6 DEF Conflict, row
<1>7. ASSUME NEW g \in Goroutines, GiveUp(g) PROVE TypeOK'
  BY <1>7 DEF GiveUp, Return, row
<1>8. ASSUME NEW g \in Goroutines, StatementFails(g) PROVE TypeOK'
  BY <1>8 DEF StatementFails, Return, row
<1>9. CASE Delete
  BY <1>9 DEF Delete
<1>10. CASE UNCHANGED vars
  BY <1>10 DEF vars
<1>q. QED
  BY <1>1, <1>2, <1>3, <1>4, <1>5, <1>6, <1>7, <1>8, <1>9, <1>10 DEF Next, Step

\* Every step of a loop, and the deletion, keeps the invariant.
LEMMA IInvStep == IInv /\ [Next]_vars => IInv'
<1> SUFFICES ASSUME IInv, [Next]_vars PROVE IInv'
  OBVIOUS
<1>0. TypeOK /\ TypeOK'
  BY TypeStep DEF IInv
<1>v. task.version \in Nat /\ \A g \in Goroutines : copy[g].version \in Nat
  BY <1>0 DEF TypeOK, Tasks
<1> DEFINE Good == LoopInv /\ CopyIsCurrent /\ ConflictsAreCommits
<1> USE MaxRetriesAssumption
        DEF IInv, TypeOK, LoopInv, CopyIsCurrent, ConflictsAreCommits
<1>1. ASSUME NEW g \in Goroutines, Begin(g) PROVE Good'
  BY <1>0, <1>v, <1>1 DEF Begin, row
<1>2. ASSUME NEW g \in Goroutines, Find(g) PROVE Good'
  BY <1>0, <1>v, <1>2 DEF Find, row, Stale
<1>3. ASSUME NEW g \in Goroutines, FindStale(g) PROVE Good'
  BY <1>0, <1>v, <1>3 DEF FindStale, Return, row
<1>4. ASSUME NEW g \in Goroutines, FindGone(g) PROVE Good'
  BY <1>0, <1>v, <1>4 DEF FindGone, Return, row
<1>5. ASSUME NEW g \in Goroutines, Update(g) PROVE Good'
  <2>1. task'.version = task.version + 1
    BY <1>0, <1>5, ChangedType, <1>v DEF Update, Matches, Tasks
  <2>q. QED
    BY <1>0, <1>v, <1>5, <2>1 DEF Update, Return
<1>6. ASSUME NEW g \in Goroutines, Conflict(g) PROVE Good'
  <2>1. LoopInv' /\ CopyIsCurrent'
    BY <1>0, <1>6 DEF Conflict, row
  <2>2. live => since[g] + attempt[g] + 1 <= task.version
    BY <1>0, <1>v, <1>6 DEF Conflict, Matches
  <2>3. ConflictsAreCommits'
    BY <1>0, <1>v, <1>6, <2>2 DEF Conflict, row
  <2>q. QED
    BY <2>1, <2>3
<1>7. ASSUME NEW g \in Goroutines, GiveUp(g) PROVE Good'
  BY <1>0, <1>v, <1>7 DEF GiveUp, Return, row
<1>8. ASSUME NEW g \in Goroutines, StatementFails(g) PROVE Good'
  BY <1>0, <1>v, <1>8 DEF StatementFails, Return, row
<1>9. CASE Delete
  BY <1>0, <1>v, <1>9 DEF Delete
<1>10. CASE UNCHANGED vars
  BY <1>0, <1>10 DEF vars
<1>11. Good'
  BY <1>1, <1>2, <1>3, <1>4, <1>5, <1>6, <1>7, <1>8, <1>9, <1>10 DEF Next, Step
<1>q. QED
  BY <1>0, <1>11

\* The invariant holds in every run of the update loops.
THEOREM Invariance == Spec => []IInv
<1>q. QED
  BY InitIInv, IInvStep, PTL DEF Spec

\* The variables keep their types in every run of the update loops.
THEOREM TypeCorrect == Spec => []TypeOK
<1>1. IInv => TypeOK
  BY DEF IInv
<1>q. QED
  BY Invariance, <1>1, PTL

\* The version check of the repository's Update makes a full-row write safe:
\* a copy it accepts is the stored row, whatever the goroutines and closures.
THEOREM NoLostUpdate == Spec => []CopyIsCurrent
<1>1. IInv => CopyIsCurrent
  BY DEF IInv
<1>q. QED
  BY Invariance, <1>1, PTL

\* A loop that counts conflicts has been overtaken by as many commits.
THEOREM OnlyCommitsConflict == Spec => []ConflictsAreCommits
<1>1. IInv => ConflictsAreCommits
  BY DEF IInv
<1>q. QED
  BY Invariance, <1>1, PTL

-----------------------------------------------------------------------------
\* AtomicTask and TaskStore speak of the same closures.
LEMMA SameClosures ==
  /\ Atomic!FreshLife = FreshLife
  /\ Atomic!Life = Life
  /\ Atomic!Mutators = Mutators
  /\ \A m, l : Atomic!Mutate(m, l) = Mutate(m, l)
<1>1. Atomic!FreshLife = FreshLife
  BY DEF FreshLife, Atomic!FreshLife
<1>2. Atomic!Life = Life
  BY DEF Life, Atomic!Life, Phases, Atomic!Phases, Statuses, Atomic!Statuses
<1>3. Atomic!Mutators = Mutators
  BY DEF Mutators, Atomic!Mutators, Lanes, Atomic!Lanes, Phases,
         Atomic!Phases, NoPhase, Atomic!NoPhase
<1>4. ASSUME NEW m, NEW l PROVE Atomic!Mutate(m, l) = Mutate(m, l)
  BY DEF Mutate, Atomic!Mutate, MarkedCompleted, Atomic!MarkedCompleted,
         Finished, Atomic!Finished, Dispatched, Atomic!Dispatched,
         Failed, Atomic!Failed, Paused, Atomic!Paused,
         AdvancedTo, Atomic!AdvancedTo, ReopenedTo, Atomic!ReopenedTo
<1>q. QED
  BY <1>1, <1>2, <1>3, <1>4

\* The initial states of the loops are those of AtomicTask.
LEMMA RefineInit == Init => Atomic!Init
<1>1. Init => call \in [Goroutines -> Mutators]
  BY ClosuresAssumption DEF Init
<1>q. QED
  BY <1>1, SameClosures DEF Init, Atomic!Init

\* Begin is the invocation, Update the commit, the three ways to give up are
\* refusals, an error of a statement is a failure, and nothing else is visible
\* to the clients.
LEMMA RefineStep == IInv /\ [Next]_vars => [Atomic!Next]_(Atomic!vars)
<1> SUFFICES ASSUME IInv, [Next]_vars PROVE [Atomic!Next]_(Atomic!vars)
  OBVIOUS
<1> USE DEF IInv
<1>v. task.version \in Nat /\ \A g \in Goroutines : copy[g].version \in Nat
  BY DEF TypeOK, Tasks
<1>1. ASSUME NEW g \in Goroutines, Begin(g) PROVE Atomic!Invoke(g)
  <2>1. PICK c \in Closures \cup EditCalls(1 .. task.version) :
            call' = [call EXCEPT ![g] = c]
    BY <1>1 DEF Begin
  <2>2. c \in Atomic!Calls(1 .. task.version)
    BY <2>1, ClosuresAssumption, SameClosures
       DEF Atomic!Calls, Atomic!EditCalls, EditCalls
  <2>q. QED
    BY <1>1, <2>1, <2>2 DEF Begin, row, LoopInv, Atomic!Invoke
<1>2. ASSUME NEW g \in Goroutines, Find(g) PROVE UNCHANGED Atomic!vars
  BY <1>2 DEF Find, row, Atomic!vars
<1>3. ASSUME NEW g \in Goroutines, FindStale(g) PROVE Atomic!Refuse(g)
  BY <1>3 DEF FindStale, Return, row, Stale, LoopInv, Atomic!Refuse
<1>4. ASSUME NEW g \in Goroutines, FindGone(g) PROVE Atomic!Refuse(g)
  BY <1>4 DEF FindGone, Return, row, LoopInv, Atomic!Refuse
<1>5. ASSUME NEW g \in Goroutines, Update(g) PROVE Atomic!Commit(g)
  <2>1. copy[g] = task
    BY <1>5 DEF Update, Matches, CopyIsCurrent
  <2>2. task' = Atomic!Effect(call[g], task)
    <3>1. CASE call[g].kind = "edit"
      BY <1>5, <2>1, <3>1 DEF Update, Changed, Atomic!Effect, TypeOK, Tasks
    <3>2. CASE call[g].kind # "edit"
      <4>1. Atomic!Mutate(call[g], task.life) = Mutate(call[g], task.life)
        BY SameClosures
      <4>q. QED
        BY <1>5, <2>1, <3>2, <4>1
           DEF Update, Changed, Atomic!Effect, TypeOK, Tasks
    <3>q. QED
      BY <3>1, <3>2
  <2>3. call[g].kind = "edit" => call[g].seen = task.version
    BY <1>5, <2>1 DEF Update, LoopInv
  <2>q. QED
    BY <1>5, <2>2, <2>3 DEF Update, Matches, Return, LoopInv, Atomic!Commit
<1>6. ASSUME NEW g \in Goroutines, Conflict(g) PROVE UNCHANGED Atomic!vars
  BY <1>6 DEF Conflict, row, Atomic!vars
<1>7. ASSUME NEW g \in Goroutines, GiveUp(g) PROVE Atomic!Refuse(g)
  <2>1. ~live \/ task.version >= since[g] + (MaxRetries + 1)
    <3>1. attempt[g] = MaxRetries /\ since[g] \in Nat
      BY <1>7, MaxRetriesAssumption DEF GiveUp, TypeOK
    <3>2. live => since[g] + attempt[g] <= copy[g].version
      BY <1>7 DEF GiveUp, ConflictsAreCommits
    <3>3. live => copy[g].version < task.version
      BY <1>7, <1>v DEF GiveUp, Matches, LoopInv
    <3>q. QED
      BY <1>v, <3>1, <3>2, <3>3, MaxRetriesAssumption
  <2>q. QED
    BY <1>7, <2>1 DEF GiveUp, Return, row, LoopInv, Atomic!Refuse
<1>8. ASSUME NEW g \in Goroutines, StatementFails(g) PROVE Atomic!Fail(g)
  BY <1>8 DEF StatementFails, Return, row, LoopInv, Atomic!Fail
<1>9. CASE Delete
  BY <1>9 DEF Delete, Atomic!Next, Atomic!Delete
<1>10. CASE UNCHANGED vars
  BY <1>10 DEF vars, Atomic!vars
<1>q. QED
  BY <1>1, <1>2, <1>3, <1>4, <1>5, <1>6, <1>7, <1>8, <1>9, <1>10
     DEF Next, Step, Atomic!Next

\* The update loops are linearizable, and refuse a call only for a deleted
\* row, a stale editor, or MaxRetries + 1 commits that overtook it.
THEOREM ImplementsAtomic == Spec => AtomicUpdates
<1>q. QED
  BY Invariance, RefineInit, RefineStep, PTL
     DEF Spec, AtomicUpdates, Atomic!Spec
=============================================================================
