----------------------------- MODULE Migrations ------------------------------
(* RunMigrations, executed at the start of the server and by the migrate      *)
(* command, possibly by both at the same time on one database file.  The      *)
(* statements of a file run in one transaction; that the file was applied is  *)
(* recorded afterwards, by a statement of its own.  A process may be stopped  *)
(* anywhere, and is started again.                                            *)
EXTENDS Integers

CONSTANTS Procs,        \* processes that open the database
          NumFiles,     \* migration files, in the order of their names
          Statements,   \* how many statements each of them has
          Repeatable,   \* files of CREATE ... IF NOT EXISTS statements only
          MaxStops      \* bound of the model: stops and errors

Files == 1 .. NumFiles

ASSUME FilesAssumption ==
    /\ NumFiles \in Nat
    /\ Statements \in [Files -> Nat \ {0}]
    /\ Repeatable \subseteq Files
ASSUME StopsAssumption == MaxStops \in Nat

VARIABLES pc,         \* where each process is
          file,       \* the file it is at
          stmt,       \* the statement of the file
          writer,     \* who has the write lock: nobody or one process
          pending,    \* effects of the writer's transaction: << file, stmt >>
          applied,    \* effects that were committed
          recorded,   \* rows of schema_migrations
          stops

vars == << pc, file, stmt, writer, pending, applied, recorded, stops >>

Effects(f) == { << f, i >> : i \in 1 .. Statements[f] }
AllEffects == UNION { Effects(f) : f \in Files }
Applied(f) == Effects(f) \subseteq applied

Init ==
    /\ pc = [p \in Procs |-> "down"]
    /\ file = [p \in Procs |-> 1]
    /\ stmt = [p \in Procs |-> 1]
    /\ writer = {} /\ pending = {}
    /\ applied = {} /\ recorded = {}
    /\ stops = 0

Goto(p, label) == pc' = [pc EXCEPT ![p] = label]

\* The transaction of p, if it has one, is rolled back.
Rollback(p) ==
    IF writer = {p} THEN writer' = {} /\ pending' = {}
                    ELSE UNCHANGED << writer, pending >>

\* Defect: the files are not sorted.
StartUnsorted(p) ==
    /\ pc[p] = "down"
    /\ Goto(p, "check")
    /\ \E f \in Files : file' = [file EXCEPT ![p] = f]
    /\ UNCHANGED << stmt, writer, pending, applied, recorded, stops >>

\* RunMigrations begins; it sorts the files by name.
Start(p) ==
    /\ pc[p] = "down"
    /\ Goto(p, "check")
    /\ file' = [file EXCEPT ![p] = 1]
    /\ UNCHANGED << stmt, writer, pending, applied, recorded, stops >>

\* Defect: a file that was applied is looked at again.
SkipInPlace(p) == UNCHANGED << pc, file, stmt >>

Skip(p) ==
    /\ file' = [file EXCEPT ![p] = @ + 1]
    /\ UNCHANGED << pc, stmt >>

\* Defect: the last file is left out.
AllSeenEarly(p) == file[p] >= NumFiles

\* The loop over the files is over.
AllSeen(p) == file[p] > NumFiles

\* isMigrationApplied; after the last file the server comes up.
Check(p) ==
    /\ pc[p] = "check"
    /\ \/ AllSeen(p) /\ Goto(p, "up") /\ UNCHANGED << file, stmt >>
       \/ ~AllSeen(p) /\ file[p] \in recorded /\ Skip(p)
       \/ /\ ~AllSeen(p) /\ file[p] \notin recorded
          /\ Goto(p, "exec")
          /\ stmt' = [stmt EXCEPT ![p] = 1]
          /\ UNCHANGED file
    /\ UNCHANGED << writer, pending, applied, recorded, stops >>

\* ALTER TABLE ... ADD COLUMN fails when the column exists.
Duplicate(f, i) == f \notin Repeatable /\ << f, i >> \in applied

\* Defect: the statement is not part of a transaction.
ExecAtOnce(p) ==
    /\ pc[p] = "exec"
    /\ stmt[p] <= Statements[file[p]]
    /\ writer \in {{}, {p}}
    /\ ~Duplicate(file[p], stmt[p])
    /\ writer' = {p}
    /\ applied' = applied \cup {<< file[p], stmt[p] >>}
    /\ stmt' = [stmt EXCEPT ![p] = @ + 1]
    /\ UNCHANGED << pc, file, pending, recorded, stops >>

\* The next statement; the first one takes the write lock.
Exec(p) ==
    /\ pc[p] = "exec"
    /\ stmt[p] <= Statements[file[p]]
    /\ writer \in {{}, {p}}
    /\ ~Duplicate(file[p], stmt[p])
    /\ writer' = {p}
    /\ pending' = pending \cup {<< file[p], stmt[p] >>}
    /\ stmt' = [stmt EXCEPT ![p] = @ + 1]
    /\ UNCHANGED << pc, file, applied, recorded, stops >>

\* The statement fails because its column exists; the error ends the process.
ExecFails(p) ==
    /\ pc[p] = "exec"
    /\ stmt[p] <= Statements[file[p]]
    /\ writer \in {{}, {p}}
    /\ Duplicate(file[p], stmt[p])
    /\ Goto(p, "down")
    /\ Rollback(p)
    /\ UNCHANGED << file, stmt, applied, recorded, stops >>

\* Defect: the result of Commit is ignored.
CommitOrNot(p) ==
    /\ pc[p] = "exec"
    /\ stmt[p] > Statements[file[p]]
    /\ Goto(p, "record")
    /\ applied' \in {applied, applied \cup pending}
    /\ writer' = {} /\ pending' = {}
    /\ UNCHANGED << file, stmt, recorded, stops >>

Commit(p) ==
    /\ pc[p] = "exec"
    /\ stmt[p] > Statements[file[p]]
    /\ Goto(p, "record")
    /\ applied' = applied \cup pending
    /\ writer' = {} /\ pending' = {}
    /\ UNCHANGED << file, stmt, recorded, stops >>

\* INSERT INTO schema_migrations; the row may be there already.
Record(p) ==
    /\ pc[p] = "record"
    /\ writer = {}
    /\ IF file[p] \in recorded
       THEN Goto(p, "down") /\ UNCHANGED file
       ELSE Goto(p, "check") /\ file' = [file EXCEPT ![p] = @ + 1]
    /\ recorded' = recorded \cup {file[p]}
    /\ UNCHANGED << stmt, writer, pending, applied, stops >>

\* The process is stopped, crashes, meets an I/O error or has waited for the
\* lock for too long.
Stop(p) ==
    /\ stops < MaxStops
    /\ pc[p] # "down"
    /\ stops' = stops + 1
    /\ Goto(p, "down")
    /\ Rollback(p)
    /\ UNCHANGED << file, stmt, applied, recorded >>

Run(p) == \/ Start(p) \/ Check(p) \/ Exec(p) \/ ExecFails(p) \/ Commit(p)
          \/ Record(p)

Next == \E p \in Procs : Run(p) \/ Stop(p)

Spec == Init /\ [][Next]_vars

\* Processes run, who waits for the lock gets it in the end, and whoever stops
\* is started again.
FairSpec == Spec /\ \A p \in Procs : SF_vars(Run(p))
-----------------------------------------------------------------------------
\* The types of the variables.
TypeOK ==
    /\ pc \in [Procs -> {"down", "check", "exec", "record", "up"}]
    /\ file \in [Procs -> 1 .. NumFiles + 1]
    /\ stmt \in [Procs -> Nat \ {0}]
    /\ writer \in {{}} \cup { {p} : p \in Procs }
    /\ pending \subseteq AllEffects
    /\ applied \subseteq AllEffects
    /\ recorded \subseteq Files
    /\ stops \in 0 .. MaxStops

\* Wherever the processes are stopped, the effects of a file are in the
\* database completely or not at all.
AllOrNothing == \A f \in Files : Applied(f) \/ Effects(f) \cap applied = {}

\* What schema_migrations records has been committed, so that nothing is
\* skipped that the schema lacks.
RecordedIsApplied == \A f \in recorded : Applied(f)

\* A file is applied only when the files before it are.
InOrder == \A f \in Files : Effects(f) \cap applied # {} =>
               \A g \in Files : g < f => Applied(g)

\* A server that is up has the whole schema, whoever applied it.
UpIsMigrated == \A p \in Procs : pc[p] = "up" => \A f \in Files : Applied(f)

\* A file that is not repeatable was applied and not recorded.
Torn == \E f \in Files \ (Repeatable \cup recorded) : Applied(f)

\* As long as it is started again after each stop, some process comes up; only
\* a stop between the commit and its record can prevent that for ever.
UpOrTorn == <>(\E p \in Procs : pc[p] = "up") \/ <>[]Torn

\* migration.go: "Each migration is tracked in a schema_migrations table so it
\* is applied at most once".
AtMostOnce ==
    [][\A p \in Procs : pc[p] = "exec" /\ pc'[p] = "record" =>
           ~Applied(file[p])]_vars
=============================================================================
