-------------------------- MODULE Migrations_proofs ---------------------------
(* What the database holds is right wherever the processes are stopped, for   *)
(* any number of processes, files and statements.                             *)
EXTENDS Migrations, TLAPS

\* Where a process that runs has got to.
Position(p) ==
    /\ pc[p] # "down" => \A g \in Files : g < file[p] => Applied(g)
    /\ pc[p] = "exec" => /\ file[p] \in Files
                         /\ stmt[p] \in 1 .. Statements[file[p]] + 1
                         /\ stmt[p] > 1 => writer = {p}
    /\ pc[p] = "record" => file[p] \in Files /\ Applied(file[p])
    /\ pc[p] = "up" => file[p] = NumFiles + 1

\* The transaction holds the statements that its process has executed.
Transaction ==
    /\ writer = {} => pending = {}
    /\ \A p \in Procs : writer = {p} =>
           /\ pc[p] = "exec"
           /\ pending = { << file[p], i >> : i \in 1 .. stmt[p] - 1 }

MigrationInv ==
    /\ TypeOK /\ AllOrNothing /\ RecordedIsApplied /\ InOrder
    /\ Transaction
    /\ \A p \in Procs : Position(p)

USE DEF Files

\* A file has effects, and those of different files differ.
LEMMA EffectsDiffer ==
    /\ \A f \in Files : << f, 1 >> \in Effects(f)
    /\ \A f, g \in Files : f # g => Effects(f) \cap Effects(g) = {}
    /\ \A f \in Files : Effects(f) \subseteq AllEffects
<1>1. \A f \in Files : << f, 1 >> \in Effects(f)
      BY FilesAssumption DEF Effects
<1>2. \A f, g \in Files : f # g => Effects(f) \cap Effects(g) = {}
      BY DEF Effects
<1>3. \A f \in Files : Effects(f) \subseteq AllEffects
      BY DEF AllEffects
<1> QED  BY <1>1, <1>2, <1>3

\* The empty database satisfies the invariant.
LEMMA MigrationInvInit == Init => MigrationInv
<1> SUFFICES ASSUME Init PROVE MigrationInv  OBVIOUS
<1> USE FilesAssumption, StopsAssumption
<1>1. TypeOK  BY DEF Init, TypeOK
<1>2. AllOrNothing /\ RecordedIsApplied /\ InOrder
      BY DEF Init, AllOrNothing, RecordedIsApplied, InOrder
<1>3. Transaction /\ \A p \in Procs : Position(p)
      BY DEF Init, Transaction, Position
<1> QED  BY <1>1, <1>2, <1>3 DEF MigrationInv

\* A rollback ends the transaction of the process, if it has one.
LEMMA RolledBack ==
    ASSUME MigrationInv, NEW p \in Procs, Rollback(p), Goto(p, "down"),
           UNCHANGED << file, stmt, applied, recorded >>
    PROVE  /\ Transaction'
           /\ writer' \in {{}} \cup { {q} : q \in Procs }
           /\ pending' \subseteq AllEffects
           /\ \A q \in Procs : Position(q)'
<1> USE DEF MigrationInv, TypeOK
<1>1. pc'[p] = "down" /\ \A q \in Procs \ {p} : pc'[q] = pc[q]
      BY DEF Goto
<1>2. writer' # {p} /\ \A q \in Procs \ {p} : (writer' = {q}) <=> (writer = {q})
      BY DEF Rollback
<1>3. Transaction'  BY <1>1, <1>2 DEF Transaction, Rollback
<1>4. ASSUME NEW q \in Procs PROVE Position(q)'
  <2>1. Position(q)  OBVIOUS
  <2>2. CASE q = p  BY <1>1, <2>2 DEF Position
  <2>3. CASE q # p  BY <1>1, <1>2, <2>1, <2>3 DEF Position, Applied
  <2> QED  BY <2>2, <2>3
<1>5. /\ writer' \in {{}} \cup { {q} : q \in Procs }
      /\ pending' \subseteq AllEffects
      BY DEF Rollback
<1> QED  BY <1>3, <1>4, <1>5

\* Every step keeps the invariant.
LEMMA MigrationInvStep == MigrationInv /\ [Next]_vars => MigrationInv'
<1> SUFFICES ASSUME MigrationInv, [Next]_vars PROVE MigrationInv'  OBVIOUS
<1> USE FilesAssumption, StopsAssumption
<1>1. ASSUME NEW p \in Procs, Start(p) PROVE MigrationInv'
  <2>1. /\ pc'[p] = "check" /\ file'[p] = 1 /\ pc[p] = "down"
        /\ \A q \in Procs \ {p} : pc'[q] = pc[q] /\ file'[q] = file[q]
        BY <1>1 DEF Start, Goto, MigrationInv, TypeOK
  <2>2. TypeOK'  BY <1>1 DEF Start, Goto, MigrationInv, TypeOK
  <2>3. AllOrNothing' /\ RecordedIsApplied' /\ InOrder'
        BY <1>1 DEF Start, MigrationInv, AllOrNothing, RecordedIsApplied,
                    InOrder, Applied
  <2>4. Transaction'
        BY <1>1, <2>1 DEF Start, MigrationInv, Transaction
  <2>5. \A q \in Procs : Position(q)'
    <3> SUFFICES ASSUME NEW q \in Procs PROVE Position(q)'  OBVIOUS
    <3>0. /\ Position(q) /\ applied' = applied /\ stmt' = stmt
          /\ writer' = writer
          BY <1>1 DEF Start, MigrationInv
    <3>1. CASE q = p  BY <2>1, <3>1 DEF Position
    <3>2. CASE q # p  BY <2>1, <3>0, <3>2 DEF Position, Applied
    <3> QED  BY <3>1, <3>2
  <2> QED  BY <2>2, <2>3, <2>4, <2>5 DEF MigrationInv
<1>2. ASSUME NEW p \in Procs, Check(p) PROVE MigrationInv'
  <2>1. /\ pc[p] = "check" /\ pc'[p] \in {"check", "exec", "up"}
        /\ \A q \in Procs \ {p} : /\ pc'[q] = pc[q] /\ file'[q] = file[q]
                                  /\ stmt'[q] = stmt[q]
        /\ file[p] \in Nat
        BY <1>2 DEF Check, AllSeen, Skip, Goto, MigrationInv, TypeOK
  <2>2. TypeOK'
    <3>a. /\ pc \in [Procs -> {"down", "check", "exec", "record", "up"}]
          /\ stmt \in [Procs -> Nat \ {0}]
          BY DEF MigrationInv, TypeOK
    <3>b. pc' = pc \/ pc' = [pc EXCEPT ![p] = "up"]
                    \/ pc' = [pc EXCEPT ![p] = "exec"]
          BY <1>2 DEF Check, Skip, Goto
    <3>c. stmt' = stmt \/ stmt' = [stmt EXCEPT ![p] = 1]
          BY <1>2 DEF Check, Skip
    <3>1. /\ pc' \in [Procs -> {"down", "check", "exec", "record", "up"}]
          /\ stmt' \in [Procs -> Nat \ {0}]
          BY <3>a, <3>b, <3>c
    <3>2. file[p] \in 1 .. NumFiles + 1  BY DEF MigrationInv, TypeOK
    <3>3. \/ file' = file
          \/ ~AllSeen(p) /\ file' = [file EXCEPT ![p] = file[p] + 1]
          BY <1>2 DEF Check, Skip
    <3>4. ~AllSeen(p) => file[p] + 1 \in 1 .. NumFiles + 1
          BY <3>2 DEF AllSeen
    <3>5. file' \in [Procs -> 1 .. NumFiles + 1]
          BY <3>3, <3>4 DEF MigrationInv, TypeOK
    <3> QED  BY <1>2, <3>1, <3>5 DEF Check, MigrationInv, TypeOK
  <2>3. AllOrNothing' /\ RecordedIsApplied' /\ InOrder'
        BY <1>2 DEF Check, MigrationInv, AllOrNothing, RecordedIsApplied,
                    InOrder, Applied
  <2>4. Transaction'
        BY <1>2, <2>1 DEF Check, MigrationInv, Transaction
  <2>5. ASSUME NEW q \in Procs \ {p} PROVE Position(q)'
        BY <1>2, <2>1 DEF Check, MigrationInv, Position, Applied
  <2>6. Position(p)'
    <3>1. CASE AllSeen(p) /\ Goto(p, "up") /\ UNCHANGED << file, stmt >>
      <4>1. /\ pc'[p] = "up" /\ file'[p] = NumFiles + 1
            /\ file'[p] = file[p] /\ applied' = applied
            BY <1>2, <3>1 DEF Check, AllSeen, Goto, MigrationInv, TypeOK
      <4> QED  BY <2>1, <4>1 DEF MigrationInv, Position, Applied
    <3>2. CASE ~AllSeen(p) /\ file[p] \in recorded /\ Skip(p)
      <4>1. Applied(file[p])
            BY <3>2 DEF MigrationInv, RecordedIsApplied
      <4>2. file'[p] = file[p] + 1 /\ pc'[p] = "check" /\ applied' = applied
            BY <1>2, <2>1, <3>2 DEF Skip, Check, MigrationInv, TypeOK
      <4> QED  BY <2>1, <4>1, <4>2 DEF MigrationInv, Position, Applied
    <3>3. CASE ~AllSeen(p) /\ file[p] \notin recorded /\ Goto(p, "exec")
               /\ stmt' = [stmt EXCEPT ![p] = 1] /\ UNCHANGED file
      <4>1. /\ pc'[p] = "exec" /\ stmt'[p] = 1 /\ file'[p] = file[p]
            /\ file[p] \in Files /\ applied' = applied
            BY <1>2, <3>3 DEF Check, AllSeen, Goto, MigrationInv, TypeOK
      <4>2. 1 \in 1 .. Statements[file[p]] + 1  BY <4>1
      <4> QED  BY <2>1, <4>1, <4>2 DEF MigrationInv, Position, Applied
    <3> QED  BY <1>2, <3>1, <3>2, <3>3 DEF Check
  <2> QED  BY <2>2, <2>3, <2>4, <2>5, <2>6 DEF MigrationInv
<1>3. ASSUME NEW p \in Procs, Exec(p) PROVE MigrationInv'
  <2> PICK f \in Files : f = file[p]
      BY <1>3 DEF Exec, MigrationInv, Position
  <2>1. /\ pc[p] = "exec" /\ stmt[p] \in 1 .. Statements[f]
        /\ writer' = {p} /\ stmt'[p] = stmt[p] + 1
        /\ \A q \in Procs \ {p} : stmt'[q] = stmt[q] /\ writer # {q}
    <3>1. Position(p) /\ stmt[p] \in Nat \ {0} /\ Statements[f] \in Nat
          BY DEF MigrationInv, TypeOK
    <3>2. /\ pc[p] = "exec" /\ stmt[p] <= Statements[f] /\ writer' = {p}
          /\ writer \in {{}, {p}}
          BY <1>3 DEF Exec
    <3>3. stmt'[p] = stmt[p] + 1 /\ \A q \in Procs \ {p} : stmt'[q] = stmt[q]
      <4>1. stmt' = [stmt EXCEPT ![p] = @ + 1]  BY <1>3 DEF Exec
      <4>2. stmt \in [Procs -> Nat \ {0}]      BY DEF MigrationInv, TypeOK
      <4> QED  BY <4>1, <4>2
    <3>4. stmt[p] \in 1 .. Statements[f] /\ stmt'[p] \in Nat \ {0}
          BY <3>1, <3>2, <3>3
    <3>5. \A q \in Procs \ {p} : writer # {q}
          BY <3>2, ZenonT(30)
    <3> QED  BY <3>2, <3>3, <3>4, <3>5, ZenonT(30)
  <2>2. pending = { << f, i >> : i \in 1 .. stmt[p] - 1 }
    <3>1. CASE writer = {p}  BY <3>1 DEF MigrationInv, Transaction
    <3>2. CASE writer = {}
      <4>1. stmt[p] = 1  BY <2>1, <3>2 DEF MigrationInv, Position
      <4> QED  BY <3>2, <4>1 DEF MigrationInv, Transaction
    <3> QED  BY <1>3, <3>1, <3>2 DEF Exec
  <2>3. pending' = { << f, i >> : i \in 1 .. stmt'[p] - 1 }
        BY <1>3, <2>1, <2>2 DEF Exec
  <2>4. TypeOK'
    <3>1. << f, stmt[p] >> \in AllEffects
          BY <2>1 DEF AllEffects, Effects
    <3>2. pending' \subseteq AllEffects
          BY <1>3, <3>1 DEF Exec, MigrationInv, TypeOK
    <3>3. stmt' \in [Procs -> Nat \ {0}]
          BY <1>3 DEF Exec, MigrationInv, TypeOK
    <3>4. writer' \in {{}} \cup { {q} : q \in Procs }
          BY <2>1
    <3> QED  BY <1>3, <3>2, <3>3, <3>4 DEF Exec, MigrationInv, TypeOK
  <2>5. AllOrNothing' /\ RecordedIsApplied' /\ InOrder'
        BY <1>3 DEF Exec, MigrationInv, AllOrNothing, RecordedIsApplied,
                    InOrder, Applied
  <2>6. Transaction'
    <3>1. pc'[p] = "exec" /\ file'[p] = f /\ writer' = {p}
          BY <1>3, <2>1 DEF Exec
    <3>2. \A q \in Procs : writer' = {q} => q = p  BY <3>1
    <3> QED  BY <2>3, <3>1, <3>2 DEF Transaction
  <2>7. \A q \in Procs : Position(q)'
        BY <1>3, <2>1, SMTT(60) DEF Exec, MigrationInv, Position, Applied, TypeOK
  <2> QED  BY <2>4, <2>5, <2>6, <2>7 DEF MigrationInv
<1>4. ASSUME NEW p \in Procs, ExecFails(p) PROVE MigrationInv'
  <2>1. /\ Transaction' /\ \A q \in Procs : Position(q)'
        /\ writer' \in {{}} \cup { {q} : q \in Procs }
        /\ pending' \subseteq AllEffects
        BY <1>4, RolledBack DEF ExecFails
  <2>2. TypeOK'
        BY <1>4, <2>1 DEF ExecFails, Goto, MigrationInv, TypeOK
  <2>3. AllOrNothing' /\ RecordedIsApplied' /\ InOrder'
        BY <1>4 DEF ExecFails, MigrationInv, AllOrNothing, RecordedIsApplied,
                    InOrder, Applied
  <2> QED  BY <2>1, <2>2, <2>3 DEF MigrationInv
<1>5. ASSUME NEW p \in Procs, Commit(p) PROVE MigrationInv'
  <2> PICK f \in Files : f = file[p]
      BY <1>5 DEF Commit, MigrationInv, Position
  <2>1. /\ pc[p] = "exec" /\ stmt[p] = Statements[f] + 1
        /\ writer = {p} /\ pc'[p] = "record" /\ writer' = {} /\ pending' = {}
        /\ \A q \in Procs \ {p} : pc'[q] = pc[q]
    <3>1. Position(p) /\ stmt[p] \in Nat \ {0} /\ Statements[f] \in Nat \ {0}
          BY DEF MigrationInv, TypeOK
    <3>2. /\ pc[p] = "exec" /\ stmt[p] > Statements[f]
          /\ writer' = {} /\ pending' = {}
          BY <1>5 DEF Commit
    <3>3. pc'[p] = "record" /\ \A q \in Procs \ {p} : pc'[q] = pc[q]
          BY <1>5 DEF Commit, Goto, MigrationInv, TypeOK
    <3> QED  BY <3>1, <3>2, <3>3 DEF Position
  <2>2. pending = Effects(f)
        BY <2>1 DEF MigrationInv, Transaction, Effects
  <2>3. applied' = applied \cup Effects(f)  BY <1>5, <2>2 DEF Commit
  <2>4. Applied(f)' /\ \A g \in Files : Applied(g) => Applied(g)'
        BY <2>3 DEF Applied
  <2>5. \A g \in Files \ {f} :
            Effects(g) \cap applied' = Effects(g) \cap applied
        BY <2>1, <2>3, EffectsDiffer
  <2>6. TypeOK'
        BY <1>5, <2>1, <2>2, <2>3, EffectsDiffer
        DEF Commit, Goto, MigrationInv, TypeOK
  <2>7. AllOrNothing'
        BY <2>4, <2>5 DEF MigrationInv, AllOrNothing
  <2>8. RecordedIsApplied'
        BY <1>5, <2>4 DEF Commit, MigrationInv, RecordedIsApplied, TypeOK
  <2>9. InOrder'
    <3> SUFFICES ASSUME NEW h \in Files, Effects(h) \cap applied' # {},
                        NEW g \in Files, g < h
                 PROVE  Applied(g)'
        BY DEF InOrder
    <3>1. CASE h = f
          BY <2>1, <2>4, <3>1 DEF MigrationInv, Position
    <3>2. CASE h # f
          BY <2>4, <2>5, <3>2 DEF MigrationInv, InOrder
    <3> QED  BY <3>1, <3>2
  <2>10. Transaction'  BY <2>1 DEF Transaction
  <2>11. \A q \in Procs : Position(q)'
    <3> SUFFICES ASSUME NEW q \in Procs PROVE Position(q)'  OBVIOUS
    <3>0. Position(q) /\ file' = file /\ stmt' = stmt
          BY <1>5 DEF Commit, MigrationInv
    <3>1. CASE q = p  BY <2>1, <2>4, <3>0, <3>1 DEF Position
    <3>2. CASE q # p
      <4>1. pc'[q] = pc[q] /\ writer # {q}  BY <2>1, <3>2
      <4> QED  BY <2>4, <3>0, <4>1 DEF Position
    <3> QED  BY <3>1, <3>2
  <2> QED  BY <2>6, <2>7, <2>8, <2>9, <2>10, <2>11 DEF MigrationInv
<1>6. ASSUME NEW p \in Procs, Record(p) PROVE MigrationInv'
  <2> PICK f \in Files : f = file[p]
      BY <1>6 DEF Record, MigrationInv, Position
  <2>1. /\ pc[p] = "record" /\ Applied(f) /\ writer = {}
        /\ \A q \in Procs \ {p} : pc'[q] = pc[q] /\ file'[q] = file[q]
        /\ \/ pc'[p] = "down"
           \/ pc'[p] = "check" /\ file'[p] = f + 1
        BY <1>6 DEF Record, Goto, MigrationInv, Position, TypeOK
  <2>2. TypeOK'
    <3>0. f + 1 \in 1 .. NumFiles + 1  OBVIOUS
    <3>1. /\ pc' \in [Procs -> {"down", "check", "exec", "record", "up"}]
          /\ \/ file' = file
             \/ file' = [file EXCEPT ![p] = f + 1]
          BY <1>6 DEF Record, Goto, MigrationInv, TypeOK
    <3>2. file' \in [Procs -> 1 .. NumFiles + 1]
          BY <3>0, <3>1 DEF MigrationInv, TypeOK
    <3>3. recorded' \subseteq Files
          BY <1>6 DEF Record, MigrationInv, TypeOK
    <3> QED  BY <1>6, <3>1, <3>2, <3>3 DEF Record, MigrationInv, TypeOK
  <2>3. AllOrNothing' /\ RecordedIsApplied' /\ InOrder'
        BY <1>6, <2>1 DEF Record, MigrationInv, AllOrNothing,
                          RecordedIsApplied, InOrder, Applied
  <2>4. Transaction'
        BY <1>6, <2>1 DEF Record, MigrationInv, Transaction
  <2>5. ASSUME NEW q \in Procs PROVE Position(q)'
    <3>0. Position(q) /\ applied' = applied /\ stmt' = stmt /\ writer' = writer
          BY <1>6 DEF Record, MigrationInv
    <3>1. CASE q = p
          BY <2>1, <3>0, <3>1 DEF Position, Applied
    <3>2. CASE q # p  BY <2>1, <3>0, <3>2 DEF Position, Applied
    <3> QED  BY <3>1, <3>2
  <2> QED  BY <2>2, <2>3, <2>4, <2>5 DEF MigrationInv
<1>7. ASSUME NEW p \in Procs, Stop(p) PROVE MigrationInv'
  <2>1. /\ Transaction' /\ \A q \in Procs : Position(q)'
        /\ writer' \in {{}} \cup { {q} : q \in Procs }
        /\ pending' \subseteq AllEffects
        BY <1>7, RolledBack DEF Stop
  <2>2. TypeOK'
        BY <1>7, <2>1 DEF Stop, Goto, MigrationInv, TypeOK
  <2>3. AllOrNothing' /\ RecordedIsApplied' /\ InOrder'
        BY <1>7 DEF Stop, MigrationInv, AllOrNothing, RecordedIsApplied,
                    InOrder, Applied
  <2> QED  BY <2>1, <2>2, <2>3 DEF MigrationInv
<1>8. CASE UNCHANGED vars
  <2>1. TypeOK'  BY <1>8 DEF vars, MigrationInv, TypeOK
  <2>2. AllOrNothing' /\ RecordedIsApplied' /\ InOrder' /\ Transaction'
        BY <1>8 DEF vars, MigrationInv, AllOrNothing, RecordedIsApplied,
                    InOrder, Applied, Transaction
  <2>3. \A q \in Procs : Position(q)'
        BY <1>8 DEF vars, MigrationInv, Position, Applied
  <2> QED  BY <2>1, <2>2, <2>3 DEF MigrationInv
<1> QED  BY <1>1, <1>2, <1>3, <1>4, <1>5, <1>6, <1>7, <1>8 DEF Next, Run

\* The invariant holds throughout.
THEOREM MigrationInvariance == Spec => []MigrationInv
<1> QED  BY MigrationInvInit, MigrationInvStep, PTL DEF Spec

\* The processes and the database keep their types.
THEOREM MigrationTypeCorrect == Spec => []TypeOK
<1>1. MigrationInv => TypeOK  BY DEF MigrationInv
<1> QED  BY <1>1, MigrationInvariance, PTL

\* Wherever processes are stopped, no file is applied in part.
THEOREM MigrationsAreAtomic == Spec => []AllOrNothing
<1>1. MigrationInv => AllOrNothing  BY DEF MigrationInv
<1> QED  BY <1>1, MigrationInvariance, PTL

\* Nothing is recorded, and so skipped, that was not committed.
THEOREM RecordsAreTrue == Spec => []RecordedIsApplied
<1>1. MigrationInv => RecordedIsApplied  BY DEF MigrationInv
<1> QED  BY <1>1, MigrationInvariance, PTL

\* Files are applied in the order of their names.
THEOREM MigrationsAreOrdered == Spec => []InOrder
<1>1. MigrationInv => InOrder  BY DEF MigrationInv
<1> QED  BY <1>1, MigrationInvariance, PTL

\* A server that is up has the whole schema.
THEOREM ServersAreMigrated == Spec => []UpIsMigrated
<1>1. MigrationInv => UpIsMigrated
      BY FilesAssumption DEF MigrationInv, Position, UpIsMigrated, TypeOK
<1> QED  BY <1>1, MigrationInvariance, PTL
=============================================================================
