-------------------------- MODULE TaskRecords_proofs --------------------------
(* Completions keep what was saved before them, and checklists are whole, for *)
(* any number of requests, items and texts.                                   *)
EXTENDS TaskRecords, TLAPS

Upserting(c) == call[c].pc = "upsert"

\* A deleted task has no rows.
NothingLeft == ~task => row = NoRow /\ subtasks = {}

\* Ids that are still to be inserted are in no row, found or stored; a phase
\* without a row has no output.
FreshIds ==
    /\ row.id <= calls
    /\ row.id = 0 => row.output = Blank
    /\ \A c \in Callers : Upserting(c) =>
         /\ call[c].id # 0 /\ call[c].id <= calls
         /\ call[c].found.id <= calls
         /\ call[c].id # row.id
         /\ \A d \in Callers : Upserting(d) =>
              /\ call[d].found.id # call[c].id
              /\ d # c => call[d].id # call[c].id

\* What a completion knows of the row, by what has crossed it.
CrossedInv ==
    \A c \in Callers : Upserting(c) /\ task =>
      /\ call[c].crossed = "no" => row.id = call[c].found.id
      /\ call[c].crossed # "save" /\ call[c].found.id = 0
         => row.output = Blank

OutputInv == TypeOK /\ NothingLeft /\ FreshIds /\ FoundIsCurrent /\ CrossedInv

Places == 1 .. MaxItems

\* Ids of lists are handed out once, and what a list under way has is a run of
\* items that ends before its next one.
GrowingInv ==
    /\ latest.list <= calls
    /\ \A l \in Ids, k \in Places : << l, k >> \in Keys => l <= calls
    /\ \A c \in Callers : Creating(c) =>
         /\ call[c].id <= calls
         /\ \A d \in Callers : Creating(d) /\ d # c => call[d].id # call[c].id
         /\ \A k \in Places : << call[c].id, k >> \in Keys =>
              /\ k < call[c].place
              /\ \A j \in Places : k <= j /\ j < call[c].place
                                   => << call[c].id, j >> \in Keys

\* No list has a hole.
RunsInv ==
    \A l \in Ids : \A i, j, k \in Places :
        << l, i >> \in Keys /\ << l, j >> \in Keys /\ i <= k /\ k <= j
        => << l, k >> \in Keys

\* Without an overlap the latest list is the only one, whole when answered and
\* as far as its request has come until then.
LatestInv ==
    ~mixed =>
        /\ \A l \in Ids, k \in Places : << l, k >> \in Keys => l = latest.list
        /\ latest.answered =>
             \A k \in Places : << latest.list, k >> \in Keys <=> k <= latest.items
        /\ \A c \in Callers : Creating(c) =>
             /\ call[c].id = latest.list /\ call[c].items = latest.items
             /\ ~latest.answered
             /\ task => \A k \in Places :
                          << call[c].id, k >> \in Keys <=> k < call[c].place

ListInv == TypeOK /\ GrowingInv /\ RunsInv /\ LatestInv

-----------------------------------------------------------------------------
(* Types                                                                    *)

\* An idle request and the row of a phase without one.
LEMMA ConstantTypes ==
    /\ Idle \in Requests /\ NoRow \in Rows
    /\ Idle.pc = "idle" /\ NoRow.id = 0 /\ NoRow.output = Blank
<1> QED  BY BlankAssumption, StatusAssumption, BoundsAssumption
         DEF Idle, NoRow, Rows, Requests, Ids

\* What a replaced row changes of a request.
LEMMA ReplacingType ==
    ASSUME NEW how \in {"insert", "save"}, NEW c \in Callers, TypeOK
    PROVE  /\ Replacing(how, c) \in Requests
           /\ Replacing(how, c) = [call[c] EXCEPT
                                      !.crossed = Replacing(how, c).crossed]
           /\ ~Upserting(c) => Replacing(how, c) = call[c]
           /\ Upserting(c) => Replacing(how, c).crossed \in {how, "save"}
<1>1. call[c] \in Requests  BY DEF TypeOK
<1> QED  BY <1>1 DEF Replacing, Requests, Upserting

\* The types are inductive by themselves.
LEMMA TypeInductive == TypeOK /\ [Next]_vars => TypeOK'
<1> SUFFICES ASSUME TypeOK, [Next]_vars PROVE TypeOK'  OBVIOUS
<1> USE ConstantTypes, BlankAssumption, StatusAssumption, BoundsAssumption
<1>r. ASSUME NEW how \in {"insert", "save"}, NEW c \in Callers
      PROVE  /\ Replacing(how, c) \in Requests
             /\ Replacing(how, c).pc = call[c].pc
             /\ Replacing(how, c).place = call[c].place
             /\ Replacing(how, c).items = call[c].items
  <2>1. call[c] \in Requests  BY DEF TypeOK
  <2> QED  BY <2>1, ReplacingType DEF Requests
<1>1. CASE Save
  <2>1. row' \in Rows /\ calls' \in Ids
        BY <1>1 DEF Save, Saved, Insertion, Rows, Ids, TypeOK
  <2> QED  BY <1>1, <1>r, <2>1 DEF Save, TypeOK, Creating
<1>2. CASE DeleteTask  BY <1>2 DEF DeleteTask, TypeOK, Creating
<1>3. ASSUME NEW c \in Callers, Find(c) PROVE TypeOK'
  <2>1. PICK s \in Texts :
            call' = [call EXCEPT ![c] = [Idle EXCEPT !.pc = "upsert",
                        !.id = calls + 1, !.summary = s, !.found = row]]
        BY <1>3 DEF Find
  <2>2. [Idle EXCEPT !.pc = "upsert", !.id = calls + 1, !.summary = s,
                     !.found = row] \in Requests
    <3>1. calls + 1 \in Ids /\ row \in Rows /\ Idle \in Requests
          BY <1>3 DEF Find, Insertion, TypeOK, Ids
    <3> QED  BY <3>1 DEF Requests
  <2>3. call' \in [Callers -> Requests]  BY <2>1, <2>2 DEF TypeOK
  <2>4. calls' \in Ids  BY <1>3 DEF Find, Insertion, TypeOK, Ids
  <2>5. UNCHANGED << task, row, subtasks, latest, mixed >>  BY <1>3 DEF Find
  <2> QED  BY <2>1, <2>3, <2>4, <2>5 DEF TypeOK, Creating, Idle
<1>4. ASSUME NEW c \in Callers, Upsert(c) PROVE TypeOK'
  <2>1. call[c] \in Requests /\ call[c].found \in Rows
        BY DEF TypeOK, Requests
  <2>2. CASE UpdateFound(c)
    <3>1. row' \in Rows
          BY <2>1, <2>2 DEF UpdateFound, Rows, Requests, TypeOK
    <3> QED  BY <1>4, <2>2, <3>1 DEF Upsert, UpdateFound, TypeOK, Creating
  <2>3. CASE InsertNew(c)
    <3>1. row' \in Rows  BY <2>1, <2>3 DEF InsertNew, Rows, Requests
    <3> QED  BY <1>4, <1>r, <2>3, <3>1
             DEF Upsert, InsertNew, TypeOK, Creating
  <2> QED  BY <1>4, <2>2, <2>3 DEF Upsert
<1>5. ASSUME NEW c \in Callers, Clear(c) PROVE TypeOK'
  <2>1. PICK n \in 1 .. MaxItems :
         /\ call' = [call EXCEPT ![c] = [Idle EXCEPT !.pc = "create",
                         !.id = calls + 1, !.items = n, !.place = 1]]
         /\ latest' = [list |-> calls + 1, items |-> n, answered |-> FALSE]
        BY <1>5 DEF Clear
  <2>2. calls + 1 \in Ids  BY <1>5 DEF Clear, Insertion, TypeOK, Ids
  <2>3. [Idle EXCEPT !.pc = "create", !.id = calls + 1, !.items = n,
                     !.place = 1] \in Requests
    <3>1. n \in 0 .. MaxItems /\ 1 \in 0 .. MaxItems  OBVIOUS
    <3> QED  BY <2>2, <3>1 DEF Requests
  <2>4. call' \in [Callers -> Requests]  BY <2>1, <2>3 DEF TypeOK
  <2>5. latest' \in [list : Ids, items : 0 .. MaxItems, answered : BOOLEAN]
        BY <2>1, <2>2
  <2>6. mixed' \in BOOLEAN  BY <1>5 DEF Clear
  <2>7. subtasks' = {} /\ calls' = calls + 1 /\ UNCHANGED << task, row >>
        BY <1>5 DEF Clear, Cleared, Insertion
  <2> QED  BY <2>1, <2>2, <2>4, <2>5, <2>6, <2>7 DEF TypeOK, Creating, Idle
<1>6. ASSUME NEW c \in Callers, Create(c) PROVE TypeOK'
  <2>1. call[c] \in Requests /\ call[c].place \in 1 .. call[c].items
        BY <1>6 DEF Create, TypeOK
  <2>2. call' = [call EXCEPT ![c] = IF IsLast(c) THEN Idle
                                   ELSE [call[c] EXCEPT !.place = @ + 1]]
        BY <1>6 DEF Create
  <2>3. ~IsLast(c) =>
           /\ [call[c] EXCEPT !.place = @ + 1] \in Requests
           /\ call[c].place + 1 \in 1 .. call[c].items
        BY <2>1 DEF IsLast, Requests
  <2>4. call' \in [Callers -> Requests]  BY <2>2, <2>3 DEF TypeOK
  <2>5. latest' \in [list : Ids, items : 0 .. MaxItems, answered : BOOLEAN]
    <3>1. latest' = [latest EXCEPT !.answered =
                       @ \/ (IsLast(c) /\ latest.list = call[c].id)]
          BY <1>6 DEF Create
    <3> QED  BY <3>1, Zenon DEF TypeOK
  <2>6. Inserted(c) \in Subtasks
        BY <2>1 DEF Inserted, Subtasks, Requests
  <2>7. /\ subtasks' = subtasks \cup {Inserted(c)}
        /\ UNCHANGED << task, row, calls, mixed >>
        BY <1>6 DEF Create
  <2>8. \A d \in Callers : Creating(d)' => call'[d].place \in 1 .. call'[d].items
        BY <2>1, <2>2, <2>3 DEF TypeOK, Creating, Requests
  <2> QED  BY <2>4, <2>5, <2>6, <2>7, <2>8 DEF TypeOK
<1>7. ASSUME NEW c \in Callers, FindSubtask(c) PROVE TypeOK'
  <2>1. PICK s \in subtasks, status \in SubtaskStatuses :
           call' = [call EXCEPT ![c] = [Idle EXCEPT !.pc = "mark",
                        !.id = s.list, !.place = s.order, !.status = status]]
        BY <1>7 DEF FindSubtask
  <2>2. s \in Subtasks  BY DEF TypeOK
  <2>3. [Idle EXCEPT !.pc = "mark", !.id = s.list, !.place = s.order,
                     !.status = status] \in Requests
    <3>1. s.list \in Ids /\ s.order \in 0 .. MaxItems  BY <2>2 DEF Subtasks
    <3> QED  BY <3>1 DEF Requests
  <2> QED  BY <1>7, <2>1, <2>3 DEF FindSubtask, TypeOK, Creating, Idle
<1>8. ASSUME NEW c \in Callers, Mark(c) PROVE TypeOK'
  <2>1. \A s \in Subtasks : Marked(c, s) \in Subtasks
        BY DEF Marked, Subtasks, TypeOK, Requests
  <2>2. subtasks' \subseteq Subtasks  BY <1>8, <2>1 DEF Mark, TypeOK
  <2> QED  BY <1>8, <2>2 DEF Mark, TypeOK, Creating
<1>9. ASSUME NEW c \in Callers, GiveUp(c) PROVE TypeOK'
      BY <1>9 DEF GiveUp, TypeOK, Creating
<1>10. CASE UNCHANGED vars  BY <1>10 DEF vars, TypeOK, Creating
<1> QED  BY <1>1, <1>2, <1>3, <1>4, <1>5, <1>6, <1>7, <1>8, <1>9, <1>10 DEF Next

-----------------------------------------------------------------------------
(* Outputs                                                                  *)

\* Steps of the checklist, and of a request that ends, leave the outputs alone.
LEMMA OutputUnmoved ==
    ASSUME OutputInv, TypeOK', NothingLeft', UNCHANGED << task, row >>,
           calls' >= calls,
           \A d \in Callers : Upserting(d)' => Upserting(d) /\ call'[d] = call[d]
    PROVE  OutputInv'
<1> USE DEF OutputInv, Upserting
<1>t. calls \in Nat /\ calls' \in Nat /\ row.id \in Nat
  <2>1. row \in Rows /\ calls \in Ids /\ calls' \in Ids  BY DEF TypeOK
  <2> QED  BY <2>1, BoundsAssumption DEF Rows, Ids
<1>i. \A d \in Callers : call[d].id \in Nat /\ call[d].found.id \in Nat
  <2>1. \A d \in Callers : call[d] \in Requests  BY DEF TypeOK
  <2> QED  BY <2>1, BoundsAssumption DEF Requests, Rows, Ids
<1>1. FreshIds'
  <2>1. row'.id <= calls' /\ (row'.id = 0 => row'.output = Blank)
        BY <1>t DEF FreshIds
  <2>2. ASSUME NEW d \in Callers, Upserting(d)'
        PROVE  /\ call'[d].id # 0 /\ call'[d].id <= calls'
               /\ call'[d].found.id <= calls' /\ call'[d].id # row'.id
               /\ \A e \in Callers : Upserting(e)' =>
                    /\ call'[e].found.id # call'[d].id
                    /\ e # d => call'[e].id # call'[d].id
        BY <1>t, <1>i, <2>2 DEF FreshIds
  <2> QED  BY <2>1, <2>2 DEF FreshIds
<1>2. FoundIsCurrent'  BY DEF FoundIsCurrent
<1>3. CrossedInv'  BY DEF CrossedInv
<1> QED  BY <1>1, <1>2, <1>3

\* A row under a fresh id leaves every completion with a row that is gone.
LEMMA OutputReplaced ==
    ASSUME OutputInv, TypeOK', task, task', NEW how \in {"insert", "save"},
           row'.id # 0, row'.id <= calls', calls' >= calls,
           how = "insert" => row'.output = Blank,
           \A d \in Callers : Upserting(d)' =>
               /\ Upserting(d)
               /\ call'[d] = Replacing(how, d)
               /\ row'.id # call[d].id /\ row'.id # call[d].found.id
    PROVE  OutputInv'
<1> USE DEF OutputInv
<1>r. ASSUME NEW d \in Callers, Upserting(d)'
      PROVE  /\ Upserting(d)
             /\ call'[d].id = call[d].id /\ call'[d].found = call[d].found
             /\ call'[d].crossed \in {how, "save"}
             /\ call[d].id \in Nat /\ call[d].found.id \in Nat
  <2>1. call[d] \in Requests  BY DEF TypeOK
  <2>2. Upserting(d) /\ call'[d] = Replacing(how, d)  BY <1>r
  <2>3. call[d].id \in Nat /\ call[d].found.id \in Nat
        BY <2>1, BoundsAssumption DEF Requests, Rows, Ids
  <2>4. Replacing(how, d) = [call[d] EXCEPT
                               !.crossed = Replacing(how, d).crossed]
        /\ Replacing(how, d).crossed \in {how, "save"}
        BY <2>2, ReplacingType
  <2> QED  BY <2>1, <2>2, <2>3, <2>4 DEF Requests
<1>t. calls \in Nat /\ calls' \in Nat
  <2>1. calls \in Ids /\ calls' \in Ids  BY DEF TypeOK
  <2> QED  BY <2>1, BoundsAssumption DEF Ids
<1>0. NothingLeft'  BY DEF NothingLeft
<1>1. FreshIds'
  <2>1. ASSUME NEW d \in Callers, Upserting(d)'
        PROVE  /\ call'[d].id # 0 /\ call'[d].id <= calls'
               /\ call'[d].found.id <= calls' /\ call'[d].id # row'.id
        BY <1>r, <1>t, <2>1 DEF FreshIds
  <2>2. ASSUME NEW d \in Callers, Upserting(d)', NEW e \in Callers,
               Upserting(e)'
        PROVE  /\ call'[e].found.id # call'[d].id
               /\ e # d => call'[e].id # call'[d].id
        BY <1>r, <2>2 DEF FreshIds
  <2> QED  BY <2>1, <2>2 DEF FreshIds
<1>2. FoundIsCurrent'  BY <1>r DEF FoundIsCurrent, Upserting
<1>3. CrossedInv'  BY <1>r DEF CrossedInv
<1> QED  BY <1>0, <1>1, <1>2, <1>3

\* An update in place writes the output that is there.
LEMMA UpdatedOutput ==
    ASSUME OutputInv, NEW c \in Callers, Upserting(c), UpdateFound(c)
    PROVE  row'.id = row.id /\ row'.output = row.output
<1>1. call[c] \in Requests /\ call[c].found \in Rows
      BY DEF OutputInv, TypeOK, Requests
<1> QED  BY <1>1 DEF OutputInv, UpdateFound, FoundIsCurrent, Upserting, Rows

\* Every step of every request keeps the invariant of the outputs.
LEMMA OutputInvStep == OutputInv /\ [Next]_vars => OutputInv'
<1> SUFFICES ASSUME OutputInv, [Next]_vars PROVE OutputInv'  OBVIOUS
<1>t. TypeOK /\ TypeOK'  BY TypeInductive DEF OutputInv
<1>n. calls \in Nat /\ row.id \in Nat /\ row.id <= calls
  <2>1. calls \in Ids /\ row \in Rows  BY <1>t DEF TypeOK
  <2> QED  BY <2>1, BoundsAssumption DEF Ids, Rows, OutputInv, FreshIds
<1>i. \A d \in Callers : /\ call[d].id \in Nat /\ call[d].found.id \in Nat
                         /\ call[d].found \in Rows
  <2>1. \A d \in Callers : call[d] \in Requests  BY <1>t DEF TypeOK
  <2> QED  BY <2>1, BoundsAssumption DEF Requests, Rows, Ids
<1>1. CASE Save
  <2>1. task /\ task' /\ calls' = calls + 1 /\ row'.id = calls + 1
        /\ call' = [d \in Callers |-> Replacing("save", d)]
        BY <1>1 DEF Save, Insertion, Saved
  <2>2. \A d \in Callers : Upserting(d)' =>
           /\ Upserting(d) /\ call'[d] = Replacing("save", d)
           /\ row'.id # call[d].id /\ row'.id # call[d].found.id
    <3> SUFFICES ASSUME NEW d \in Callers, Upserting(d)'
                 PROVE  /\ Upserting(d) /\ call'[d] = Replacing("save", d)
                        /\ row'.id # call[d].id /\ row'.id # call[d].found.id
        OBVIOUS
    <3>1. call'[d] = Replacing("save", d)  BY <2>1
    <3>2. Upserting(d)  BY <1>t, <3>1, ReplacingType DEF Upserting
    <3>3. call[d].id <= calls /\ call[d].found.id <= calls
          BY <3>2 DEF OutputInv, FreshIds
    <3> QED  BY <1>n, <1>i, <2>1, <3>1, <3>2, <3>3
  <2> QED  BY <1>t, <1>n, <2>1, <2>2, OutputReplaced
<1>2. CASE DeleteTask
  <2>1. row' = NoRow /\ subtasks' = {} /\ ~task' /\ UNCHANGED << calls, call >>
        BY <1>2 DEF DeleteTask
  <2>2. row'.id = 0 /\ row'.output = Blank  BY <2>1, ConstantTypes
  <2>3. NothingLeft' /\ CrossedInv'  BY <2>1 DEF NothingLeft, CrossedInv
  <2>4. FreshIds'
        BY <1>n, <2>1, <2>2 DEF OutputInv, FreshIds, Upserting
  <2>5. FoundIsCurrent'  BY <2>1, <2>2 DEF FoundIsCurrent
  <2> QED  BY <1>t, <2>3, <2>4, <2>5 DEF OutputInv
<1>3. ASSUME NEW c \in Callers, Find(c) PROVE OutputInv'
  <2>1. PICK s \in Texts :
            call' = [call EXCEPT ![c] = [Idle EXCEPT !.pc = "upsert",
                        !.id = calls + 1, !.summary = s, !.found = row]]
        BY <1>3 DEF Find
  <2>2. /\ call'[c].id = calls + 1 /\ call'[c].found = row
        /\ call'[c].crossed = "no"
        /\ \A d \in Callers \ {c} : call'[d] = call[d]
        BY <1>t, <2>1 DEF TypeOK, Idle
  <2>3. task /\ calls' = calls + 1 /\ UNCHANGED << task, row, subtasks >>
        BY <1>3 DEF Find, Insertion
  <2>4. NothingLeft'  BY <2>3 DEF NothingLeft
  <2>5. FreshIds'
    <3>1. row'.id <= calls' /\ (row'.id = 0 => row'.output = Blank)
          BY <1>n, <2>3 DEF OutputInv, FreshIds
    <3>2. ASSUME NEW d \in Callers, Upserting(d)'
          PROVE  /\ call'[d].id # 0 /\ call'[d].id <= calls'
                 /\ call'[d].found.id <= calls' /\ call'[d].id # row'.id
      <4>1. CASE d = c  BY <1>n, <2>2, <2>3, <4>1
      <4>2. CASE d # c
            BY <1>n, <1>i, <2>2, <2>3, <3>2, <4>2
            DEF OutputInv, FreshIds, Upserting
      <4> QED  BY <4>1, <4>2
    <3>3. ASSUME NEW d \in Callers, Upserting(d)', NEW e \in Callers,
                 Upserting(e)'
          PROVE  /\ call'[e].found.id # call'[d].id
                 /\ e # d => call'[e].id # call'[d].id
      <4>1. CASE d = c /\ e = c  BY <1>n, <2>2, <4>1
      <4>2. CASE d = c /\ e # c
            BY <1>n, <1>i, <2>2, <3>3, <4>2 DEF OutputInv, FreshIds, Upserting
      <4>3. CASE d # c /\ e = c
            BY <1>n, <1>i, <2>2, <3>3, <4>3 DEF OutputInv, FreshIds, Upserting
      <4>4. CASE d # c /\ e # c
            BY <2>2, <3>3, <4>4 DEF OutputInv, FreshIds, Upserting
      <4> QED  BY <4>1, <4>2, <4>3, <4>4
    <3> QED  BY <3>1, <3>2, <3>3 DEF FreshIds
  <2>6. FoundIsCurrent'
        BY <2>2, <2>3 DEF OutputInv, FoundIsCurrent
  <2>7. CrossedInv'
    <3>1. row.id = 0 => row.output = Blank
          BY DEF OutputInv, FreshIds
    <3> QED  BY <2>2, <2>3, <3>1 DEF OutputInv, CrossedInv, Upserting
  <2> QED  BY <1>t, <2>4, <2>5, <2>6, <2>7 DEF OutputInv
<1>4. ASSUME NEW c \in Callers, Upsert(c) PROVE OutputInv'
  <2>0. Upserting(c) /\ UNCHANGED << task, subtasks, calls >>
        BY <1>4 DEF Upsert, Upserting
  <2>1. CASE UpdateFound(c)
    <3>1. row'.id = row.id /\ row'.output = row.output
          BY <2>0, <2>1, UpdatedOutput
    <3>2. \A d \in Callers : Upserting(d)' => Upserting(d) /\ call'[d] = call[d]
          BY <1>t, <2>1, ConstantTypes DEF UpdateFound, Upserting, TypeOK
    <3>3. NothingLeft'
      <4>1. CASE task  BY <2>0, <4>1 DEF NothingLeft
      <4>2. CASE ~task
        <5>1. row = NoRow /\ subtasks = {}
              BY <4>2 DEF OutputInv, NothingLeft
        <5>2. row' = row  BY <2>1, <5>1, ConstantTypes DEF UpdateFound
        <5> QED  BY <2>0, <5>1, <5>2 DEF NothingLeft
      <4> QED  BY <4>1, <4>2
    <3>4. FreshIds'
          BY <2>0, <3>1, <3>2 DEF OutputInv, FreshIds
    <3>5. FoundIsCurrent'
          BY <3>1, <3>2 DEF OutputInv, FoundIsCurrent, Upserting
    <3>6. CrossedInv'  BY <2>0, <3>1, <3>2 DEF OutputInv, CrossedInv
    <3> QED  BY <1>t, <3>3, <3>4, <3>5, <3>6 DEF OutputInv
  <2>2. CASE InsertNew(c)
    <3>1. /\ task /\ task' /\ row'.id = call[c].id /\ row'.output = Blank
          /\ call' = [d \in Callers |->
                         IF d = c THEN Idle ELSE Replacing("insert", d)]
          BY <2>0, <2>2 DEF InsertNew
    <3>2. row'.id # 0 /\ row'.id <= calls'
          BY <2>0, <3>1 DEF OutputInv, FreshIds
    <3>3. \A d \in Callers : Upserting(d)' =>
             /\ Upserting(d) /\ call'[d] = Replacing("insert", d)
             /\ row'.id # call[d].id /\ row'.id # call[d].found.id
      <4> SUFFICES ASSUME NEW d \in Callers, Upserting(d)'
                   PROVE  /\ Upserting(d) /\ call'[d] = Replacing("insert", d)
                          /\ row'.id # call[d].id /\ row'.id # call[d].found.id
          OBVIOUS
      <4>1. d # c /\ call'[d] = Replacing("insert", d)
            BY <3>1, ConstantTypes DEF Upserting
      <4>2. Upserting(d)  BY <1>t, <4>1, ReplacingType DEF Upserting
      <4> QED  BY <2>0, <3>1, <4>1, <4>2 DEF OutputInv, FreshIds
    <3> QED  BY <1>t, <1>n, <2>0, <3>1, <3>2, <3>3, OutputReplaced
  <2> QED  BY <1>4, <2>1, <2>2 DEF Upsert
<1>5. ASSUME NEW c \in Callers,
             \/ Clear(c) \/ Create(c) \/ FindSubtask(c) \/ Mark(c) \/ GiveUp(c)
      PROVE  OutputInv'
  <2>1. UNCHANGED << task, row >> /\ calls' >= calls
    <3>1. CASE Clear(c)  BY <1>n, <3>1 DEF Clear, Insertion
    <3>2. CASE Create(c)  BY <1>n, <3>2 DEF Create
    <3>3. CASE FindSubtask(c)  BY <1>n, <3>3 DEF FindSubtask
    <3>4. CASE Mark(c)  BY <1>n, <3>4 DEF Mark
    <3>5. CASE GiveUp(c)  BY <1>n, <3>5 DEF GiveUp
    <3> QED  BY <1>5, <3>1, <3>2, <3>3, <3>4, <3>5
  <2>2. \A d \in Callers \ {c} : call'[d] = call[d]
        BY <1>t, <1>5 DEF Clear, Create, FindSubtask, Mark, GiveUp, TypeOK
  <2>3. ~Upserting(c)'
    <3>1. CASE Clear(c)  BY <1>t, <3>1 DEF Clear, Upserting, TypeOK, Idle
    <3>2. CASE Create(c)
      <4>1. call[c] \in Requests /\ call[c].pc = "create"
            BY <1>t, <3>2 DEF Create, Creating, TypeOK
      <4>2. [call[c] EXCEPT !.place = @ + 1].pc = "create"
            BY <4>1 DEF Requests
      <4> QED  BY <1>t, <3>2, <4>2, ConstantTypes DEF Create, Upserting, TypeOK
    <3>3. CASE FindSubtask(c)
          BY <1>t, <3>3 DEF FindSubtask, Upserting, TypeOK, Idle
    <3>4. CASE Mark(c) \/ GiveUp(c)
          BY <1>t, <3>4, ConstantTypes DEF Mark, GiveUp, Upserting, TypeOK
    <3> QED  BY <1>5, <3>1, <3>2, <3>3, <3>4
  <2>4. NothingLeft'
    <3>1. CASE task  BY <2>1, <3>1 DEF NothingLeft
    <3>2. CASE ~task
      <4>1. row = NoRow /\ subtasks = {}  BY <3>2 DEF OutputInv, NothingLeft
      <4>2. subtasks' = {}
            BY <1>5, <3>2, <4>1 DEF Clear, Create, FindSubtask, Mark, GiveUp
      <4> QED  BY <2>1, <4>1, <4>2 DEF NothingLeft
    <3> QED  BY <3>1, <3>2
  <2> QED  BY <1>t, <2>1, <2>2, <2>3, <2>4, OutputUnmoved DEF Upserting
<1>6. CASE UNCHANGED vars
  <2>1. UNCHANGED << task, row, subtasks, calls, call >>  BY <1>6 DEF vars
  <2>2. NothingLeft'  BY <2>1 DEF OutputInv, NothingLeft
  <2> QED  BY <1>t, <1>n, <2>1, <2>2, OutputUnmoved DEF Upserting
<1> QED  BY <1>1, <1>2, <1>3, <1>4, <1>5, <1>6 DEF Next

\* Nothing is saved and no request is under way at the start.
LEMMA OutputInvInit == Init => OutputInv
<1> SUFFICES ASSUME Init PROVE OutputInv  OBVIOUS
<1>1. TypeOK
  <2>1. call \in [Callers -> Requests]  BY ConstantTypes DEF Init
  <2>2. \A c \in Callers : ~Creating(c)  BY ConstantTypes DEF Init, Creating
  <2>3. calls \in Ids  BY BoundsAssumption DEF Init, Ids
  <2>4. latest \in [list : Ids, items : 0 .. MaxItems, answered : BOOLEAN]
    <3>1. 0 \in Ids /\ 0 \in 0 .. MaxItems  BY BoundsAssumption DEF Ids
    <3> QED  BY <3>1 DEF Init
  <2> QED  BY <2>1, <2>2, <2>3, <2>4, ConstantTypes DEF Init, TypeOK
<1>2. \A c \in Callers : ~Upserting(c)
      BY ConstantTypes DEF Init, Upserting
<1>3. row.id = 0 /\ row.output = Blank /\ calls = 0 /\ task
      BY ConstantTypes DEF Init
<1> QED  BY <1>1, <1>2, <1>3
         DEF OutputInv, NothingLeft, FreshIds, FoundIsCurrent, CrossedInv,
             Upserting

\* The invariant of the outputs holds throughout, whatever requests interleave.
THEOREM OutputInvariance == Spec => []OutputInv
<1> QED  BY OutputInvInit, OutputInvStep, PTL DEF Spec

\* Rows, requests and counters always have their types.
THEOREM RecordsTypeCorrect == Spec => []TypeOK
<1>1. OutputInv => TypeOK  BY DEF OutputInv
<1> QED  BY <1>1, OutputInvariance, PTL

\* The whole-row UPDATE of a completion never writes an older output.
THEOREM NoOutputIsUndone == Spec => []FoundIsCurrent
<1>1. OutputInv => FoundIsCurrent  BY DEF OutputInv
<1> QED  BY <1>1, OutputInvariance, PTL

\* Only a save between its two statements lets a completion lose an output.
THEOREM OutputsSurvive == Spec => OutputSurvives
<1>1. ASSUME OutputInv, NEW c \in Callers, Upsert(c),
             call[c].crossed # "save"
      PROVE  row'.output = row.output
  <2>0. Upserting(c)  BY <1>1 DEF Upsert, Upserting
  <2>1. CASE UpdateFound(c)  BY <1>1, <2>0, <2>1, UpdatedOutput
  <2>2. CASE InsertNew(c)
        BY <1>1, <2>0, <2>2 DEF OutputInv, CrossedInv, InsertNew
  <2> QED  BY <1>1, <2>1, <2>2 DEF Upsert
<1>2. OutputInv /\ [Next]_vars =>
         [\A c \in Callers : Upsert(c) /\ call[c].crossed # "save"
                             => row'.output = row.output]_vars
      BY <1>1
<1> QED  BY <1>2, OutputInvariance, PTL DEF Spec, OutputSurvives

\* A completion's summary is in the row it leaves, unless the row was replaced.
THEOREM SummariesAreKept == Spec => SummaryIsKept
<1>1. ASSUME OutputInv, NEW c \in Callers, Upsert(c), task,
             call[c].crossed = "no"
      PROVE  row'.summary = call[c].summary
  <2>0. Upserting(c)  BY <1>1 DEF Upsert, Upserting
  <2>1. CASE UpdateFound(c)
    <3>1. row.id = call[c].found.id
          BY <1>1, <2>0 DEF OutputInv, CrossedInv
    <3>2. call[c].found \in Rows
      <4>1. call[c] \in Requests  BY <1>1 DEF OutputInv, TypeOK
      <4> QED  BY <4>1 DEF Requests
    <3> QED  BY <2>1, <3>1, <3>2 DEF UpdateFound, Rows
  <2>2. CASE InsertNew(c)  BY <2>2 DEF InsertNew
  <2> QED  BY <1>1, <2>1, <2>2 DEF Upsert
<1>2. OutputInv /\ [Next]_vars =>
         [\A c \in Callers : Upsert(c) /\ task /\ call[c].crossed = "no"
                             => row'.summary = call[c].summary]_vars
      BY <1>1
<1> QED  BY <1>2, OutputInvariance, PTL DEF Spec, SummaryIsKept
-----------------------------------------------------------------------------
(* The checklist                                                            *)

\* The numbers of the checklist are numbers.
LEMMA ListNumbers ==
    ASSUME TypeOK
    PROVE  /\ calls \in Nat /\ latest.list \in Ids /\ latest.items \in Nat
           /\ Ids \subseteq Nat /\ Places \subseteq Nat
           /\ \A c \in Callers : /\ call[c].id \in Ids /\ call[c].place \in Nat
                                 /\ call[c].items \in 0 .. MaxItems
<1>1. Ids \subseteq Nat /\ Places \subseteq Nat
      BY BoundsAssumption DEF Ids, Places
<1>2. \A c \in Callers : call[c] \in Requests  BY DEF TypeOK
<1>3. \A c \in Callers : /\ call[c].id \in Ids /\ call[c].place \in Nat
                         /\ call[c].items \in 0 .. MaxItems
  <2>1. 0 .. MaxItems \subseteq Nat  BY BoundsAssumption
  <2> QED  BY <1>2, <2>1 DEF Requests
<1>4. calls \in Nat /\ latest.list \in Ids /\ latest.items \in Nat
      BY <1>1, BoundsAssumption DEF TypeOK
<1> QED  BY <1>1, <1>3, <1>4

\* Steps that keep the items and every list under way keep the invariant.
LEMMA ListUnmoved ==
    ASSUME ListInv, TypeOK', calls <= calls',
           task' = task, latest' = latest, mixed' = mixed, Keys' = Keys,
           \A d \in Callers : Creating(d)' => Creating(d) /\ call'[d] = call[d]
    PROVE  ListInv'
<1>n. /\ calls \in Nat /\ calls' \in Nat /\ latest.list \in Nat
      /\ Ids \subseteq Nat
      /\ \A c \in Callers : call[c].id \in Ids
      BY ListNumbers, BoundsAssumption DEF ListInv, TypeOK, Ids
<1>1. GrowingInv'
  <2>1. latest'.list <= calls'  BY <1>n DEF ListInv, GrowingInv
  <2>2. \A l \in Ids, k \in Places : << l, k >> \in Keys' => l <= calls'
        BY <1>n DEF ListInv, GrowingInv
  <2>3. ASSUME NEW d \in Callers, Creating(d)' PROVE call'[d].id <= calls'
    <3>1. Creating(d) /\ call'[d] = call[d]  BY <2>3
    <3>2. call[d].id <= calls  BY <3>1 DEF ListInv, GrowingInv
    <3>3. call[d].id \in Nat  BY <1>n
    <3> QED  BY <1>n, <3>1, <3>2, <3>3
  <2>4. \A d \in Callers : Creating(d)' =>
          /\ \A e \in Callers : Creating(e)' /\ e # d => call'[e].id # call'[d].id
          /\ \A k \in Places : << call'[d].id, k >> \in Keys' =>
               /\ k < call'[d].place
               /\ \A j \in Places : k <= j /\ j < call'[d].place
                                    => << call'[d].id, j >> \in Keys'
    <3> SUFFICES ASSUME NEW d \in Callers, Creating(d)' PROVE
          /\ \A e \in Callers : Creating(e)' /\ e # d => call'[e].id # call'[d].id
          /\ \A k \in Places : << call'[d].id, k >> \in Keys' =>
               /\ k < call'[d].place
               /\ \A j \in Places : k <= j /\ j < call'[d].place
                                    => << call'[d].id, j >> \in Keys'
        OBVIOUS
    <3>1. Creating(d) /\ call'[d] = call[d]  OBVIOUS
    <3>2. \A e \in Callers : Creating(e)' => Creating(e) /\ call'[e] = call[e]
          OBVIOUS
    <3>3. GrowingInv  BY DEF ListInv
    <3>4. \A e \in Callers : Creating(e)' /\ e # d => call'[e].id # call'[d].id
          BY <3>1, <3>2, <3>3 DEF GrowingInv
    <3>5. \A k \in Places : << call[d].id, k >> \in Keys =>
              /\ k < call[d].place
              /\ \A j \in Places : k <= j /\ j < call[d].place
                                   => << call[d].id, j >> \in Keys
          BY <3>1, <3>3 DEF GrowingInv
    <3> QED  BY <3>1, <3>4, <3>5
  <2> QED  BY <2>1, <2>2, <2>3, <2>4 DEF GrowingInv
<1>2. RunsInv'  BY DEF ListInv, RunsInv
<1>3. LatestInv'  BY DEF ListInv, LatestInv
<1> QED  BY <1>1, <1>2, <1>3 DEF ListInv

\* Marking an item moves none.
LEMMA MarkKeepsItems ==
    ASSUME TypeOK, NEW c \in Callers, Mark(c) PROVE Keys' = Keys
<1>1. \A s \in subtasks : /\ Marked(c, s).list = s.list
                          /\ Marked(c, s).order = s.order
      BY DEF TypeOK, Subtasks, Marked
<1>2. subtasks' = {Marked(c, s) : s \in subtasks}  BY DEF Mark
<1> QED  BY <1>1, <1>2 DEF Keys

\* Creating one adds just that one.
LEMMA CreateAddsItem ==
    ASSUME NEW c \in Callers, Create(c)
    PROVE  Keys' = Keys \cup {<< call[c].id, call[c].place >>}
<1>1. /\ subtasks' = subtasks \cup {Inserted(c)}
      /\ Inserted(c).list = call[c].id /\ Inserted(c).order = call[c].place
      BY DEF Create, Inserted
<1> QED  BY <1>1 DEF Keys

\* A replacement that begins leaves nothing of the lists before it.
LEMMA ClearStep ==
    ASSUME ListInv, TypeOK', NEW c \in Callers, Clear(c) PROVE ListInv'
<1> USE DEF ListInv
<1>n. /\ calls \in Nat /\ Ids \subseteq Nat /\ Places \subseteq Nat
      /\ \A d \in Callers : call[d].id \in Ids
      BY ListNumbers
<1>1. PICK n \in 1 .. MaxItems :
         /\ call' = [call EXCEPT ![c] = [Idle EXCEPT !.pc = "create",
                         !.id = calls + 1, !.items = n, !.place = 1]]
         /\ latest' = [list |-> calls + 1, items |-> n, answered |-> FALSE]
      BY DEF Clear
<1>2. /\ Creating(c)' /\ call'[c].id = calls + 1 /\ call'[c].items = n
      /\ call'[c].place = 1
      BY <1>1 DEF TypeOK, Idle, Creating
<1>3. \A d \in Callers \ {c} : call'[d] = call[d]  BY <1>1 DEF TypeOK
<1>4. Keys' = {}  BY DEF Clear, Cleared, Keys
<1>5. calls' = calls + 1 /\ (mixed' <=> \E d \in Callers : Creating(d))
      BY DEF Clear, Insertion
<1>6. GrowingInv'
  <2>1. \A d \in Callers : Creating(d)' =>
          /\ call'[d].id <= calls'
          /\ \A e \in Callers : Creating(e)' /\ e # d => call'[e].id # call'[d].id
    <3>1. \A d \in Callers \ {c} : Creating(d)' => Creating(d)
          BY <1>3 DEF Creating
    <3>2. \A d \in Callers \ {c} : Creating(d)' =>
              call'[d].id = call[d].id /\ call[d].id <= calls
          BY <1>3, <3>1 DEF GrowingInv
    <3>3. \A d, e \in Callers \ {c} :
              Creating(d)' /\ Creating(e)' /\ e # d => call'[e].id # call'[d].id
          BY <1>3, <3>1 DEF GrowingInv
    <3>4. \A d \in Callers \ {c} : Creating(d)' =>
              call'[d].id \in Nat /\ call'[d].id < calls + 1
      <4>1. \A d \in Callers : call[d].id \in Nat  BY <1>n
      <4>2. \A i \in Nat : i <= calls => i < calls + 1  BY <1>n
      <4> QED  BY <3>2, <4>1, <4>2
    <3>5. call'[c].id = calls' /\ calls' = calls + 1  BY <1>2, <1>5
    <3>6. ASSUME NEW d \in Callers, Creating(d)' PROVE call'[d].id <= calls'
      <4>1. CASE d = c
        <5>1. calls' <= calls'  BY <1>n, <3>5
        <5> QED  BY <3>5, <4>1, <5>1
      <4>2. CASE d # c
        <5>1. call'[d].id \in Nat /\ call'[d].id < calls + 1
              BY <3>4, <3>6, <4>2
        <5> QED  BY <1>n, <3>5, <5>1
      <4> QED  BY <4>1, <4>2
    <3>7. \A d \in Callers \ {c} : Creating(d)' => call'[d].id # call'[c].id
          BY <1>n, <3>4, <3>5
    <3> QED  BY <3>3, <3>6, <3>7
  <2>2. latest'.list <= calls'  BY <1>n, <1>1, <1>5
  <2> QED  BY <1>4, <2>1, <2>2 DEF GrowingInv
<1>7. RunsInv'  BY <1>4 DEF RunsInv
<1>8. LatestInv'
  <2>1. ~mixed' => \A d \in Callers : Creating(d)' => d = c
        BY <1>3, <1>5 DEF Creating
  <2>2. \A k \in Places : ~(k < 1)  BY DEF Places
  <2>3. latest'.list = calls + 1 /\ latest'.items = n /\ ~latest'.answered
        BY <1>1
  <2>4. \A k \in Places : << call'[c].id, k >> \in Keys' <=> k < call'[c].place
        BY <1>2, <1>4, <2>2
  <2>5. \A d \in Callers : ~mixed' /\ Creating(d)' =>
          /\ call'[d].id = latest'.list /\ call'[d].items = latest'.items
          /\ \A k \in Places : << call'[d].id, k >> \in Keys'
                               <=> k < call'[d].place
        BY <1>2, <2>1, <2>3, <2>4
  <2> QED  BY <1>4, <2>3, <2>5 DEF LatestInv
<1> QED  BY <1>6, <1>7, <1>8

\* The next item of a list under way follows the last one it has.
LEMMA CreateStep ==
    ASSUME ListInv, TypeOK', NEW c \in Callers, Create(c) PROVE ListInv'
<1> DEFINE id == call[c].id
           place == call[c].place
<1> USE DEF ListInv
<1>n. /\ calls \in Nat /\ Ids \subseteq Nat /\ Places \subseteq Nat
      /\ id \in Ids /\ place \in Places /\ place <= call[c].items
      /\ call[c].items \in Nat /\ latest.list \in Ids /\ latest.items \in Nat
      /\ \A d \in Callers : call[d].id \in Ids /\ call[d].place \in Nat
  <2>1. Creating(c)  BY DEF Create
  <2>2. place \in 1 .. call[c].items /\ call[c].items \in 0 .. MaxItems
        BY <2>1, ListNumbers DEF TypeOK
  <2> QED  BY <2>2, ListNumbers, BoundsAssumption DEF Places
<1>1. Creating(c) /\ task /\ UNCHANGED << task, calls, mixed >>  BY DEF Create
<1>2. Keys' = Keys \cup {<< id, place >>}  BY CreateAddsItem
<1>3. \A d \in Callers \ {c} : call'[d] = call[d]  BY DEF Create, TypeOK
<1>4. IsLast(c) => ~Creating(c)'
      BY ConstantTypes DEF Create, TypeOK, Creating
<1>5. ~IsLast(c) => /\ call'[c].id = id /\ call'[c].place = place + 1
                    /\ call'[c].items = call[c].items
  <2>1. call[c] \in Requests  BY DEF TypeOK
  <2>2. ~IsLast(c) => call'[c] = [call[c] EXCEPT !.place = @ + 1]
        BY DEF Create, TypeOK
  <2> QED  BY <2>1, <2>2 DEF Requests
<1>6. \A d \in Callers : Creating(d)' =>
         Creating(d) /\ call'[d].id = call[d].id /\ call'[d].items = call[d].items
      BY <1>1, <1>3, <1>4, <1>5 DEF Creating
<1>7. /\ latest'.list = latest.list /\ latest'.items = latest.items
      /\ latest'.answered <=> latest.answered \/ (IsLast(c) /\ latest.list = id)
  <2>1. latest' = [latest EXCEPT !.answered =
                      @ \/ (IsLast(c) /\ latest.list = call[c].id)]
        BY DEF Create
  <2>2. latest \in [list : Ids, items : 0 .. MaxItems, answered : BOOLEAN]
        BY DEF TypeOK
  <2> QED  BY <2>1, <2>2, Zenon
<1>g. /\ id <= calls
      /\ \A k \in Places : << id, k >> \in Keys =>
           /\ k < place
           /\ \A j \in Places : k <= j /\ j < place => << id, j >> \in Keys
      BY <1>1 DEF GrowingInv
<1>8. GrowingInv'
  <2>1. latest'.list <= calls'  BY <1>1, <1>7 DEF GrowingInv
  <2>2. \A l \in Ids, k \in Places : << l, k >> \in Keys' => l <= calls'
        BY <1>1, <1>2, <1>g DEF GrowingInv
  <2>3. \A d \in Callers : Creating(d)' =>
          /\ call'[d].id <= calls'
          /\ \A e \in Callers : Creating(e)' /\ e # d => call'[e].id # call'[d].id
    <3>1. \A d \in Callers : Creating(d)' => call'[d].id <= calls'
          BY <1>1, <1>6 DEF GrowingInv
    <3>2. \A d, e \in Callers : Creating(d) /\ Creating(e) /\ e # d
                                => call[e].id # call[d].id
          BY DEF GrowingInv
    <3> QED  BY <1>6, <3>1, <3>2
  <2>4. ASSUME NEW d \in Callers, Creating(d)', NEW k \in Places,
               << call'[d].id, k >> \in Keys'
        PROVE  /\ k < call'[d].place
               /\ \A j \in Places : k <= j /\ j < call'[d].place
                                    => << call'[d].id, j >> \in Keys'
    <3>1. CASE d = c
      <4>1. call'[d].id = id /\ call'[d].place = place + 1
            BY <1>4, <1>5, <2>4, <3>1
      <4>2. CASE k = place  BY <1>n, <1>2, <4>1, <4>2
      <4>3. CASE k # place
        <5>1. << id, k >> \in Keys  BY <1>2, <2>4, <4>1, <4>3
        <5> QED  BY <1>n, <1>2, <1>g, <4>1, <5>1
      <4> QED  BY <4>2, <4>3
    <3>2. CASE d # c
      <4>1. Creating(d) /\ call'[d] = call[d]  BY <1>3, <1>6, <2>4, <3>2
      <4>2. call[d].id # id  BY <1>1, <3>2, <4>1 DEF GrowingInv
      <4>3. << call[d].id, k >> \in Keys  BY <1>2, <2>4, <4>1, <4>2
      <4>4. /\ k < call[d].place
            /\ \A j \in Places : k <= j /\ j < call[d].place
                                 => << call[d].id, j >> \in Keys
            BY <4>1, <4>3 DEF GrowingInv
      <4> QED  BY <1>2, <4>1, <4>4
    <3> QED  BY <3>1, <3>2
  <2> QED  BY <2>1, <2>2, <2>3, <2>4 DEF GrowingInv
<1>9. RunsInv'
  <2> SUFFICES ASSUME NEW l \in Ids, NEW i \in Places, NEW j \in Places,
                      NEW k \in Places, << l, i >> \in Keys',
                      << l, j >> \in Keys', i <= k, k <= j
               PROVE  << l, k >> \in Keys'
      BY DEF RunsInv
  <2>1. CASE << l, i >> \in Keys /\ << l, j >> \in Keys
        BY <1>2, <2>1 DEF RunsInv
  <2>2. CASE l = id /\ i = place
    <3>1. ~(<< l, j >> \in Keys) \/ j < place  BY <1>g, <2>2
    <3>2. j = place  BY <1>n, <1>2, <2>2, <3>1
    <3> QED  BY <1>n, <1>2, <2>2, <3>2
  <2>3. CASE << l, i >> \in Keys /\ l = id /\ j = place
    <3>1. CASE k = place  BY <1>2, <2>3, <3>1
    <3>2. CASE k # place  BY <1>n, <1>2, <1>g, <2>3, <3>2
    <3> QED  BY <3>1, <3>2
  <2> QED  BY <1>2, <2>1, <2>2, <2>3
<1>10. LatestInv'
  <2> SUFFICES ASSUME ~mixed' PROVE
        /\ \A l \in Ids, k \in Places : << l, k >> \in Keys' => l = latest'.list
        /\ latest'.answered => \A k \in Places :
                 << latest'.list, k >> \in Keys' <=> k <= latest'.items
        /\ \A d \in Callers : Creating(d)' =>
             /\ call'[d].id = latest'.list /\ call'[d].items = latest'.items
             /\ ~latest'.answered
             /\ task' => \A k \in Places :
                           << call'[d].id, k >> \in Keys' <=> k < call'[d].place
      BY DEF LatestInv
  <2>1. ~mixed  BY <1>1
  <2>2. /\ id = latest.list /\ call[c].items = latest.items /\ ~latest.answered
        /\ \A k \in Places : << id, k >> \in Keys <=> k < place
        /\ \A l \in Ids, k \in Places : << l, k >> \in Keys => l = latest.list
        BY <1>1, <2>1 DEF LatestInv
  <2>3. \A d \in Callers : Creating(d) => d = c
    <3>1. \A d \in Callers : Creating(d) => call[d].id = latest.list
          BY <2>1 DEF LatestInv
    <3> QED  BY <1>1, <2>2, <3>1 DEF GrowingInv
  <2>4. \A l \in Ids, k \in Places : << l, k >> \in Keys' => l = latest'.list
        BY <1>2, <1>7, <2>2
  <2>5. \A k \in Places : << id, k >> \in Keys' <=> k <= place
    <3>1. \A k \in Places : << id, k >> \in Keys' <=> k < place \/ k = place
          BY <1>2, <2>2
    <3>2. \A k \in Places : k \in Nat  BY <1>n
    <3>3. place \in Nat  BY <1>n
    <3> HIDE DEF place
    <3>4. \A k \in Places : k < place \/ k = place <=> k <= place
          BY <3>2, <3>3
    <3> QED  BY <3>1, <3>4
  <2>6. latest'.answered => \A k \in Places :
            << latest'.list, k >> \in Keys' <=> k <= latest'.items
        BY <1>7, <2>2, <2>5 DEF IsLast
  <2>7. \A d \in Callers : Creating(d)' =>
             /\ call'[d].id = latest'.list /\ call'[d].items = latest'.items
             /\ ~latest'.answered
             /\ \A k \in Places :
                    << call'[d].id, k >> \in Keys' <=> k < call'[d].place
    <3>1. ASSUME NEW d \in Callers, Creating(d)' PROVE d = c /\ ~IsLast(c)
          BY <1>4, <1>6, <2>3, <3>1
    <3>2. ~IsLast(c) => \A k \in Places :
              << call'[c].id, k >> \in Keys' <=> k < call'[c].place
          BY <1>n, <1>5, <2>5
    <3> QED  BY <1>5, <1>7, <2>2, <3>1, <3>2
  <2> QED  BY <2>4, <2>6, <2>7
<1> QED  BY <1>8, <1>9, <1>10

\* Every step of every request keeps the invariant of the checklist.
LEMMA ListInvStep == ListInv /\ [Next]_vars => ListInv'
<1> SUFFICES ASSUME ListInv, [Next]_vars PROVE ListInv'  OBVIOUS
<1>t. TypeOK /\ TypeOK' /\ calls \in Nat
      BY TypeInductive, ListNumbers DEF ListInv
<1>1. CASE Save
  <2>1. /\ task' = task /\ subtasks' = subtasks /\ latest' = latest
        /\ mixed' = mixed /\ calls' = calls + 1
        /\ call' = [d \in Callers |-> Replacing("save", d)]
        BY <1>1 DEF Save, Insertion
  <2>2. \A d \in Callers : Creating(d)' => Creating(d) /\ call'[d] = call[d]
    <3> SUFFICES ASSUME NEW d \in Callers, Creating(d)'
                 PROVE  Creating(d) /\ call'[d] = call[d]
        OBVIOUS
    <3>1. call'[d] = Replacing("save", d) /\ call'[d].pc = "create"
          BY <2>1 DEF Creating
    <3>2. call[d] \in Requests  BY <1>t DEF TypeOK
    <3>3. call[d].pc = "create"  BY <3>1, <3>2 DEF Replacing, Requests
    <3> QED  BY <3>1, <3>3 DEF Creating, Replacing
  <2>3. Keys' = Keys  BY <2>1 DEF Keys
  <2> QED  BY <1>t, <2>1, <2>2, <2>3, ListUnmoved
<1>2. CASE DeleteTask
  <2>1. /\ subtasks' = {} /\ ~task' /\ calls' = calls /\ call' = call
        /\ latest' = [latest EXCEPT !.answered = FALSE] /\ mixed' = mixed
        BY <1>2 DEF DeleteTask
  <2>2. Keys' = {}  BY <2>1 DEF Keys
  <2>3. latest'.list = latest.list /\ latest'.items = latest.items
        /\ ~latest'.answered
        BY <1>t, <2>1 DEF TypeOK
  <2>4. GrowingInv'  BY <2>1, <2>2, <2>3 DEF ListInv, GrowingInv, Creating
  <2>5. RunsInv'  BY <2>2 DEF RunsInv
  <2>6. LatestInv'
        BY <2>1, <2>2, <2>3 DEF ListInv, LatestInv, Creating
  <2> QED  BY <1>t, <2>4, <2>5, <2>6 DEF ListInv
<1>3. ASSUME NEW c \in Callers, Find(c) PROVE ListInv'
  <2>1. /\ task' = task /\ subtasks' = subtasks /\ latest' = latest
        /\ mixed' = mixed /\ calls' = calls + 1
        BY <1>3 DEF Find, Insertion
  <2>2. \A d \in Callers : Creating(d)' => Creating(d) /\ call'[d] = call[d]
        BY <1>t, <1>3 DEF Find, TypeOK, Creating, Idle
  <2>3. Keys' = Keys  BY <2>1 DEF Keys
  <2> QED  BY <1>t, <2>1, <2>2, <2>3, ListUnmoved
<1>4. ASSUME NEW c \in Callers, Upsert(c) PROVE ListInv'
  <2>1. /\ task' = task /\ subtasks' = subtasks /\ latest' = latest
        /\ mixed' = mixed /\ calls' = calls /\ call[c].pc = "upsert"
        BY <1>4 DEF Upsert
  <2>2. \A d \in Callers : Creating(d)' => Creating(d) /\ call'[d] = call[d]
    <3> SUFFICES ASSUME NEW d \in Callers, Creating(d)'
                 PROVE  Creating(d) /\ call'[d] = call[d]
        OBVIOUS
    <3>1. CASE UpdateFound(c)
          BY <1>t, <3>1, ConstantTypes DEF UpdateFound, TypeOK, Creating
    <3>2. CASE InsertNew(c)
      <4>1. d # c /\ call'[d] = Replacing("insert", d)
            BY <3>2, ConstantTypes DEF InsertNew, Creating
      <4>2. call[d] \in Requests /\ call'[d].pc = "create"
            BY <1>t DEF TypeOK, Creating
      <4>3. call[d].pc = "create"  BY <4>1, <4>2 DEF Replacing, Requests
      <4> QED  BY <4>1, <4>3 DEF Creating, Replacing
    <3> QED  BY <1>4, <3>1, <3>2 DEF Upsert
  <2>3. Keys' = Keys  BY <2>1 DEF Keys
  <2> QED  BY <1>t, <2>1, <2>2, <2>3, ListUnmoved
<1>5. ASSUME NEW c \in Callers, Clear(c) PROVE ListInv'
      BY <1>t, <1>5, ClearStep
<1>6. ASSUME NEW c \in Callers, Create(c) PROVE ListInv'
      BY <1>t, <1>6, CreateStep
<1>7. ASSUME NEW c \in Callers, FindSubtask(c) PROVE ListInv'
  <2>1. /\ task' = task /\ subtasks' = subtasks /\ latest' = latest
        /\ mixed' = mixed /\ calls' = calls
        BY <1>7 DEF FindSubtask
  <2>2. \A d \in Callers : Creating(d)' => Creating(d) /\ call'[d] = call[d]
        BY <1>t, <1>7 DEF FindSubtask, TypeOK, Creating, Idle
  <2>3. Keys' = Keys  BY <2>1 DEF Keys
  <2> QED  BY <1>t, <2>1, <2>2, <2>3, ListUnmoved
<1>8. ASSUME NEW c \in Callers, Mark(c) PROVE ListInv'
  <2>1. task' = task /\ latest' = latest /\ mixed' = mixed /\ calls' = calls
        BY <1>8 DEF Mark
  <2>2. \A d \in Callers : Creating(d)' => Creating(d) /\ call'[d] = call[d]
        BY <1>t, <1>8, ConstantTypes DEF Mark, TypeOK, Creating
  <2>3. Keys' = Keys  BY <1>t, <1>8, MarkKeepsItems
  <2> QED  BY <1>t, <2>1, <2>2, <2>3, ListUnmoved
<1>9. ASSUME NEW c \in Callers, GiveUp(c) PROVE ListInv'
  <2>1. /\ task' = task /\ subtasks' = subtasks /\ latest' = latest
        /\ mixed' = mixed /\ calls' = calls
        BY <1>9 DEF GiveUp
  <2>2. \A d \in Callers : Creating(d)' => Creating(d) /\ call'[d] = call[d]
        BY <1>t, <1>9, ConstantTypes DEF GiveUp, TypeOK, Creating
  <2>3. Keys' = Keys  BY <2>1 DEF Keys
  <2> QED  BY <1>t, <2>1, <2>2, <2>3, ListUnmoved
<1>10. CASE UNCHANGED vars
  <2>1. /\ task' = task /\ subtasks' = subtasks /\ latest' = latest
        /\ mixed' = mixed /\ calls' = calls /\ call' = call
        BY <1>10 DEF vars
  <2>2. Keys' = Keys  BY <2>1 DEF Keys
  <2> QED  BY <1>t, <2>1, <2>2, ListUnmoved DEF Creating
<1> QED  BY <1>1, <1>2, <1>3, <1>4, <1>5, <1>6, <1>7, <1>8, <1>9, <1>10 DEF Next

\* The invariant of the checklist holds throughout, whatever requests interleave.
THEOREM ListInvariance == Spec => []ListInv
<1>1. Init => ListInv
  <2> SUFFICES ASSUME Init PROVE ListInv  OBVIOUS
  <2>1. TypeOK  BY OutputInvInit DEF OutputInv
  <2>2. /\ Keys = {} /\ latest.list = 0 /\ calls = 0 /\ ~latest.answered
        /\ \A c \in Callers : ~Creating(c)
        BY ConstantTypes DEF Init, Keys, Creating
  <2> QED  BY <2>1, <2>2 DEF ListInv, GrowingInv, RunsInv, LatestInv
<1> QED  BY <1>1, ListInvStep, PTL DEF Spec

\* The items of the checklist, as records and as keys.
LEMMA KeysOfSubtasks ==
    ASSUME TypeOK
    PROVE  /\ \A s \in subtasks : /\ << s.list, s.order >> \in Keys
                                  /\ s.list \in Ids /\ s.order \in Places
           /\ Keys \subseteq Ids \X Places
<1>1. \A s \in subtasks : s.list \in Ids /\ s.order \in Places
      BY DEF TypeOK, Subtasks, Places
<1> QED  BY <1>1 DEF Keys

\* What is left of a list never has a hole, whatever overlaps or fails.
THEOREM ListsHaveNoHoles == Spec => []NoHoles
<1>1. ListInv => NoHoles
  <2> SUFFICES ASSUME ListInv, NEW s \in subtasks, NEW t \in subtasks,
                      s.list = t.list, NEW k \in s.order .. t.order
               PROVE  << s.list, k >> \in Keys
      BY DEF NoHoles
  <2>1. s.order \in Places /\ t.order \in Places /\ s.list \in Ids
        BY KeysOfSubtasks DEF ListInv
  <2>2. << s.list, s.order >> \in Keys /\ << s.list, t.order >> \in Keys
        BY KeysOfSubtasks DEF ListInv
  <2>3. k \in Places /\ s.order <= k /\ k <= t.order
        BY <2>1, BoundsAssumption DEF Places
  <2> QED  BY <2>1, <2>2, <2>3 DEF ListInv, RunsInv
<1> QED  BY <1>1, ListInvariance, PTL

\* Without an overlap the checklist is the latest list, whole once answered.
THEOREM LatestListStands == Spec => []ListIsLatest
<1>1. ListInv => ListIsLatest
  <2> SUFFICES ASSUME ListInv, ~mixed
               PROVE  /\ \A s \in subtasks : s.list = latest.list
                      /\ latest.answered =>
                           Keys = {latest.list} \X (1 .. latest.items)
      BY DEF ListIsLatest
  <2>1. \A s \in subtasks : s.list = latest.list
        BY KeysOfSubtasks DEF ListInv, LatestInv
  <2>2. ASSUME latest.answered
        PROVE  Keys = {latest.list} \X (1 .. latest.items)
    <3>1. Keys \subseteq Ids \X Places  BY KeysOfSubtasks DEF ListInv
    <3>2. \A l \in Ids, k \in Places : << l, k >> \in Keys => l = latest.list
          BY DEF ListInv, LatestInv
    <3>3. \A k \in Places : << latest.list, k >> \in Keys <=> k <= latest.items
          BY <2>2 DEF ListInv, LatestInv
    <3>4. latest.list \in Ids /\ latest.items \in 0 .. MaxItems
          BY DEF ListInv, TypeOK
    <3>5. \A k : k \in 1 .. latest.items <=> k \in Places /\ k <= latest.items
          BY <3>4, BoundsAssumption DEF Places
    <3> QED  BY <3>1, <3>2, <3>3, <3>4, <3>5
  <2> QED  BY <2>1, <2>2
<1> QED  BY <1>1, ListInvariance, PTL
=============================================================================
