--------------------------- MODULE Handover_proofs ---------------------------
(* What is handed over reaches the next harness, for any number of           *)
(* goroutines, commands and texts.                                           *)
EXTENDS Handover, TLAPS

\* What was saved is still carried by the row of its lane.
Kept(p, saved) == saved.id <= clock /\ Carries(outputs[p], saved)

\* So is what was saved of every lane, and the review that is due.
Below(saved) == \A p \in Lanes : Kept(p, saved[p])

Known(due) == due.from # NoPhase =>
                due.from \in Lanes /\ Kept(due.from, due.review)

\* A completion knows whether the row it found holds a raw output.
Found(g) ==
    g.pc = "upsert" =>
        /\ g.row.id <= clock
        /\ outputs[g.ph].id = g.row.id =>
               (outputs[g.ph].says = "output" <=> g.row.says = "output")

\* What is or was to be handed over is still carried by the row of its lane.
KeptInv ==
    /\ \A p \in Lanes : /\ outputs[p].id <= clock
                        /\ outputs[p].id = 0 => outputs[p].by = "none"
    /\ Below(handed) /\ Known(owed)
    /\ reader.pc = "outputs" => Below(reader.least)
    /\ \A t \in Threads : /\ Below(th[t].least) /\ Known(th[t].due)
                          /\ Found(th[t])
    /\ \A p \in Procs : runs[p].ph # NoPhase => Kept(runs[p].ph, runs[p].said)

\* A goroutine works for a lane, and a call for the phase of the command that
\* made it, which does not end before its call has returned.
Serving(g) ==
    /\ g.pc # "idle" => g.ph \in Lanes
    /\ g.pc \in {"save", "find", "upsert", "mark"} =>
           g.who # NoProc /\ runs[g.who].ph = g.ph
    /\ g.pc \in {"reopenFind", "reopen"} => g.who # NoProc
    /\ g.who # NoProc => runs[g.who].state # "free"
    /\ g.pc = "start" => /\ g.ph = "planning" /\ g.prompt = NoPrompt
                         /\ g.due = NoFindings
    /\ g.pc = "prior" => g.ph \in Reviewing
    /\ g.pc = "subtasks" => g.ph \in Implementing
    /\ g.pc = "feedback" => g.ph \in Reworking

ServedInv ==
    /\ \A t \in Threads : Serving(th[t])
    /\ \A p \in Procs : /\ runs[p].state # "free" => runs[p].ph \in Lanes
                        /\ runs[p].ph # NoPhase => runs[p].ph \in Lanes

\* What the first two properties ask of a goroutine that builds a prompt.
Informed(x) ==
    x.ph = "validating" /\ ~x.prompt.unread =>
        \A lane \in {"planning", "todo", "doing"} :
            Carries(x.prompt.told[lane], x.least[lane])

Reasoned(x) ==
    x.ph \in Reworking /\ ~x.prompt.unread => x.prompt.reason = x.due.reason

Reviewed(x) ==
    x.ph \in Reworking /\ ~x.prompt.unread /\ Before(x.ph, x.due.from) =>
        Carries(x.prompt.told[x.due.from], x.due.review)

\* What each query has added to a prompt, until it is built.
Prompted(g) ==
    /\ g.pc \in {"subtasks", "launch"} => Informed(g)
    /\ g.pc \in {"subtasks", "feedback", "launch"} => Reasoned(g)
    /\ g.pc = "launch" => Reviewed(g)

PromptInv == \A t \in Threads : Prompted(th[t])

\* The inductive invariant.
HandoverInv ==
    /\ TypeOK /\ ServedInv
    /\ reason = owed.reason
    /\ ReadersSeeTheHandover
    /\ there => KeptInv /\ PromptInv

-----------------------------------------------------------------------------
(* The operators                                                             *)

\* The lanes, and what is none.
LEMMA LanesAre ==
  /\ Lanes = {"planning", "todo", "doing", "validating", "testing"}
  /\ NoPhase \notin Phases /\ NoPhase \notin Lanes
  /\ "done" \notin Lanes /\ "done" \in Phases /\ Lanes \subseteq Phases
  BY DEF Lanes, Phases, NoPhase

\* The position of a phase is where it stands in PhaseSeq (Phase.Index).
LEMMA IndexOfPhase ==
  ASSUME NEW p \in Phases
  PROVE  Index(p) \in 0 .. 5 /\ PhaseSeq[Index(p) + 1] = p
<1> DEFINE i == CHOOSE i \in 1 .. 6 : PhaseSeq[i] = p
<1>1. \E k \in 1 .. 6 : PhaseSeq[k] = p
  <2>1. PhaseSeq[1] = "planning" /\ PhaseSeq[2] = "todo"
    BY DEF PhaseSeq
  <2>2. PhaseSeq[3] = "doing" /\ PhaseSeq[4] = "validating"
    BY DEF PhaseSeq
  <2>3. PhaseSeq[5] = "testing" /\ PhaseSeq[6] = "done"
    BY DEF PhaseSeq
  <2>q. QED
    BY <2>1, <2>2, <2>3 DEF Phases
<1>2. i \in 1 .. 6 /\ PhaseSeq[i] = p
  BY <1>1
<1>3. Index(p) = i - 1
  BY DEF Index
<1> HIDE DEF i
<1>4. Index(p) + 1 = i
  BY <1>2, <1>3
<1>q. QED
  BY <1>2, <1>3, <1>4

\* A lane has a successor, "done" has none (Phase.Next).
LEMMA NextIsPhase ==
  ASSUME NEW p \in Phases
  PROVE  IF IsTerminal(p) THEN NextPhase(p) = NoPhase
                          ELSE NextPhase(p) \in Phases
<1>1. Index(p) \in 0 .. 5 /\ PhaseSeq[Index(p) + 1] = p
  BY IndexOfPhase
<1>2. /\ PhaseSeq[1] # "done" /\ PhaseSeq[2] # "done" /\ PhaseSeq[3] # "done"
      /\ PhaseSeq[4] # "done" /\ PhaseSeq[5] # "done" /\ PhaseSeq[6] = "done"
  BY DEF PhaseSeq
<1>3. Index(p) = 5 <=> IsTerminal(p)
  BY <1>1, <1>2 DEF IsTerminal
<1>4. \A k \in 1 .. 6 : PhaseSeq[k] \in Phases
  BY DEF PhaseSeq, Phases
<1>q. QED
  BY <1>1, <1>3, <1>4 DEF NextPhase, HasNext

\* Nothing is before or after no phase.
LEMMA NothingBefore == \A p : ~Before(p, NoPhase)
  BY LanesAre DEF Before, Index

\* The closures yield life-cycle columns.
LEMMA ClosureTypes ==
  ASSUME NEW l \in Life
  PROVE  /\ Dispatched(l) \in Life /\ MarkedCompleted(l) \in Life
         /\ Finished(l) \in Life
         /\ \A p \in Phases : /\ AdvancedTo(l, p) \in Life
                              /\ ReopenedTo(l, p) \in Life
  BY DEF Life, Statuses, Phases, Dispatched, MarkedCompleted, Finished,
         AdvancedTo, ReopenedTo

\* The empty records have their types.
LEMMA TypesOfNothing ==
  /\ Idle \in Goroutine /\ NoRun \in Run /\ NoReader \in Reader
  /\ NoRows \in Rows /\ NoFindings \in Findings /\ NoPrompt \in Prompt
  /\ NoRow \in Row
  BY DEF Idle, Goroutine, NoRun, Run, NoReader, Reader, NoRows, Rows, Text,
         NoFindings, Findings, NoPrompt, Prompt, NoRow, Row, Quotes, PCs

\* A goroutine that goes on, returns or takes up a call stays one.
LEMMA GotoType ==
  ASSUME TypeOK, NEW t \in Threads, NEW pc \in PCs, Goto(t, pc)
  PROVE  th' \in [Threads -> Goroutine]
  BY DEF TypeOK, Goto, Goroutine

LEMMA ReturnType ==
  ASSUME TypeOK, NEW t \in Threads, Return(t)
  PROVE  th' \in [Threads -> Goroutine]
  BY TypesOfNothing DEF TypeOK, Return

LEMMA ServeType ==
  ASSUME TypeOK, NEW t \in Threads, NEW pc \in PCs, NEW ph \in Phases,
         NEW p \in Procs \cup {NoProc}, Serve(t, pc, ph, p)
  PROVE  th' \in [Threads -> Goroutine]
<1>1. [Idle EXCEPT !.pc = pc, !.ph = ph, !.who = p] \in Goroutine
  BY TypesOfNothing DEF Idle, Goroutine
<1>q. QED
  BY <1>1 DEF TypeOK, Serve

\* Queries put rows into a prompt.
LEMMA ToldType ==
  ASSUME TypeOK, NEW t \in Threads, NEW ps
  PROVE  Told(t, ps) \in Rows
  BY DEF TypeOK, Told, Goroutine, Prompt, Rows

-----------------------------------------------------------------------------
(* The types                                                                 *)

\* The types hold at the start.
LEMMA InitType == Init => TypeOK
<1> SUFFICES ASSUME Init PROVE TypeOK
  OBVIOUS
<1> USE TypesOfNothing, LanesAre
<1>1. FreshLife \in Life
  BY DEF FreshLife, Life, Phases, Statuses
<1>2. [Idle EXCEPT !.pc = "start", !.ph = "planning"] \in Goroutine
  BY DEF Idle, Goroutine, PCs, Phases
<1>3. th \in [Threads -> Goroutine]
  BY <1>2 DEF Init
<1>4. there \in BOOLEAN /\ reason \in Text /\ clock \in Text /\ calls \in Nat
      /\ mishaps \in Nat
  BY DEF Init, Text
<1>q. QED
  BY <1>1, <1>3, <1>4 DEF Init, TypeOK

\* No step breaks the types.
LEMMA TypeStep == TypeOK /\ ServedInv /\ [Next]_vars => TypeOK'
<1> SUFFICES ASSUME TypeOK, ServedInv, [Next]_vars PROVE TypeOK'
  OBVIOUS
<1> USE TypesOfNothing, LanesAre
<1> USE DEF rowVars, history, bounds
<1> CASE UNCHANGED vars
  BY DEF TypeOK, vars
<1>1. ASSUME NEW t \in Threads, NEW p \in Procs, CallSave(t, p) PROVE TypeOK'
  <2>1. th' \in [Threads -> Goroutine]
    BY <1>1, ServeType DEF CallSave, MayCall, ServedInv, PCs
  <2>q. QED
    BY <1>1, <2>1 DEF CallSave, TypeOK
<1>2. ASSUME NEW t \in Threads, NEW p \in Procs, CallComplete(t, p)
      PROVE  TypeOK'
  <2>1. th' \in [Threads -> Goroutine]
    BY <1>2, ServeType DEF CallComplete, MayCall, ServedInv, PCs
  <2>q. QED
    BY <1>2, <2>1 DEF CallComplete, TypeOK, Run
<1>3. ASSUME NEW t \in Threads, NEW p \in Procs, CallReopen(t, p) PROVE TypeOK'
  <2>1. th' \in [Threads -> Goroutine]
    BY <1>3, ServeType DEF CallReopen, PCs
  <2>q. QED
    BY <1>3, <2>1 DEF CallReopen, TypeOK, Run
<1>4. ASSUME NEW t \in Threads, NEW p \in Procs, Retry(t, p) PROVE TypeOK'
  <2>1. th' \in [Threads -> Goroutine]
    BY <1>4, ServeType DEF Retry, MayCall, ServedInv, PCs
  <2>q. QED
    BY <1>4, <2>1 DEF Retry, TypeOK, Mishap
<1>5. ASSUME NEW t \in Threads, Save(t) PROVE TypeOK'
  <2>1. th' \in [Threads -> Goroutine]
    BY <1>5, ReturnType DEF Save
  <2>2. clock' \in Text /\ calls' \in Nat
    BY <1>5 DEF Save, NewText, Counted, TypeOK, Text
  <2>3. PICK says \in Quotes :
           LET row == [id |-> clock', says |-> says, by |-> "save"]
           IN  /\ outputs' = [outputs EXCEPT ![th[t].ph] = row]
               /\ runs' = [runs EXCEPT ![th[t].who].said = row]
    BY <1>5, SummariesAssumption DEF Save, Quotes
  <2>4. [id |-> clock', says |-> says, by |-> "save"] \in Row
    BY <2>2 DEF Row
  <2>5. outputs' \in Rows
    BY <2>3, <2>4 DEF TypeOK, Rows
  <2>6. runs' \in [Procs -> Run]
    BY <2>3, <2>4 DEF TypeOK, Run
  <2>q. QED
    BY <1>5, <2>1, <2>2, <2>5, <2>6 DEF Save, TypeOK
<1>6. ASSUME NEW t \in Threads, FindOutput(t) PROVE TypeOK'
  <2>1. outputs[th[t].ph] \in Row
    BY <1>6 DEF FindOutput, At, ServedInv, Serving, TypeOK, Rows
  <2>2. th' \in [Threads -> Goroutine]
    BY <1>6, <2>1 DEF FindOutput, TypeOK, Goroutine, PCs
  <2>q. QED
    BY <1>6, <2>2 DEF FindOutput, TypeOK
<1>7. ASSUME NEW t \in Threads, Upsert(t) PROVE TypeOK'
  <2>1. th' \in [Threads -> Goroutine]
    BY <1>7, TypesOfNothing DEF Upsert, TypeOK, Goroutine, PCs
  <2>2. th[t].ph \in Lanes /\ outputs[th[t].ph] \in Row
    BY <1>7 DEF Upsert, At, ServedInv, Serving, TypeOK, Rows
  <2>3. PICK summary \in Quotes : Insert(t, summary) \/ Rewrite(t, summary)
    BY <1>7, SummariesAssumption DEF Upsert, Quotes
  <2>4. CASE Insert(t, summary)
    <3>1. clock' \in Text
      BY <2>4 DEF Insert, NewText, TypeOK, Text
    <3>2. \A by \in {"crossing", "completion"} :
             [id |-> clock', says |-> summary, by |-> by] \in Row
      BY <3>1 DEF Row
    <3>3. outputs' \in Rows
      BY <2>4, <3>2 DEF Insert, TypeOK, Rows
    <3>q. QED
      BY <1>7, <2>1, <3>1, <3>3 DEF Upsert, TypeOK
  <2>5. CASE Rewrite(t, summary)
    <3>1. \A says \in Quotes : [outputs[th[t].ph] EXCEPT !.says = says] \in Row
      BY <2>2 DEF Row
    <3>2. outputs[th[t].ph].says \in Quotes
      BY <2>2 DEF Row
    <3>3. outputs' \in Rows
      BY <2>5, <3>1, <3>2 DEF Rewrite, TypeOK, Rows
    <3>q. QED
      BY <1>7, <2>1, <2>5, <3>3 DEF Upsert, Rewrite, TypeOK
  <2>q. QED
    BY <2>3, <2>4, <2>5
<1>8. ASSUME NEW t \in Threads, Mark(t) PROVE TypeOK'
  <2>1. th' \in [Threads -> Goroutine]
    BY <1>8, GotoType DEF Mark, PCs
  <2>2. th[t].who \in Procs
    BY <1>8 DEF Mark, At, ServedInv, Serving, TypeOK, Goroutine
  <2>3. handed' \in Rows
    BY <1>8, <2>2 DEF Mark, TypeOK, Run, Rows
  <2>q. QED
    BY <1>8, <2>1, <2>3, ClosureTypes DEF Mark, TypeOK
<1>9. ASSUME NEW t \in Threads, AdvanceFind(t) PROVE TypeOK'
  <2>1. card.phase \in Phases
    BY DEF TypeOK, Life
  <2>2. CASE IsTerminal(card.phase)
    <3>1. Goto(t, "terminal")
      BY <1>9, <2>1, <2>2, NextIsPhase DEF AdvanceFind
    <3>q. QED
      BY <1>9, <3>1, GotoType DEF AdvanceFind, TypeOK, PCs
  <2>3. CASE ~IsTerminal(card.phase) /\ NextPhase(card.phase) = "done"
    <3>1. Goto(t, "finish")
      BY <1>9, <2>3 DEF AdvanceFind
    <3>q. QED
      BY <1>9, <3>1, GotoType DEF AdvanceFind, TypeOK, PCs
  <2>4. CASE ~IsTerminal(card.phase) /\ NextPhase(card.phase) # "done"
    <3>1. NextPhase(card.phase) \in Phases
      BY <2>1, <2>4, NextIsPhase
    <3>2. th' = [th EXCEPT ![t].pc = "advance",
                         ![t].ph = NextPhase(card.phase)]
      BY <1>9, <2>4 DEF AdvanceFind
    <3>3. th' \in [Threads -> Goroutine]
      BY <3>1, <3>2 DEF TypeOK, Goroutine, PCs
    <3>q. QED
      BY <1>9, <3>3 DEF AdvanceFind, TypeOK
  <2>q. QED
    BY <2>2, <2>3, <2>4
<1>10. ASSUME NEW t \in Threads, Finish(t) PROVE TypeOK'
  BY <1>10, ReturnType, ClosureTypes DEF Finish, TypeOK
<1>11. ASSUME NEW t \in Threads, Advance(t) PROVE TypeOK'
  <2>1. th[t].ph \in Phases
    BY <1>11 DEF Advance, At, ServedInv, Serving
  <2>2. reason' \in Text
    BY <1>11 DEF Advance, Text
  <2>3. th' \in [Threads -> Goroutine]
    BY <1>11, GotoType DEF Advance, PCs
  <2>4. card' \in Life
    BY <1>11, <2>1, ClosureTypes DEF Advance, TypeOK
  <2>q. QED
    BY <1>11, <2>2, <2>3, <2>4 DEF Advance, TypeOK
<1>12. ASSUME NEW t \in Threads, ReopenFind(t) PROVE TypeOK'
  <2>1. th' \in [Threads -> Goroutine]
    BY <1>12, GotoType, ReturnType DEF ReopenFind, PCs
  <2>q. QED
    BY <1>12, <2>1 DEF ReopenFind, TypeOK
<1>13. ASSUME NEW t \in Threads, Reopen(t) PROVE TypeOK'
  <2>1. th[t].ph \in Phases /\ th[t].who \in Procs
    BY <1>13 DEF Reopen, At, ServedInv, Serving, TypeOK, Goroutine
  <2>2. clock' \in Text /\ calls' \in Nat /\ reason' \in Text
    BY <1>13 DEF Reopen, NewText, Counted, TypeOK, Text
  <2>3. owed' \in Findings
    BY <1>13, <2>1, <2>2 DEF Reopen, TypeOK, Findings, Run
  <2>q. QED
    BY <1>13, <2>1, <2>2, <2>3, GotoType, ClosureTypes DEF Reopen, TypeOK, PCs
<1>14. ASSUME NEW t \in Threads, Start(t) PROVE TypeOK'
  BY <1>14, GotoType, ClosureTypes DEF Start, TypeOK, PCs
<1>15. ASSUME NEW t \in Threads, Dispatch(t) PROVE TypeOK'
  <2>1. th[t] \in Goroutine /\ th[t].prompt \in Prompt
    BY DEF TypeOK, Goroutine
  <2>2. [th[t].prompt EXCEPT !.reason = reason] \in Prompt
    BY <2>1 DEF Prompt, TypeOK
  <2>3. th' \in [Threads -> Goroutine]
    BY <1>15, <2>1, <2>2 DEF Dispatch, TypeOK, Goroutine, PCs
  <2>q. QED
    BY <1>15, <2>3, ClosureTypes DEF Dispatch, TypeOK
<1>16. ASSUME NEW t \in Threads, LoadPrior(t) PROVE TypeOK'
  <2>1. th[t].prompt \in Prompt
    BY DEF TypeOK, Goroutine
  <2>2. [th[t].prompt EXCEPT !.told = Told(t, {"planning", "todo", "doing"})]
           \in Prompt
    BY <2>1, ToldType DEF Prompt
  <2>3. th' \in [Threads -> Goroutine]
    BY <1>16, <2>2, ZenonT(30) DEF LoadPrior, TypeOK, Goroutine, PCs
  <2>q. QED
    BY <1>16, <2>3 DEF LoadPrior, TypeOK
<1>17. ASSUME NEW t \in Threads, LoadSubtasks(t) PROVE TypeOK'
  <2>1. th[t].prompt \in Prompt
    BY DEF TypeOK, Goroutine
  <2>2. [th[t].prompt EXCEPT !.items = TRUE] \in Prompt
    BY <2>1 DEF Prompt
  <2>3. AfterSubtasks(t) \in PCs
    BY DEF AfterSubtasks, PCs
  <2>4. th' \in [Threads -> Goroutine]
    BY <1>17, <2>2, <2>3 DEF LoadSubtasks, TypeOK, Goroutine
  <2>q. QED
    BY <1>17, <2>4 DEF LoadSubtasks, TypeOK
<1>18. ASSUME NEW t \in Threads, LoadFeedback(t) PROVE TypeOK'
  <2>1. th[t].prompt \in Prompt
    BY DEF TypeOK, Goroutine
  <2>2. [th[t].prompt EXCEPT !.told =
            Told(t, { p \in Lanes : Before(th[t].ph, p) })] \in Prompt
    BY <2>1, ToldType DEF Prompt
  <2>3. th' \in [Threads -> Goroutine]
    BY <1>18, <2>2, ZenonT(30) DEF LoadFeedback, TypeOK, Goroutine, PCs
  <2>q. QED
    BY <1>18, <2>3 DEF LoadFeedback, TypeOK
<1>19. ASSUME NEW t \in Threads, LoadFails(t) PROVE TypeOK'
  <2>1. th[t].prompt \in Prompt
    BY DEF TypeOK, Goroutine
  <2>2. \A r \in Text :
           [th[t].prompt EXCEPT !.reason = r, !.unread = TRUE] \in Prompt
    BY <2>1 DEF Prompt
  <2>3. th[t].prompt.reason \in Text /\ 0 \in Text
    BY <2>1 DEF Prompt, Text
  <2> DEFINE to == CASE th[t].pc = "prior" -> "subtasks"
                     [] th[t].pc = "subtasks" -> AfterSubtasks(t)
                     [] th[t].pc = "feedback" -> "launch"
             r == IF At(t, "feedback") THEN 0 ELSE th[t].prompt.reason
  <2>4. to \in PCs /\ r \in Text
    BY <1>19, <2>3 DEF LoadFails, AfterSubtasks, PCs
  <2>5. th' = [th EXCEPT ![t].pc = to, ![t].prompt.reason = r,
                         ![t].prompt.unread = TRUE]
    BY <1>19 DEF LoadFails
  <2> HIDE DEF to, r
  <2>6. th' \in [Threads -> Goroutine]
    BY <2>2, <2>4, <2>5, ZenonT(30) DEF TypeOK, Goroutine
  <2>7. mishaps' \in Nat
    BY <1>19 DEF LoadFails, Mishap, TypeOK
  <2>q. QED
    BY <1>19, <2>6, <2>7 DEF LoadFails, TypeOK
<1>20. ASSUME NEW t \in Threads, Launch(t) PROVE TypeOK'
  <2>1. th[t].ph \in Phases
    BY <1>20 DEF Launch, At, ServedInv, Serving
  <2>2. [NoRun EXCEPT !.state = "working", !.ph = th[t].ph] \in Run
    BY <2>1 DEF NoRun, Run
  <2>3. runs' \in [Procs -> Run]
    BY <1>20, <2>2 DEF Launch, TypeOK
  <2>q. QED
    BY <1>20, <2>3, ReturnType DEF Launch, TypeOK
<1>21. ASSUME NEW t \in Threads, StatementFails(t) PROVE TypeOK'
  BY <1>21, ReturnType DEF StatementFails, Mishap, TypeOK
<1>22. ASSUME NEW t \in Threads, Restart(t) PROVE TypeOK'
  <2>1. th' \in [Threads -> Goroutine]
    BY <1>22, ServeType DEF Restart, PCs
  <2>q. QED
    BY <1>22, <2>1 DEF Restart, Mishap, TypeOK
<1>23. ASSUME NEW p \in Procs, Exit(p) PROVE TypeOK'
  BY <1>23 DEF Exit, TypeOK
<1>24. CASE Delete
  <2>1. outputs' \in Rows
    BY <1>24 DEF Delete
  <2>2. mishaps' \in Nat
    BY <1>24 DEF Delete, Mishap, TypeOK
  <2>q. QED
    BY <1>24, <2>1, <2>2 DEF Delete, TypeOK
<1>25. CASE ReadTask
  BY <1>25 DEF ReadTask, TypeOK, Reader
<1>26. CASE ReadOutputs
  BY <1>26 DEF ReadOutputs, TypeOK, Reader
<1>q. QED
  BY <1>1, <1>2, <1>3, <1>4, <1>5, <1>6, <1>7, <1>8, <1>9, <1>10, <1>11, <1>12,
     <1>13, <1>14, <1>15, <1>16, <1>17, <1>18, <1>19, <1>20, <1>21, <1>22,
     <1>23, <1>24, <1>25, <1>26
     DEF Next, Step, Call

-----------------------------------------------------------------------------
(* The calls and the commands that make them                                 *)

\* No command has the name of none.
LEMMA NoProcIsNone == NoProc \notin Procs
  BY NoProcAssumption DEF NoProc

\* What the empty records hold.
LEMMA NothingIs ==
  /\ Idle.pc = "idle" /\ Idle.ph = NoPhase /\ Idle.who = NoProc
  /\ Idle.prompt = NoPrompt /\ Idle.due = NoFindings /\ Idle.least = NoRows
  /\ NoRun.state = "free" /\ NoRun.ph = NoPhase /\ NoRun.said = NoRow
  BY DEF Idle, NoRun

\* What taking up a call, returning, going on, a failed query and a dispatch
\* do to the goroutines.
LEMMA ServeEffect ==
  ASSUME TypeOK, NEW t \in Threads, NEW pc, NEW ph, NEW p, Serve(t, pc, ph, p)
  PROVE  /\ th[t].pc = "idle"
         /\ \A u \in Threads \ {t} : th'[u] = th[u]
         /\ th'[t].pc = pc /\ th'[t].ph = ph /\ th'[t].who = p
         /\ th'[t].prompt = NoPrompt /\ th'[t].due = NoFindings
         /\ th'[t].least = NoRows
  BY DEF Serve, At, TypeOK, Idle

LEMMA ReturnEffect ==
  ASSUME TypeOK, NEW t \in Threads, Return(t)
  PROVE  /\ \A u \in Threads \ {t} : th'[u] = th[u]
         /\ th'[t] = Idle
  BY DEF Return, TypeOK

LEMMA GotoEffect ==
  ASSUME TypeOK, NEW t \in Threads, NEW pc, Goto(t, pc)
  PROVE  /\ \A u \in Threads \ {t} : th'[u] = th[u]
         /\ th'[t].pc = pc /\ th'[t].ph = th[t].ph /\ th'[t].who = th[t].who
         /\ th'[t].prompt = th[t].prompt /\ th'[t].due = th[t].due
         /\ th'[t].least = th[t].least
  BY DEF Goto, TypeOK, Goroutine

LEMMA UpsertEffect ==
  ASSUME TypeOK, NEW t \in Threads, Upsert(t)
  PROVE  /\ th[t].pc = "upsert" /\ \A u \in Threads \ {t} : th'[u] = th[u]
         /\ th'[t].pc = "mark" /\ th'[t].ph = th[t].ph /\ th'[t].who = th[t].who
         /\ th'[t].prompt = th[t].prompt /\ th'[t].due = th[t].due
         /\ th'[t].least = th[t].least
  BY DEF Upsert, At, TypeOK, Goroutine

LEMMA LoadFailsEffect ==
  ASSUME TypeOK, NEW t \in Threads, LoadFails(t)
  PROVE  /\ \A u \in Threads \ {t} : th'[u] = th[u]
         /\ th'[t].ph = th[t].ph /\ th'[t].who = th[t].who
         /\ th'[t].due = th[t].due /\ th'[t].least = th[t].least
         /\ th'[t].pc = IF th[t].pc = "prior" THEN "subtasks"
                        ELSE IF th[t].pc = "subtasks" THEN AfterSubtasks(t)
                        ELSE "launch"
         /\ th'[t].prompt.unread
<1> DEFINE to == IF th[t].pc = "prior" THEN "subtasks"
                 ELSE IF th[t].pc = "subtasks" THEN AfterSubtasks(t)
                 ELSE "launch"
           r == IF At(t, "feedback") THEN 0 ELSE th[t].prompt.reason
<1>1. th' = [th EXCEPT ![t].pc = to, ![t].prompt.reason = r,
                         ![t].prompt.unread = TRUE]
  BY DEF LoadFails
<1> HIDE DEF to, r
<1>2. /\ \A u \in Threads \ {t} : th'[u] = th[u]
      /\ th'[t] = [th[t] EXCEPT !.pc = to,
                     !.prompt = [[th[t].prompt EXCEPT !.reason = r]
                                    EXCEPT !.unread = TRUE]]
  BY <1>1 DEF TypeOK, Goroutine
<1>3. th[t] \in Goroutine /\ th[t].prompt \in Prompt
  BY DEF TypeOK, Goroutine
<1>4. [[th[t].prompt EXCEPT !.reason = r] EXCEPT !.unread = TRUE].unread
  BY <1>3 DEF Prompt
<1>5. th'[t].pc = to
  BY <1>2, <1>3 DEF Goroutine
<1>6. th'[t].prompt.unread
  BY <1>2, <1>3, <1>4 DEF Goroutine
<1>7. /\ th'[t].ph = th[t].ph /\ th'[t].who = th[t].who
      /\ th'[t].due = th[t].due /\ th'[t].least = th[t].least
  BY <1>2, <1>3 DEF Goroutine
<1>q. QED
  BY <1>2, <1>5, <1>6, <1>7 DEF to

LEMMA DispatchEffect ==
  ASSUME TypeOK, NEW t \in Threads, Dispatch(t)
  PROVE  /\ \A u \in Threads \ {t} : th'[u] = th[u]
         /\ th'[t].ph = th[t].ph /\ th'[t].who = th[t].who
         /\ th'[t].due = owed /\ th'[t].least = handed
         /\ th'[t].pc = IF th[t].ph \in Reviewing THEN "prior"
                        ELSE IF th[t].ph = "doing" THEN "subtasks"
                        ELSE "feedback"
         /\ th'[t].prompt.reason = reason
  BY DEF Dispatch, TypeOK, Goroutine, Prompt

\* Goroutines work for lanes at the start.
LEMMA InitServed == Init => ServedInv
<1> SUFFICES ASSUME Init PROVE ServedInv
  OBVIOUS
<1>1. \A p \in Procs : runs[p] = NoRun
  BY DEF Init
<1>2. PICK t \in Threads :
        th = [u \in Threads |->
                IF u = t THEN [Idle EXCEPT !.pc = "start", !.ph = "planning"]
                         ELSE Idle]
  BY DEF Init
<1>3. th[t].pc = "start" /\ th[t].ph = "planning" /\ th[t].who = NoProc
      /\ th[t].prompt = NoPrompt /\ th[t].due = NoFindings
  BY <1>2 DEF Idle
<1>4. \A u \in Threads \ {t} : th[u] = Idle
  BY <1>2
<1>5. Serving(th[t]) /\ \A u \in Threads \ {t} : Serving(th[u])
  BY <1>3, <1>4, NothingIs, LanesAre DEF Serving
<1>q. QED
  BY <1>1, <1>5, NothingIs, LanesAre DEF ServedInv

\* No step makes a goroutine work for another phase than that of its call.
LEMMA ServedStep == TypeOK /\ ServedInv /\ [Next]_vars => ServedInv'
<1> SUFFICES ASSUME TypeOK, ServedInv, [Next]_vars PROVE ServedInv'
  OBVIOUS
<1> USE LanesAre, NoProcIsNone, NothingIs
<1> USE DEF Serving, ServedInv
<1> CASE UNCHANGED vars
  BY DEF vars, rowVars
<1>1. ASSUME NEW t \in Threads, NEW p \in Procs, CallSave(t, p)
      PROVE  ServedInv'
  BY <1>1, ServeEffect DEF CallSave, MayCall, Run
<1>2. ASSUME NEW t \in Threads, NEW p \in Procs, CallComplete(t, p)
      PROVE  ServedInv'
  BY <1>2, ServeEffect DEF CallComplete, MayCall, Run
<1>3. ASSUME NEW t \in Threads, NEW p \in Procs, CallReopen(t, p)
      PROVE  ServedInv'
  BY <1>3, ServeEffect DEF CallReopen, MayCall, Run
<1>4. ASSUME NEW t \in Threads, NEW p \in Procs, Retry(t, p) PROVE ServedInv'
  BY <1>4, ServeEffect DEF Retry, MayCall, Run
<1>5. ASSUME NEW t \in Threads, Save(t) PROVE ServedInv'
  BY <1>5, ReturnEffect DEF Save, At, Goroutine, Run
<1>6. ASSUME NEW t \in Threads, FindOutput(t) PROVE ServedInv'
  BY <1>6 DEF FindOutput, At, TypeOK, Goroutine
<1>7. ASSUME NEW t \in Threads, Upsert(t) PROVE ServedInv'
  <2>1. /\ th[t].pc = "upsert" /\ \A u \in Threads \ {t} : th'[u] = th[u]
        /\ th'[t].pc = "mark" /\ th'[t].ph = th[t].ph /\ th'[t].who = th[t].who
        /\ th'[t].prompt = th[t].prompt /\ th'[t].due = th[t].due
    BY <1>7, UpsertEffect
  <2>2. runs' = runs
    BY <1>7 DEF Upsert
  <2>q. QED
    BY <2>1, <2>2
<1>8. ASSUME NEW t \in Threads, Mark(t) PROVE ServedInv'
  BY <1>8, GotoEffect DEF Mark, At
<1>9. ASSUME NEW t \in Threads, AdvanceFind(t) PROVE ServedInv'
  <2>1. CASE IsTerminal(card.phase) \/ NextPhase(card.phase) = "done"
    <3>1. Goto(t, "terminal") \/ Goto(t, "finish")
      BY <1>9, <2>1 DEF AdvanceFind
    <3>q. QED
      BY <1>9, <3>1, GotoEffect DEF AdvanceFind, At
  <2>2. CASE ~IsTerminal(card.phase) /\ NextPhase(card.phase) # "done"
    <3>1. th' = [th EXCEPT ![t].pc = "advance",
                         ![t].ph = NextPhase(card.phase)]
      BY <1>9, <2>2 DEF AdvanceFind
    <3>2. NextPhase(card.phase) \in Lanes
      BY <2>2, NextIsPhase DEF Lanes, TypeOK, Life
    <3>q. QED
      BY <1>9, <3>1, <3>2 DEF AdvanceFind, At, TypeOK, Goroutine
  <2>q. QED
    BY <2>1, <2>2
<1>10. ASSUME NEW t \in Threads, Finish(t) PROVE ServedInv'
  BY <1>10, ReturnEffect DEF Finish, At
<1>11. ASSUME NEW t \in Threads, Advance(t) PROVE ServedInv'
  BY <1>11, GotoEffect DEF Advance, At
<1>12. ASSUME NEW t \in Threads, ReopenFind(t) PROVE ServedInv'
  BY <1>12, ReturnEffect, GotoEffect DEF ReopenFind, At
<1>13. ASSUME NEW t \in Threads, Reopen(t) PROVE ServedInv'
  BY <1>13, GotoEffect DEF Reopen, At
<1>14. ASSUME NEW t \in Threads, Start(t) PROVE ServedInv'
  BY <1>14, GotoEffect DEF Start, At
<1>15. ASSUME NEW t \in Threads, Dispatch(t) PROVE ServedInv'
  <2>1. th[t].ph \in Lanes
    BY <1>15 DEF Dispatch, At
  <2>2. /\ \A u \in Threads \ {t} : th'[u] = th[u]
        /\ th'[t].ph = th[t].ph /\ th'[t].who = th[t].who
        /\ th'[t].pc = IF th[t].ph \in Reviewing THEN "prior"
                       ELSE IF th[t].ph = "doing" THEN "subtasks"
                       ELSE "feedback"
    BY <1>15, DispatchEffect
  <2>3. runs' = runs
    BY <1>15 DEF Dispatch
  <2>4. Serving(th[t])'
    <3>1. CASE th[t].ph \in Reviewing
      BY <2>1, <2>2, <2>3, <3>1 DEF Reviewing
    <3>2. CASE th[t].ph = "doing"
      BY <2>1, <2>2, <2>3, <3>2 DEF Reviewing, Implementing
    <3>3. CASE th[t].ph \notin Reviewing /\ th[t].ph # "doing"
      <4>1. th[t].ph \in Reworking
        BY <2>1, <3>3 DEF Reviewing, Reworking
      <4>q. QED
        BY <2>1, <2>2, <2>3, <3>3, <4>1
    <3>q. QED
      BY <3>1, <3>2, <3>3
  <2>5. \A u \in Threads \ {t} : Serving(th[u])'
    BY <2>2, <2>3
  <2>q. QED
    BY <2>4, <2>5, <2>3
<1>16. ASSUME NEW t \in Threads, LoadPrior(t) PROVE ServedInv'
  BY <1>16 DEF LoadPrior, At, TypeOK, Goroutine, Reviewing, Implementing
<1>17. ASSUME NEW t \in Threads, LoadSubtasks(t) PROVE ServedInv'
  BY <1>17 DEF LoadSubtasks, At, TypeOK, Goroutine, AfterSubtasks, Reworking
<1>18. ASSUME NEW t \in Threads, LoadFeedback(t) PROVE ServedInv'
  BY <1>18 DEF LoadFeedback, At, TypeOK, Goroutine
<1>19. ASSUME NEW t \in Threads, LoadFails(t) PROVE ServedInv'
  <2>1. /\ \A u \in Threads \ {t} : th'[u] = th[u]
        /\ th'[t].ph = th[t].ph /\ th'[t].who = th[t].who
        /\ th'[t].pc = IF th[t].pc = "prior" THEN "subtasks"
                       ELSE IF th[t].pc = "subtasks" THEN AfterSubtasks(t)
                       ELSE "launch"
    BY <1>19, LoadFailsEffect
  <2>2. th[t].pc \in {"prior", "subtasks", "feedback"} /\ runs' = runs
    BY <1>19 DEF LoadFails
  <2>3. Serving(th[t])'
    BY <2>1, <2>2 DEF AfterSubtasks, Reviewing, Implementing, Reworking
  <2>4. \A u \in Threads \ {t} : Serving(th[u])'
    BY <2>1, <2>2
  <2>q. QED
    BY <2>3, <2>4, <2>2
<1>20. ASSUME NEW t \in Threads, Launch(t) PROVE ServedInv'
  BY <1>20, ReturnEffect DEF Launch, At, Run, Goroutine
<1>21. ASSUME NEW t \in Threads, StatementFails(t) PROVE ServedInv'
  BY <1>21, ReturnEffect DEF StatementFails, At
<1>22. ASSUME NEW t \in Threads, Restart(t) PROVE ServedInv'
  BY <1>22, ServeEffect DEF Restart, At
<1>23. ASSUME NEW p \in Procs, Exit(p) PROVE ServedInv'
  BY <1>23 DEF Exit
<1>24. CASE Delete
  BY <1>24 DEF Delete, rowVars
<1>25. CASE ReadTask
  BY <1>25 DEF ReadTask, rowVars
<1>26. CASE ReadOutputs
  BY <1>26 DEF ReadOutputs, rowVars
<1>q. QED
  BY <1>1, <1>2, <1>3, <1>4, <1>5, <1>6, <1>7, <1>8, <1>9, <1>10, <1>11, <1>12,
     <1>13, <1>14, <1>15, <1>16, <1>17, <1>18, <1>19, <1>20, <1>21, <1>22,
     <1>23, <1>24, <1>25, <1>26
     DEF Next, Step, Call

-----------------------------------------------------------------------------
(* What is handed over                                                       *)

\* Nothing is owed at the start, and nothing that was not saved ever is.
LEMMA NothingKept ==
  ASSUME clock \in Nat
  PROVE  Below(NoRows) /\ Known(NoFindings) /\ \A p : Kept(p, NoRow)
  BY DEF Below, Known, Kept, Carries, NoRows, NoRow, NoFindings

LEMMA InitKept == Init => KeptInv
<1> SUFFICES ASSUME Init PROVE KeptInv
  OBVIOUS
<1>1. \A p \in Lanes : outputs[p] = NoRow
  BY DEF Init, NoRows
<1>2. clock = 0 /\ clock \in Nat
  BY DEF Init
<1>3. \A t \in Threads : /\ th[t].least = NoRows /\ th[t].due = NoFindings
                         /\ th[t].pc # "upsert"
  BY DEF Init, Idle
<1>4. \A p \in Procs : runs[p].ph = NoPhase
  BY NothingIs DEF Init
<1>q. QED
  BY <1>1, <1>2, <1>3, <1>4, NothingKept
     DEF Init, KeptInv, Found, NoRow, NoReader

\* Two things happen to the row of a lane: it keeps its number and its raw
\* output, or a new one takes its place, of a completion only if there was none
\* or if the completion crossed.
Stays(p) ==
    /\ clock' \in {clock, clock + 1}
    /\ (outputs')[p].id = outputs[p].id /\ (outputs')[p].by = outputs[p].by
    /\ (outputs')[p].says = "output" <=> outputs[p].says = "output"

Renewed(p) ==
    /\ clock' = clock + 1 /\ (outputs')[p].id = clock'
    /\ \/ (outputs')[p].by \in {"save", "crossing"}
       \/ (outputs')[p].by = "completion" /\ outputs[p].id = 0

LEMMA RowStep ==
  ASSUME TypeOK, ServedInv, KeptInv, [Next]_vars, there', NEW p \in Lanes
  PROVE  Stays(p) \/ Renewed(p)
<1>1. CASE outputs' = outputs /\ clock' \in {clock, clock + 1}
  BY <1>1 DEF Stays
<1>2. ASSUME NEW t \in Threads, Save(t) PROVE Stays(p) \/ Renewed(p)
  <2>1. PICK says : outputs' = [outputs EXCEPT ![th[t].ph] =
                       [id |-> clock', says |-> says, by |-> "save"]]
    BY <1>2 DEF Save
  <2>2. clock' = clock + 1
    BY <1>2 DEF Save, NewText
  <2>3. CASE p = th[t].ph
    <3>1. (outputs')[p] = [id |-> clock', says |-> says, by |-> "save"]
      BY <2>1, <2>3 DEF TypeOK, Rows
    <3>q. QED
      BY <2>2, <3>1 DEF Renewed
  <2>4. CASE p # th[t].ph
    <3>1. (outputs')[p] = outputs[p]
      BY <2>1, <2>4 DEF TypeOK, Rows
    <3>q. QED
      BY <2>2, <3>1 DEF Stays
  <2>q. QED
    BY <2>3, <2>4
<1>3. ASSUME NEW t \in Threads, Upsert(t) PROVE Stays(p) \/ Renewed(p)
  <2>1. th[t].pc = "upsert" /\ Found(th[t])
    BY <1>3 DEF Upsert, At, KeptInv
  <2>2. PICK summary \in Summaries :
           \/ th[t].row.id = 0 /\ Insert(t, summary)
           \/ Rewrite(t, summary)
    BY <1>3 DEF Upsert
  <2>3. CASE th[t].row.id = 0 /\ Insert(t, summary)
    <3>1. clock' = clock + 1
      BY <2>3 DEF Insert, NewText
    <3>2. CASE p = th[t].ph
      <4>1. (outputs')[p] = [id |-> clock', says |-> summary,
                             by |-> IF outputs[p].id # 0 THEN "crossing"
                                                       ELSE "completion"]
        BY <2>3, <3>2 DEF Insert, TypeOK, Rows
      <4>q. QED
        BY <3>1, <4>1 DEF Renewed
    <3>3. CASE p # th[t].ph
      <4>1. (outputs')[p] = outputs[p]
        BY <2>3, <3>3 DEF Insert, TypeOK, Rows
      <4>q. QED
        BY <3>1, <4>1 DEF Stays
    <3>q. QED
      BY <3>2, <3>3
  <2>4. CASE Rewrite(t, summary)
    <3> DEFINE now == outputs[th[t].ph]
               says == IF now.id = th[t].row.id /\ th[t].row.says # "output"
                       THEN summary ELSE now.says
    <3>1. outputs' = [outputs EXCEPT ![th[t].ph].says = says] /\ clock' = clock
      BY <2>4 DEF Rewrite
    <3>2. summary # "output"
      BY SummariesAssumption
    <3>3. says = "output" <=> now.says = "output"
      BY <2>1, <3>2 DEF Found
    <3> HIDE DEF says
    <3>4. CASE p = th[t].ph
      <4>1. (outputs')[p] = [outputs[p] EXCEPT !.says = says]
        BY <3>1, <3>4 DEF TypeOK, Rows
      <4>2. outputs[p] \in Row
        BY DEF TypeOK, Rows
      <4>3. /\ (outputs')[p].id = outputs[p].id /\ (outputs')[p].by = outputs[p].by
            /\ (outputs')[p].says = says
        BY <4>1, <4>2 DEF Row
      <4>q. QED
        BY <3>1, <3>3, <3>4, <4>3 DEF Stays
    <3>5. CASE p # th[t].ph
      <4>1. (outputs')[p] = outputs[p]
        BY <3>1, <3>5 DEF TypeOK, Rows
      <4>q. QED
        BY <3>1, <4>1 DEF Stays
    <3>q. QED
      BY <3>4, <3>5
  <2>q. QED
    BY <2>2, <2>3, <2>4
<1>4. \/ outputs' = outputs /\ clock' \in {clock, clock + 1}
      \/ \E t \in Threads : Save(t) \/ Upsert(t)
  BY ZenonT(30)
     DEF Next, Step, Call, vars, rowVars, history, NewText, CallSave,
         CallComplete, CallReopen, Retry, FindOutput, Mark, AdvanceFind,
         Finish, Advance, ReopenFind, Reopen, Start, Dispatch, LoadPrior,
         LoadSubtasks, LoadFeedback, LoadFails, Launch, StatementFails,
         Restart, Exit, Delete, ReadTask, ReadOutputs
<1>q. QED
  BY <1>1, <1>2, <1>3, <1>4

\* What a row carries by now it carries on, or its successor does.
LEMMA KeptStays ==
  ASSUME TypeOK, ServedInv, KeptInv, [Next]_vars, there'
  PROVE  /\ \A p \in Lanes, saved \in Row : Kept(p, saved) => Kept(p, saved)'
         /\ \A saved \in Rows : Below(saved) => Below(saved)'
         /\ \A due \in Findings : Known(due) => Known(due)'
<1>1. clock \in Nat /\ clock' \in {clock, clock + 1}
  <2>1. Stays("planning") \/ Renewed("planning")
    BY RowStep, LanesAre
  <2>q. QED
    BY <2>1 DEF Stays, Renewed, TypeOK, Text
<1>2. ASSUME NEW p \in Lanes, NEW saved \in Row, Kept(p, saved)
      PROVE  Kept(p, saved)'
  <2>1. saved.id \in Nat /\ saved.id <= clock /\ Carries(outputs[p], saved)
    BY <1>2 DEF Kept, Row, Text
  <2>2. saved.id <= clock'
    BY <1>1, <2>1
  <2>3. CASE Stays(p)
    <3>1. Carries((outputs')[p], saved)
      BY <2>1, <2>3 DEF Stays, Carries
    <3>q. QED
      BY <2>2, <3>1 DEF Kept
  <2>4. CASE Renewed(p) /\ (outputs')[p].by \in {"save", "crossing"}
    <3>1. (outputs')[p].id > saved.id
      BY <1>1, <2>1, <2>4 DEF Renewed
    <3>2. Carries((outputs')[p], saved)
      BY <2>4, <3>1 DEF Carries
    <3>q. QED
      BY <2>2, <3>2 DEF Kept
  <2>5. CASE outputs[p].id = 0
    <3>1. outputs[p].by = "none"
      BY <2>5 DEF KeptInv
    <3>2. saved.id = 0
      BY <2>1, <3>1 DEF Carries
    <3>q. QED
      BY <2>2, <3>2 DEF Kept, Carries
  <2>q. QED
    BY <2>3, <2>4, <2>5, RowStep DEF Renewed
<1>3. ASSUME NEW saved \in Rows, Below(saved) PROVE Below(saved)'
  BY <1>2, <1>3 DEF Below, Rows
<1>4. ASSUME NEW due \in Findings, Known(due) PROVE Known(due)'
  BY <1>2, <1>4 DEF Known, Findings
<1>q. QED
  BY <1>2, <1>3, <1>4

\* A goroutine that completes a phase goes on to know what it found.
LEMMA FoundStep ==
  ASSUME TypeOK, ServedInv, KeptInv, [Next]_vars, there', NEW t \in Threads
  PROVE  Found(th[t])'
<1> SUFFICES ASSUME th'[t].pc = "upsert" PROVE Found(th[t])'
  BY DEF Found
<1>1. CASE FindOutput(t)
  <2>1. /\ th'[t].row = outputs[th[t].ph] /\ th'[t].ph = th[t].ph
        /\ th[t].ph \in Lanes
    BY <1>1 DEF FindOutput, At, ServedInv, Serving, TypeOK, Goroutine
  <2>2. outputs' = outputs /\ clock' = clock
    BY <1>1 DEF FindOutput, rowVars
  <2>q. QED
    BY <2>1, <2>2 DEF Found, KeptInv
<1>2. CASE th'[t] = th[t]
  <2>1. /\ th[t].ph \in Lanes /\ Found(th[t]) /\ th[t].pc = "upsert"
        /\ th[t].row.id \in Nat /\ clock \in Nat
    BY <1>2 DEF ServedInv, Serving, KeptInv, TypeOK, Goroutine, Row, Text
  <2>2. CASE Stays(th[t].ph)
    BY <1>2, <2>1, <2>2 DEF Stays, Found
  <2>3. CASE Renewed(th[t].ph)
    BY <1>2, <2>1, <2>3 DEF Renewed, Found
  <2>q. QED
    BY <2>1, <2>2, <2>3, RowStep
<1>3. th'[t] = th[t] \/ FindOutput(t)
  <2> SUFFICES ASSUME th'[t] # th[t] PROVE FindOutput(t)
    OBVIOUS
  <2>1. \A u \in Threads : ~Return(u)
    BY ReturnEffect, NothingIs
  <2>2. \A u \in Threads : \A pc : pc # "upsert" => ~Goto(u, pc)
    BY GotoEffect
  <2>3. \A u \in Threads : \A pc, ph, p : pc # "upsert" => ~Serve(u, pc, ph, p)
    BY ServeEffect
  <2>4. \A u \in Threads, p \in Procs : ~Call(u, p)
    BY <2>3 DEF Call, CallSave, CallComplete, CallReopen, Retry
  <2>5. \A u \in Threads : ~Upsert(u) /\ ~Dispatch(u) /\ ~LoadFails(u)
    BY UpsertEffect, DispatchEffect, LoadFailsEffect DEF AfterSubtasks
  <2>6. \A u \in Threads : ~LoadPrior(u) /\ ~LoadSubtasks(u) /\ ~LoadFeedback(u)
    BY DEF LoadPrior, LoadSubtasks, LoadFeedback, AfterSubtasks, TypeOK, Goroutine
  <2>7. \A u \in Threads : ~AdvanceFind(u)
    BY <2>2 DEF AdvanceFind, TypeOK, Goroutine
  <2>8. \A u \in Threads :
           ~(\/ Save(u) \/ Mark(u) \/ Finish(u) \/ ReopenFind(u) \/ Reopen(u)
             \/ Start(u) \/ Launch(u) \/ StatementFails(u) \/ Restart(u)
             \/ Advance(u))
    BY <2>1, <2>2, <2>3 DEF Save, Mark, Finish, ReopenFind, Reopen, Start,
                            Launch, StatementFails, Restart, Advance
  <2>9. \E u \in Threads : FindOutput(u)
    BY <2>4, <2>5, <2>6, <2>7, <2>8
       DEF Next, Step, vars, Exit, Delete, ReadTask, ReadOutputs
  <2>q. QED
    BY <2>9 DEF FindOutput, TypeOK
<1>q. QED
  BY <1>1, <1>2, <1>3

\* What a step does to what goroutines were told to hand over.
LEMMA HandedOn ==
  ASSUME TypeOK, ServedInv, [Next]_vars, NEW t \in Threads
  PROVE  << th'[t].least, th'[t].due >> \in
             {<< th[t].least, th[t].due >>, << handed, owed >>,
              << NoRows, NoFindings >>}
<1> SUFFICES ASSUME NEW u \in Threads,
                    << th'[u].least, th'[u].due >> \notin
                       {<< th[u].least, th[u].due >>, << handed, owed >>,
                        << NoRows, NoFindings >>}
             PROVE FALSE
  OBVIOUS
<1>1. th' # th
  OBVIOUS
<1>2. \A v \in Threads : \A pc : ~Goto(v, pc)
  BY GotoEffect
<1>3. \A v \in Threads : ~Return(v)
  BY ReturnEffect, NothingIs
<1>4. \A v \in Threads : \A pc, ph, p : ~Serve(v, pc, ph, p)
  BY ServeEffect
<1>5. \A v \in Threads : ~Dispatch(v) /\ ~LoadFails(v) /\ ~Upsert(v)
  BY DispatchEffect, LoadFailsEffect, UpsertEffect
<1>6. \A v \in Threads : /\ ~FindOutput(v) /\ ~LoadPrior(v)
                         /\ ~LoadSubtasks(v) /\ ~LoadFeedback(v)
  BY DEF FindOutput, LoadPrior, LoadSubtasks, LoadFeedback, TypeOK, Goroutine
<1>7. \A v \in Threads : ~AdvanceFind(v)
  BY <1>2 DEF AdvanceFind, TypeOK, Goroutine
<1>8. \A v \in Threads : ~Step(v)
  BY <1>2, <1>3, <1>4, <1>5, <1>6, <1>7
     DEF Step, Save, Mark, Finish, Advance, ReopenFind, Reopen, Start,
         Launch, StatementFails, Restart
<1>9. \A v \in Threads, p \in Procs : ~Call(v, p)
  BY <1>4 DEF Call, CallSave, CallComplete, CallReopen, Retry
<1>10. th' = th
  BY <1>8, <1>9 DEF Next, vars, Exit, Delete, ReadTask, ReadOutputs
<1>q. QED
  BY <1>1, <1>10

\* Whatever is owed or was handed over stays quoted.
LEMMA KeptStep ==
  ASSUME TypeOK, ServedInv, KeptInv, [Next]_vars, there'
  PROVE  KeptInv'
<1> USE LanesAre, NoProcIsNone
<1>1. TypeOK' /\ ServedInv'
  BY TypeStep, ServedStep
<1>2. /\ Below(NoRows)' /\ Known(NoFindings)'
      /\ NoRow.id <= clock' /\ \A row : Carries(row, NoRow)
  <2>1. clock' \in Nat
    BY <1>1 DEF TypeOK, Text
  <2>q. QED
    BY <2>1 DEF Below, Known, Kept, Carries, NoRows, NoRow, NoFindings
<1>3. \A p \in Lanes : /\ (outputs')[p].id <= clock'
                       /\ (outputs')[p].id = 0 => (outputs')[p].by = "none"
  <2> SUFFICES ASSUME NEW p \in Lanes
               PROVE  /\ (outputs')[p].id <= clock'
                      /\ (outputs')[p].id = 0 => (outputs')[p].by = "none"
    OBVIOUS
  <2>1. outputs[p].id \in Nat /\ clock \in Nat
    BY DEF TypeOK, Rows, Row, Text
  <2>2. outputs[p].id <= clock /\ (outputs[p].id = 0 => outputs[p].by = "none")
    BY DEF KeptInv
  <2>q. QED
    BY <2>1, <2>2, RowStep DEF Stays, Renewed
<1>4. \A p \in Procs :
         (runs[p].ph # NoPhase => Kept(runs[p].ph, runs[p].said))'
  <2> SUFFICES ASSUME NEW p \in Procs, (runs')[p].ph # NoPhase
               PROVE  Kept(runs[p].ph, runs[p].said)'
    OBVIOUS
  <2>1. CASE (runs')[p].ph = runs[p].ph /\ (runs')[p].said = runs[p].said
    <3>1. runs[p].said \in Row /\ runs[p].ph \in Lanes
      BY <2>1 DEF TypeOK, Run, ServedInv
    <3>2. Kept(runs[p].ph, runs[p].said)
      BY <2>1 DEF KeptInv
    <3>3. \A saved \in Row : Kept(runs[p].ph, saved) =>
             saved.id <= clock' /\ Carries((outputs')[runs[p].ph], saved)
      BY <3>1, KeptStays DEF Kept
    <3>q. QED
      BY <2>1, <3>1, <3>2, <3>3 DEF Kept
  <2>2. ASSUME NEW t \in Threads, Save(t), th[t].who = p
        PROVE  Kept(runs[p].ph, runs[p].said)'
    <3>1. th[t].ph \in Lanes /\ runs[p].ph = th[t].ph
      BY <2>2 DEF Save, At, ServedInv, Serving
    <3>2. PICK row : /\ row.id = clock' /\ row.by = "save"
                     /\ outputs' = [outputs EXCEPT ![th[t].ph] = row]
                     /\ runs' = [runs EXCEPT ![p].said = row]
      BY <2>2 DEF Save
    <3>3. (outputs')[th[t].ph] = row
      BY <3>1, <3>2 DEF TypeOK, Rows
    <3>4. (runs')[p].said = row /\ (runs')[p].ph = th[t].ph
      BY <3>1, <3>2 DEF TypeOK, Run
    <3>5. clock' \in Nat
      BY <1>1 DEF TypeOK, Text
    <3>q. QED
      BY <3>2, <3>3, <3>4, <3>5 DEF Kept, Carries
  <2>3. CASE (runs')[p].said = NoRow
    BY <1>2, <2>3 DEF Kept
  <2>4. \/ (runs')[p].ph = runs[p].ph /\ (runs')[p].said = runs[p].said
        \/ \E t \in Threads : Save(t) /\ th[t].who = p
        \/ (runs')[p].said = NoRow
    <3>1. ASSUME NEW t \in Threads, Save(t), th[t].who # p
          PROVE  (runs')[p] = runs[p]
      BY <3>1 DEF Save, TypeOK
    <3>2. ASSUME NEW t \in Threads, Launch(t)
          PROVE  (runs')[p] = runs[p] \/ (runs')[p].said = NoRow
      BY <3>2 DEF Launch, TypeOK, NoRun
    <3>3. ASSUME NEW t \in Threads, NEW q \in Procs, Call(t, q)
          PROVE  \/ (runs')[p].ph = runs[p].ph /\ (runs')[p].said = runs[p].said
                 \/ (runs')[p].said = NoRow
      BY <3>3, NothingIs DEF Call, CallSave, CallComplete, CallReopen, Retry,
                             TypeOK, Run
    <3>4. ASSUME NEW q \in Procs, Exit(q)
          PROVE  (runs')[p] = runs[p] \/ (runs')[p].said = NoRow
      BY <3>4, NothingIs DEF Exit, TypeOK
    <3>5. \/ runs' = runs
          \/ \E t \in Threads : \/ Save(t) \/ Launch(t)
                                \/ \E q \in Procs : Call(t, q)
          \/ \E q \in Procs : Exit(q)
      BY DEF Next, Step, vars, FindOutput, Upsert, Mark, AdvanceFind, Finish,
             Advance, ReopenFind, Reopen, Start, Dispatch, LoadPrior,
             LoadSubtasks, LoadFeedback, LoadFails, StatementFails, Restart,
             Delete, ReadTask, ReadOutputs
    <3>q. QED
      BY <3>1, <3>2, <3>3, <3>4, <3>5
  <2>q. QED
    BY <2>1, <2>2, <2>3, <2>4
<1>5. Below(handed)'
  <2>1. \A p \in Lanes : /\ handed[p].id <= clock'
                         /\ Carries((outputs')[p], handed[p])
    <3>1. handed \in Rows /\ Below(handed)
      BY DEF TypeOK, KeptInv
    <3>2. \A saved \in Rows : Below(saved) => Below(saved)'
      BY KeptStays
    <3>q. QED
      BY <3>1, <3>2 DEF Below, Kept
  <2>2. ASSUME NEW t \in Threads, Mark(t) PROVE Below(handed)'
    <3>1. /\ th[t].who \in Procs /\ runs[th[t].who].ph = th[t].ph
          /\ th[t].ph \in Lanes
      BY <2>2 DEF Mark, At, ServedInv, Serving, TypeOK, Goroutine
    <3>2. /\ handed' = [handed EXCEPT ![th[t].ph] = runs[th[t].who].said]
          /\ runs' = runs /\ outputs' = outputs /\ clock' = clock
      BY <2>2 DEF Mark
    <3>3. Kept(th[t].ph, runs[th[t].who].said)
      BY <3>1 DEF KeptInv
    <3>4. \A p \in Lanes : (handed')[p] = IF p = th[t].ph
                                         THEN runs[th[t].who].said ELSE handed[p]
      BY <3>2 DEF TypeOK, Rows
    <3>q. QED
      BY <3>2, <3>3, <3>4 DEF KeptInv, Below, Kept
  <2>3. CASE handed' = handed
    BY <2>1, <2>3 DEF Below, Kept
  <2>4. handed' = handed \/ \E t \in Threads : Mark(t)
    BY ZenonT(30)
       DEF Next, Step, Call, vars, history, CallSave, CallComplete, CallReopen,
           Retry, Save, FindOutput, Upsert, AdvanceFind, Finish, Advance,
           ReopenFind, Reopen, Start, Dispatch, LoadPrior, LoadSubtasks,
           LoadFeedback, LoadFails, Launch, StatementFails, Restart, Exit,
           Delete, ReadTask, ReadOutputs
  <2>q. QED
    BY <2>2, <2>3, <2>4
<1>6. Known(owed)'
  <2>1. ASSUME NEW t \in Threads, Reopen(t) PROVE Known(owed)'
    <3>1. th[t].who \in Procs
      BY <2>1 DEF Reopen, At, ServedInv, Serving, TypeOK, Goroutine
    <3>2. /\ owed'.from = runs[th[t].who].ph
          /\ owed'.review = runs[th[t].who].said
          /\ runs' = runs
      BY <2>1 DEF Reopen
    <3>3. runs[th[t].who].ph # NoPhase => runs[th[t].who].ph \in Lanes
      BY <3>1 DEF ServedInv
    <3>q. QED
      BY <1>4, <3>1, <3>2, <3>3 DEF Known
  <2>2. ASSUME NEW t \in Threads, Advance(t) PROVE Known(owed)'
    BY <2>2 DEF Advance, Known, NoFindings
  <2>3. CASE owed' = owed
    <3>1. owed \in Findings /\ Known(owed)
      BY DEF TypeOK, KeptInv
    <3>q. QED
      BY <2>3, <3>1, KeptStays DEF Known, Kept
  <2>4. owed' = owed \/ \E t \in Threads : Reopen(t) \/ Advance(t)
    BY DEF Next, Step, Call, vars, history, CallSave, CallComplete, CallReopen,
           Retry, Save, FindOutput, Upsert, Mark, AdvanceFind, Finish,
           ReopenFind, Start, Dispatch, LoadPrior, LoadSubtasks, LoadFeedback,
           LoadFails, Launch, StatementFails, Restart, Exit, Delete, ReadTask,
           ReadOutputs
  <2>q. QED
    BY <2>1, <2>2, <2>3, <2>4
<1>7. (reader.pc = "outputs" => Below(reader.least))'
  <2>1. CASE reader' = reader
    <3>1. reader.least \in Rows /\ (reader.pc = "outputs" => Below(reader.least))
      BY DEF TypeOK, Reader, KeptInv
    <3>q. QED
      BY <2>1, <3>1, KeptStays DEF Below, Kept
  <2>2. CASE ReadTask
    <3>1. reader'.least = handed /\ handed' = handed
      BY <2>2 DEF ReadTask, TypeOK, Reader, history
    <3>q. QED
      BY <1>5, <3>1 DEF Below, Kept
  <2>3. CASE ReadOutputs
    BY <2>3 DEF ReadOutputs
  <2>4. reader' = reader \/ ReadTask \/ ReadOutputs
    BY ZenonT(30)
       DEF Next, Step, Call, vars, CallSave, CallComplete, CallReopen, Retry,
           Save, FindOutput, Upsert, Mark, AdvanceFind, Finish, Advance,
           ReopenFind, Reopen, Start, Dispatch, LoadPrior, LoadSubtasks,
           LoadFeedback, LoadFails, Launch, StatementFails, Restart, Exit,
           Delete
  <2>q. QED
    BY <2>1, <2>2, <2>3, <2>4
<1>8. \A t \in Threads : Below(th[t].least)' /\ Known(th[t].due)'
  <2> SUFFICES ASSUME NEW t \in Threads
               PROVE  Below(th[t].least)' /\ Known(th[t].due)'
    OBVIOUS
  <2>1. CASE th'[t].least = th[t].least /\ th'[t].due = th[t].due
    <3>1. th[t].least \in Rows /\ th[t].due \in Findings
      BY DEF TypeOK, Goroutine
    <3>2. Below(th[t].least) /\ Known(th[t].due)
      BY DEF KeptInv
    <3>q. QED
      BY <2>1, <3>1, <3>2, KeptStays DEF Below, Known, Kept
  <2>2. CASE th'[t].least = handed /\ th'[t].due = owed
    <3>1. handed \in Rows /\ owed \in Findings
      BY DEF TypeOK
    <3>2. Below(handed) /\ Known(owed)
      BY DEF KeptInv
    <3>q. QED
      BY <2>2, <3>1, <3>2, KeptStays DEF Below, Known, Kept
  <2>3. CASE th'[t].least = NoRows /\ th'[t].due = NoFindings
    BY <1>2, <2>3 DEF Below, Known, Kept, NoFindings
  <2>q. QED
    BY <2>1, <2>2, <2>3, HandedOn
<1>9. \A t \in Threads : Found(th[t])'
  BY FoundStep
<1>q. QED
  BY <1>3, <1>4, <1>5, <1>6, <1>7, <1>8, <1>9 DEF KeptInv

-----------------------------------------------------------------------------
(* The prompts                                                               *)

\* Where a goroutine has a prompt in hand.
Loading == {"prior", "subtasks", "feedback", "launch"}

\* Only these steps are part of, or lead to, the building of a prompt.
LEMMA PromptsAreBuilt ==
  ASSUME TypeOK, [Next]_vars, NEW t \in Threads
  PROVE  \/ th'[t] = th[t] \/ th'[t].pc \notin Loading
         \/ Start(t) \/ Dispatch(t) \/ LoadPrior(t) \/ LoadSubtasks(t)
         \/ LoadFeedback(t) \/ LoadFails(t)
<1> SUFFICES ASSUME th'[t] # th[t], th'[t].pc \in Loading
             PROVE  \/ Start(t) \/ Dispatch(t) \/ LoadPrior(t) \/ LoadSubtasks(t)
                    \/ LoadFeedback(t) \/ LoadFails(t)
  OBVIOUS
<1>1. \A u \in Threads : ~Return(u)
  BY ReturnEffect, NothingIs DEF Loading
<1>2. \A u \in Threads : \A pc : pc \notin Loading => ~Goto(u, pc)
  BY GotoEffect
<1>3. \A u \in Threads : \A pc, ph, p : pc \notin Loading => ~Serve(u, pc, ph, p)
  BY ServeEffect
<1>4. \A u \in Threads, p \in Procs : ~Call(u, p)
  BY <1>3 DEF Call, CallSave, CallComplete, CallReopen, Retry, Loading
<1>5. \A u \in Threads : ~FindOutput(u)
  BY DEF FindOutput, TypeOK, Goroutine, Loading
<1>6. \A u \in Threads : ~AdvanceFind(u)
  BY <1>2 DEF AdvanceFind, TypeOK, Goroutine, Loading
<1>7. \A u \in Threads :
         ~(\/ Save(u) \/ Upsert(u) \/ Mark(u) \/ Finish(u) \/ ReopenFind(u)
           \/ Reopen(u) \/ Launch(u) \/ StatementFails(u) \/ Restart(u)
           \/ Advance(u))
  BY <1>1, <1>2, <1>3, UpsertEffect
     DEF Save, Mark, Finish, ReopenFind, Reopen, Launch, StatementFails,
         Restart, Loading, Advance
<1>8. \E u \in Threads : \/ Start(u) \/ Dispatch(u) \/ LoadPrior(u)
                         \/ LoadSubtasks(u) \/ LoadFeedback(u) \/ LoadFails(u)
  BY <1>4, <1>5, <1>6, <1>7
     DEF Next, Step, vars, Exit, Delete, ReadTask, ReadOutputs
<1>9. \A u \in Threads : u # t =>
         ~(\/ Start(u) \/ Dispatch(u) \/ LoadPrior(u) \/ LoadSubtasks(u)
           \/ LoadFeedback(u) \/ LoadFails(u))
  BY GotoEffect, DispatchEffect, LoadFailsEffect
     DEF Start, LoadPrior, LoadSubtasks, LoadFeedback, TypeOK
<1>q. QED
  BY <1>8, <1>9

\* There are no prompts at the start.
LEMMA InitPrompt == Init => PromptInv
<1> SUFFICES ASSUME Init PROVE PromptInv
  OBVIOUS
<1>1. \A t \in Threads : th[t].pc \in {"idle", "start"}
  BY DEF Init, Idle
<1>q. QED
  BY <1>1 DEF PromptInv, Prompted

\* Every query adds its block to the prompt under construction.
LEMMA PromptedStep ==
  ASSUME TypeOK, ServedInv, KeptInv, PromptInv, reason = owed.reason, there,
         [Next]_vars, NEW t \in Threads
  PROVE  Prompted(th[t])'
<1> DEFINE g == th[t]
           h == th'[t]
<1>1. /\ g \in Goroutine /\ g.prompt \in Prompt /\ g.due \in Findings
      /\ g.least \in Rows /\ Serving(g) /\ Prompted(g)
  BY DEF TypeOK, Goroutine, ServedInv, PromptInv
<1>2. CASE h = g \/ h.pc \notin Loading
  BY <1>1, <1>2 DEF Prompted, Informed, Reasoned, Reviewed, Loading
<1>3. CASE Start(t)
  <2>1. /\ h.pc = "launch" /\ h.ph = "planning" /\ h.prompt = NoPrompt
        /\ h.due = NoFindings
    BY <1>1, <1>3, GotoEffect DEF Start, At, Serving
  <2>q. QED
    BY <2>1, NothingBefore DEF Prompted, Informed, Reasoned, Reviewed,
                               NoPrompt, NoFindings
<1>4. CASE Dispatch(t)
  <2>1. /\ h.ph = g.ph /\ h.due = owed
        /\ h.pc = IF g.ph \in Reviewing THEN "prior"
                  ELSE IF g.ph = "doing" THEN "subtasks" ELSE "feedback"
        /\ h.prompt.reason = reason
    BY <1>4, DispatchEffect
  <2>q. QED
    BY <2>1 DEF Prompted, Informed, Reasoned, Reviewed
<1>5. CASE LoadPrior(t)
  <2>1. /\ g.ph \in Reviewing
        /\ h.pc = "subtasks" /\ h.ph = g.ph /\ h.due = g.due
        /\ h.least = g.least
        /\ h.prompt = [g.prompt EXCEPT !.told =
                           Told(t, {"planning", "todo", "doing"})]
    BY <1>1, <1>5 DEF LoadPrior, At, Serving, TypeOK, Goroutine
  <2>2. h.prompt.told = Told(t, {"planning", "todo", "doing"})
    BY <1>1, <2>1 DEF Prompt
  <2>3. \A lane \in {"planning", "todo", "doing"} :
           h.prompt.told[lane] = outputs[lane]
    BY <2>2, LanesAre DEF Told
  <2>4. \A lane \in {"planning", "todo", "doing"} :
           Carries(outputs[lane], g.least[lane])
    BY LanesAre DEF KeptInv, Below, Kept
  <2>5. Informed(h)
    BY <2>1, <2>3, <2>4 DEF Informed
  <2>6. Reasoned(h)
    BY <2>1 DEF Reasoned, Reviewing, Reworking
  <2>q. QED
    BY <2>1, <2>5, <2>6 DEF Prompted, Informed, Reasoned
<1>6. CASE LoadSubtasks(t)
  <2>1. /\ g.pc = "subtasks" /\ g.ph \in Implementing
        /\ h.pc = AfterSubtasks(t) /\ h.ph = g.ph /\ h.due = g.due
        /\ h.least = g.least
        /\ h.prompt = [g.prompt EXCEPT !.items = TRUE]
    BY <1>1, <1>6 DEF LoadSubtasks, At, Serving, TypeOK, Goroutine
  <2>2. /\ h.prompt.told = g.prompt.told /\ h.prompt.reason = g.prompt.reason
        /\ h.prompt.unread = g.prompt.unread
    BY <1>1, <2>1 DEF Prompt
  <2>3. Informed(h) /\ Reasoned(h)
    BY <1>1, <2>1, <2>2 DEF Prompted, Informed, Reasoned
  <2>4. h.pc = "launch" => Reviewed(h)
    BY <2>1 DEF AfterSubtasks, Implementing, Reviewed, Reworking
  <2>q. QED
    BY <2>3, <2>4 DEF Prompted, Informed, Reasoned, Reviewed
<1>7. CASE LoadFeedback(t)
  <2> DEFINE later == { p \in Lanes : Before(g.ph, p) }
  <2>1. /\ g.pc = "feedback" /\ g.ph \in Reworking
        /\ h.pc = "launch" /\ h.ph = g.ph /\ h.due = g.due /\ h.least = g.least
        /\ h.prompt = [g.prompt EXCEPT !.told = Told(t, later)]
    BY <1>1, <1>7 DEF LoadFeedback, At, Serving, TypeOK, Goroutine
  <2>2. /\ h.prompt.told = Told(t, later) /\ h.prompt.reason = g.prompt.reason
        /\ h.prompt.unread = g.prompt.unread
    BY <1>1, <2>1 DEF Prompt
  <2>3. Informed(h) /\ Reasoned(h)
    BY <1>1, <2>1, <2>2 DEF Prompted, Informed, Reasoned, Reworking
  <2>4. Reviewed(h)
    <3> SUFFICES ASSUME Before(g.ph, g.due.from)
                 PROVE  Carries(h.prompt.told[g.due.from], g.due.review)
      BY <2>1 DEF Reviewed
    <3>1. g.due.from \in Lanes /\ Carries(outputs[g.due.from], g.due.review)
      BY NothingBefore DEF KeptInv, Known, Kept
    <3>2. h.prompt.told[g.due.from] = outputs[g.due.from]
      BY <2>2, <3>1 DEF Told
    <3>q. QED
      BY <3>1, <3>2
  <2>q. QED
    BY <2>3, <2>4 DEF Prompted, Informed, Reasoned, Reviewed
<1>8. CASE LoadFails(t)
  <2>1. h.prompt.unread
    BY <1>8, LoadFailsEffect
  <2>q. QED
    BY <2>1 DEF Prompted, Informed, Reasoned, Reviewed
<1>q. QED
  BY <1>2, <1>3, <1>4, <1>5, <1>6, <1>7, <1>8, PromptsAreBuilt

\* The templates of rework and review show what they are for.
LEMMA BuildKeeps ==
  ASSUME TypeOK, ServedInv, NEW t \in Threads, At(t, "launch")
  PROVE  /\ Build(t).unread = th[t].prompt.unread
         /\ th[t].ph \in Reworking => /\ Build(t).told = th[t].prompt.told
                                      /\ Build(t).reason = th[t].prompt.reason
         /\ th[t].ph = "validating" => Build(t).told = th[t].prompt.told
<1>1. /\ Templates["planning"] = {"feedback"}
      /\ Templates["todo"] = {"feedback"}
      /\ Templates["doing"] = {"feedback", "items"}
      /\ Templates["validating"] = {"prior"}
  BY DEF Templates
<1>2. th[t].prompt \in Prompt
  BY DEF TypeOK, Goroutine
<1>q. QED
  BY <1>1, <1>2 DEF Build, Prompt, Reworking

-----------------------------------------------------------------------------
(* The theorems                                                              *)

\* The reason in the row is that of the last reopen.
LEMMA ReasonStep ==
  ASSUME TypeOK, reason = owed.reason, [Next]_vars
  PROVE  (reason = owed.reason)'
<1>1. ASSUME NEW t \in Threads, Reopen(t) PROVE reason' = owed'.reason
  BY <1>1 DEF Reopen
<1>2. ASSUME NEW t \in Threads, Advance(t) PROVE reason' = owed'.reason
  BY <1>2 DEF Advance, NoFindings
<1>3. \/ UNCHANGED << reason, owed >>
      \/ \E t \in Threads : Reopen(t) \/ Advance(t)
  BY ZenonT(30)
     DEF Next, Step, Call, vars, rowVars, history, CallSave, CallComplete,
         CallReopen, Retry, Save, FindOutput, Upsert, Mark, AdvanceFind,
         Finish, ReopenFind, Start, Dispatch, LoadPrior, LoadSubtasks,
         LoadFeedback, LoadFails, Launch, StatementFails, Restart, Exit,
         Delete, ReadTask, ReadOutputs
<1>q. QED
  BY <1>1, <1>2, <1>3

\* A page is shown no less than what its row promised.
LEMMA ReaderStep ==
  ASSUME TypeOK, there => KeptInv, ReadersSeeTheHandover, [Next]_vars
  PROVE  ReadersSeeTheHandover'
<1>1. CASE ReadOutputs
  <2>1. there => \A p \in Lanes : Carries(outputs[p], reader.least[p])
    BY <1>1 DEF ReadOutputs, KeptInv, Below, Kept
  <2>q. QED
    BY <1>1, <2>1 DEF ReadOutputs, ReadersSeeTheHandover
<1>2. CASE ReadTask
  BY <1>2 DEF ReadTask, ReadersSeeTheHandover, TypeOK, Reader
<1>4. CASE reader' = reader
  BY <1>4 DEF ReadersSeeTheHandover
<1>5. reader' = reader \/ ReadTask \/ ReadOutputs
  BY ZenonT(30)
     DEF Next, Step, Call, vars, CallSave, CallComplete, CallReopen, Retry,
         Save, FindOutput, Upsert, Mark, AdvanceFind, Finish, Advance,
         ReopenFind, Reopen, Start, Dispatch, LoadPrior, LoadSubtasks,
         LoadFeedback, LoadFails, Launch, StatementFails, Restart, Exit, Delete
<1>q. QED
  BY <1>1, <1>2, <1>4, <1>5

\* A deleted task does not come back.
LEMMA DeletedForGood == TypeOK /\ [Next]_vars /\ there' => there
  BY ZenonT(30)
     DEF Next, Step, Call, vars, rowVars, CallSave, CallComplete, CallReopen,
         Retry, Save, FindOutput, Upsert, Mark, AdvanceFind, Finish, Advance,
         ReopenFind, Reopen, Start, Dispatch, LoadPrior, LoadSubtasks,
         LoadFeedback, LoadFails, Launch, StatementFails, Restart, Exit,
         Delete, ReadTask, ReadOutputs

\* The invariant: types, calls and their commands, the reason of the last
\* reopen, and while the task exists what is quoted and what prompts hold.
THEOREM HandoverInvariance == Spec => []HandoverInv
<1>1. Init => HandoverInv
  BY InitType, InitServed, InitKept, InitPrompt
     DEF HandoverInv, Init, NoFindings, NoReader, ReadersSeeTheHandover
<1>2. HandoverInv /\ [Next]_vars => HandoverInv'
  <2> SUFFICES ASSUME HandoverInv, [Next]_vars PROVE HandoverInv'
    OBVIOUS
  <2>1. TypeOK' /\ ServedInv'
    BY TypeStep, ServedStep DEF HandoverInv
  <2>2. (reason = owed.reason)' /\ ReadersSeeTheHandover'
    BY ReasonStep, ReaderStep DEF HandoverInv
  <2>3. there' => KeptInv' /\ PromptInv'
    <3> SUFFICES ASSUME there' PROVE KeptInv' /\ PromptInv'
      OBVIOUS
    <3>1. there
      BY DeletedForGood DEF HandoverInv
    <3>2. KeptInv'
      BY <3>1, KeptStep DEF HandoverInv
    <3>3. PromptInv'
      BY <3>1, PromptedStep DEF HandoverInv, PromptInv
    <3>q. QED
      BY <3>2, <3>3
  <2>q. QED
    BY <2>1, <2>2, <2>3 DEF HandoverInv
<1>q. QED
  BY <1>1, <1>2, PTL DEF Spec

\* The variables keep their types.
THEOREM HandoverTypeCorrect == Spec => []TypeOK
<1>1. HandoverInv => TypeOK
  BY DEF HandoverInv
<1>q. QED
  BY <1>1, HandoverInvariance, PTL

\* For any number of goroutines, commands and texts a reviewer is told of each
\* lane what its harness had handed over by the dispatch, or what was saved
\* later, and never a bare summary in its place but of a completion that had
\* found no row (populatePriorContext, savePhaseSummary).
THEOREM ReviewersKnow == Spec => []ReviewersAreInformed
<1>1. HandoverInv => ReviewersAreInformed
  <2> SUFFICES ASSUME HandoverInv, there, NEW t \in Threads, At(t, "launch"),
                      th[t].ph = "validating", ~Build(t).unread,
                      NEW lane \in {"planning", "todo", "doing"}
               PROVE  Carries(Build(t).told[lane], th[t].least[lane])
    BY DEF ReviewersAreInformed
  <2>1. Informed(th[t])
    BY DEF HandoverInv, PromptInv, Prompted, At
  <2>q. QED
    BY <2>1, BuildKeeps DEF HandoverInv, Informed
<1>q. QED
  BY <1>1, HandoverInvariance, PTL

\* For any number of them a harness that reworks a card is told the reason of
\* the last reopen and the review that led to it (loadReviewFeedback).
THEOREM ReworkKnowsWhy == Spec => []FindingsAreCarried
<1>1. HandoverInv => FindingsAreCarried
  <2> SUFFICES ASSUME HandoverInv, there, NEW t \in Threads, At(t, "launch"),
                      th[t].ph \in Reworking, ~Build(t).unread
               PROVE  /\ Build(t).reason = th[t].due.reason
                      /\ Before(th[t].ph, th[t].due.from) =>
                             Carries(Build(t).told[th[t].due.from],
                                     th[t].due.review)
    BY DEF FindingsAreCarried
  <2>1. Reasoned(th[t]) /\ Reviewed(th[t])
    BY DEF HandoverInv, PromptInv, Prompted, At
  <2>q. QED
    BY <2>1, BuildKeeps DEF HandoverInv, Reasoned, Reviewed
<1>q. QED
  BY <1>1, HandoverInvariance, PTL

\* A page shows of each lane what its last completion had handed over when it
\* read the card, or what was saved later, unless a completion that had found no
\* row replaced it (get_task).
THEOREM PagesAreCurrent == Spec => []ReadersSeeTheHandover
<1>1. HandoverInv => ReadersSeeTheHandover
  BY DEF HandoverInv
<1>q. QED
  BY <1>1, HandoverInvariance, PTL
=============================================================================
