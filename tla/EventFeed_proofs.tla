--------------------------- MODULE EventFeed_proofs ---------------------------
(* The broker sends to open channels only, and a stale board has a cause, for *)
(* any number of publishers and clients, however they come and go.            *)
EXTENDS EventFeed, SequenceTheorems, TLAPS

\* Besides the property, that the lock, the loops and the connections have
\* their types.
LockInv ==
    /\ reading \subseteq Publishers
    /\ left \in [Publishers -> SUBSET Viewers]
    /\ conn \in [Viewers -> {"away", "joining", "on", "leaving"}]
    /\ SendsToOpenChannels

\* A step that moves neither readers nor connections keeps the invariant.
LEMMA LockUnmoved ==
    LockInv /\ UNCHANGED << reading, left, conn >> => LockInv'
<1> QED  BY DEF LockInv, SendsToOpenChannels, Clients

\* Nobody leaves while somebody reads, and who begins to read takes the
\* clients that are there.
LEMMA LockStep == LockInv /\ [Next]_vars => LockInv'
<1> SUFFICES ASSUME LockInv, [Next]_vars PROVE LockInv'  OBVIOUS
<1> USE DEF LockInv
<1>1. ASSUME NEW p \in Publishers, Begin(p) \/ Publish(p) \/ Fail(p)
      PROVE  LockInv'
  <2>1. ASSUME NEW s, Step(p, s) PROVE UNCHANGED << reading, left, conn >>
        BY <2>1 DEF Step
  <2>2. CASE Begin(p)  BY <2>1, <2>2, LockUnmoved DEF Begin
  <2>3. CASE Publish(p)  BY <2>1, <2>3, LockUnmoved DEF Publish
  <2>4. CASE Fail(p)  BY <2>4, LockUnmoved DEF Fail, UnchangedPages
  <2> QED  BY <1>1, <2>2, <2>3, <2>4
<1>2. ASSUME NEW p \in Publishers, RLock(p) PROVE LockInv'
  <2>1. /\ reading' = reading \cup {p} /\ conn' = conn
        /\ left' = [left EXCEPT ![p] = Clients]
        BY <1>2 DEF RLock, UnchangedPages
  <2>2. Clients \subseteq Viewers /\ Clients' = Clients  BY <2>1 DEF Clients
  <2>3. SendsToOpenChannels'  BY <2>1, <2>2 DEF SendsToOpenChannels
  <2> QED  BY <2>1, <2>2, <2>3
<1>3. ASSUME NEW p \in Publishers, RUnlock(p) PROVE LockInv'
  <2>1. reading' = reading \ {p} /\ UNCHANGED << left, conn >>
        BY <1>3 DEF RUnlock, UnchangedPages
  <2> QED  BY <2>1 DEF SendsToOpenChannels, Clients
<1>4. ASSUME NEW p \in Publishers, NEW v \in Viewers, Send(p, v)
      PROVE  LockInv'
  <2>1. left' = [left EXCEPT ![p] = @ \ {v}] /\ UNCHANGED << reading, conn >>
        BY <1>4 DEF Send, UnchangedPages
  <2>2. \A q \in Publishers : left'[q] \subseteq left[q]  BY <2>1
  <2>3. SendsToOpenChannels'
        BY <2>1, <2>2 DEF SendsToOpenChannels, Clients
  <2> QED  BY <2>1, <2>3
<1>5. ASSUME NEW v \in Viewers, Connect(v) PROVE LockInv'
  <2>1. /\ conn[v] = "away" /\ conn' = [conn EXCEPT ![v] = "joining"]
        /\ UNCHANGED << reading, left >>
        BY <1>5 DEF Connect, UnchangedPublishers
  <2>2. Clients' = Clients  BY <2>1 DEF Clients
  <2> QED  BY <2>1, <2>2 DEF SendsToOpenChannels
<1>6. ASSUME NEW v \in Viewers, Disconnect(v) PROVE LockInv'
  <2>1. /\ conn[v] = "on" /\ conn' = [conn EXCEPT ![v] = "leaving"]
        /\ UNCHANGED << reading, left >>
        BY <1>6 DEF Disconnect, UnchangedPublishers
  <2>2. Clients' = Clients  BY <2>1 DEF Clients
  <2> QED  BY <2>1, <2>2 DEF SendsToOpenChannels
<1>7. ASSUME NEW v \in Viewers, Subscribe(v) \/ Unsubscribe(v) PROVE LockInv'
  <2>1. /\ reading = {} /\ UNCHANGED << reading, left >>
        /\ \E s \in {"on", "away"} : conn' = [conn EXCEPT ![v] = s]
        BY <1>7 DEF Subscribe, Unsubscribe, UnchangedPublishers
  <2> QED  BY <2>1 DEF SendsToOpenChannels
<1>8. ASSUME NEW v \in Viewers,
             Receive(v) \/ Answer(v) \/ Show(v) \/ FetchFails(v)
      PROVE  LockInv'
  <2>1. UNCHANGED << reading, left, conn >>
        BY <1>8 DEF Receive, Answer, Show, FetchFails, UnchangedPublishers
  <2> QED  BY <2>1, LockUnmoved
<1>9. CASE UNCHANGED vars  BY <1>9, LockUnmoved DEF vars
<1> QED  BY <1>1, <1>2, <1>3, <1>4, <1>5, <1>6, <1>7, <1>8, <1>9
         DEF Next, PublisherStep

\* The broker never sends on a channel that Unsubscribe has closed.
THEOREM ChannelsAreOpen == Spec => []SendsToOpenChannels
<1>1. Init => LockInv  BY DEF Init, LockInv, SendsToOpenChannels
<1>2. LockInv => SendsToOpenChannels  BY DEF LockInv
<1> QED  BY <1>1, <1>2, LockStep, PTL DEF Spec

-----------------------------------------------------------------------------
(* Types                                                                    *)

\* Programs of calls and handlers are sequences of steps.
LEMMA Programs ==
    /\ \A e \in Events : Handler(e) \subseteq Seq(Steps)
    /\ Calls \subseteq Seq(Steps)
<1>1. \A e \in Events : Say(e) \in Steps /\ Write(e) \in Steps
      BY DEF Say, Write, Steps
<1>2. "plain" \in Events /\ "other" \in Events /\ "none" \in Events
      /\ "created" \in Events /\ "completed" \in Events
      BY DEF Events
<1>3. << >> \in Seq(Steps)  OBVIOUS
<1>4. ASSUME NEW a \in Steps PROVE << a >> \in Seq(Steps)  OBVIOUS
<1>5. ASSUME NEW a \in Steps, NEW b \in Steps PROVE << a, b >> \in Seq(Steps)
      OBVIOUS
<1>6. ASSUME NEW a \in Steps, NEW b \in Steps, NEW c \in Steps
      PROVE  << a, b, c >> \in Seq(Steps)
      OBVIOUS
<1>7. ASSUME NEW e \in Events PROVE Handler(e) \subseteq Seq(Steps)
  <2>1. CASE e = "created"  BY <1>1, <1>2, <1>5, <2>1 DEF Handler
  <2>2. CASE e = "completed"
        BY <1>1, <1>2, <1>3, <1>4, <1>6, <2>2 DEF Handler
  <2>3. CASE e \notin {"created", "completed"}  BY <1>3, <2>3 DEF Handler
  <2> QED  BY <2>1, <2>2, <2>3
<1>8. Calls \subseteq Seq(Steps)
      BY <1>1, <1>2, <1>4, <1>5, <1>6
         DEF Calls, CreateTask, UpdateTask, DeleteTask, CreateSubtasks,
             TornChecklist, UpdateSubtaskStatus, SavePhaseOutput,
             ReportPhaseProgress, UpdatePhaseConfigs, CompletePhase,
             PauseTask, ResumeTask, ReopenPhase, HarnessError, GiveUp,
             HandleRetry, RestartPhase, RestartDone, CompleteUnnamed
<1> QED  BY <1>7, <1>8

\* What is under the top of a stack.
LEMMA BelowIsPrefix ==
    ASSUME NEW s \in Seq(Frames), s # << >>
    PROVE  /\ Below(s) \in Seq(Frames)
           /\ Len(Below(s)) = Len(s) - 1
           /\ \A k \in 1 .. Len(s) - 1 : Below(s)[k] = s[k]
<1>1. Len(s) \in Nat \ {0} /\ \A k \in 1 .. Len(s) : s[k] \in Frames  OBVIOUS
<1> DEFINE n == Len(s) - 1
<1>2. n \in Nat /\ \A k \in 1 .. n : s[k] \in Frames  BY <1>1
<1>3. /\ SubSeq(s, 1, n) \in Seq(Frames)
      /\ Len(SubSeq(s, 1, n)) = IF 1 <= n THEN n - 1 + 1 ELSE 0
      /\ \A k \in 1 .. n - 1 + 1 : SubSeq(s, 1, n)[k] = s[1 + k - 1]
      BY <1>2, SubSeqProperties
<1> DEFINE b == SubSeq(s, 1, n)
<1>4. b = Below(s)  BY DEF Below
<1> HIDE DEF b
<1>5. Len(b) = n
  <2>1. Len(b) = IF 1 <= n THEN n - 1 + 1 ELSE 0  BY <1>3 DEF b
  <2> HIDE DEF n
  <2> QED  BY <1>2, <2>1
<1>6. ASSUME NEW k \in 1 .. n PROVE b[k] = s[k]
  <2>1. n - 1 + 1 = n /\ 1 + k - 1 = k  BY <1>2
  <2>2. b[k] = s[1 + k - 1]  BY <1>3, <2>1 DEF b
  <2> QED  BY <2>1, <2>2
<1>7. b \in Seq(Frames)  BY <1>3 DEF b
<1> QED  BY <1>4, <1>5, <1>6, <1>7

\* What is left of a stack when its top has done a step, or has failed.
LEMMA TopReplaced ==
    ASSUME NEW s \in Seq(Frames), s # << >>, NEW todo \in Seq(Steps)
    PROVE  LET rest == Append(Below(s), [Last(s) EXCEPT !.todo = todo])
           IN /\ rest \in Seq(Frames)
              /\ Len(rest) = Len(s)
              /\ \A k \in 1 .. Len(s) : rest[k].event = s[k].event
<1> DEFINE f == [Last(s) EXCEPT !.todo = todo]
<1>1. Len(s) \in Nat \ {0} /\ Last(s) \in Frames  BY DEF Last
<1>2. f \in Frames /\ f.event = Last(s).event  BY <1>1 DEF Frames
<1>3. /\ Below(s) \in Seq(Frames) /\ Len(Below(s)) = Len(s) - 1
      /\ \A k \in 1 .. Len(s) - 1 : Below(s)[k] = s[k]
      BY <1>1, BelowIsPrefix
<1> HIDE DEF f
<1>4. /\ Append(Below(s), f) \in Seq(Frames)
      /\ Len(Append(Below(s), f)) = Len(s)
      /\ \A k \in 1 .. Len(s) - 1 : Append(Below(s), f)[k] = s[k]
      /\ Append(Below(s), f)[Len(s)] = f
      BY <1>1, <1>2, <1>3
<1>5. \A k \in 1 .. Len(s) : k = Len(s) \/ k \in 1 .. Len(s) - 1  BY <1>1
<1> QED  BY <1>2, <1>4, <1>5 DEF f, Last

\* A settled stack is a stack, and the same one if it has events.
LEMMA SettledType ==
    ASSUME NEW s \in Seq(Frames)
    PROVE  Settled(s) \in Seq(Frames) /\ (Len(s) > 1 => Settled(s) = s)
<1>1. << >> \in Seq(Frames)  OBVIOUS
<1>2. CASE Len(s) = 1 /\ Last(s).todo = << >>
  <2>1. Settled(s) = << >> /\ ~(Len(s) > 1)  BY <1>2 DEF Settled
  <2> QED  BY <1>1, <2>1
<1>3. CASE ~(Len(s) = 1 /\ Last(s).todo = << >>)
  <2>1. Settled(s) = s  BY <1>3 DEF Settled
  <2> QED  BY <2>1
<1> QED  BY <1>2, <1>3

\* Only a publisher with nothing left to do before its event is sent reads.
ReadersInv == \A p \in reading : stack[p] # << >> /\ Top(p).todo = << >>

\* What a step makes of the stack of its publisher: the events stay, and its
\* own one comes on top.
LEMMA StepStack ==
    ASSUME NEW p \in Publishers, stack \in [Publishers -> Seq(Frames)],
           NEW s \in Seq(Frames), s # << >>, Last(s).todo # << >>, Step(p, s)
    PROVE  LET step == Head(Last(s).todo) IN
           /\ step \in Steps
           /\ stack' \in [Publishers -> Seq(Frames)]
           /\ \A q \in Publishers \ {p} : stack'[q] = stack[q]
           /\ Len(s) > 1 => /\ Len(stack'[p]) >= Len(s)
                            /\ \A k \in 1 .. Len(s) :
                                   stack'[p][k].event = s[k].event
           /\ step.event # "none" => /\ Len(stack'[p]) > 1
                                     /\ Top(p)'.event = step.event
<1> DEFINE step == Head(Last(s).todo)
           rest == Append(Below(s), [Last(s) EXCEPT !.todo = Tail(@)])
<1>1. Last(s) \in Frames /\ Len(s) \in Nat \ {0}  BY DEF Last
<1>2. Last(s).todo \in Seq(Steps)  BY <1>1 DEF Frames
<1>3. step \in Steps /\ Tail(Last(s).todo) \in Seq(Steps)  BY <1>2
<1>4. /\ rest \in Seq(Frames) /\ Len(rest) = Len(s)
      /\ \A k \in 1 .. Len(s) : rest[k].event = s[k].event
      BY <1>3, TopReplaced
<1>5. PICK todo \in Handler(step.event) :
           stack' = [stack EXCEPT ![p] =
                        IF step.event = "none" THEN Settled(rest)
                        ELSE Append(rest, [event |-> step.event, todo |-> todo])]
      BY DEF Step
<1>6. step.event \in Events  BY <1>3 DEF Steps
<1>7. [event |-> step.event, todo |-> todo] \in Frames
  <2>1. todo \in Seq(Steps)  BY <1>6, Programs
  <2> QED  BY <1>6, <2>1 DEF Frames
<1> HIDE DEF step, rest
<1>8. CASE step.event = "none"
  <2>1. stack' = [stack EXCEPT ![p] = Settled(rest)]  BY <1>5, <1>8
  <2>2. Settled(rest) \in Seq(Frames) /\ (Len(s) > 1 => Settled(rest) = rest)
        BY <1>4, SettledType
  <2> QED  BY <1>1, <1>3, <1>4, <1>8, <2>1, <2>2 DEF step
<1>9. CASE step.event # "none"
  <2> DEFINE f == [event |-> step.event, todo |-> todo]
  <2>1. stack' = [stack EXCEPT ![p] = Append(rest, f)]  BY <1>5, <1>9
  <2>f. f.event = step.event /\ f \in Frames  BY <1>7
  <2> HIDE DEF f
  <2>2. /\ Append(rest, f) \in Seq(Frames)
        /\ Len(Append(rest, f)) = Len(s) + 1
        /\ \A k \in 1 .. Len(s) : Append(rest, f)[k] = rest[k]
        /\ Append(rest, f)[Len(s) + 1] = f
        BY <1>1, <1>4, <2>f
  <2>3. stack'[p] = Append(rest, f)  BY <2>1
  <2>4. Top(p)' = f  BY <2>2, <2>3 DEF Top, Last
  <2> QED  BY <1>1, <1>3, <1>4, <2>1, <2>2, <2>3, <2>4, <2>f DEF step
<1> QED  BY <1>8, <1>9

\* A call that begins is a stack with one frame, and has something to do.
LEMMA CallStack ==
    ASSUME NEW c \in Calls
    PROVE  LET s == << [event |-> "none", todo |-> c] >>
           IN s \in Seq(Frames) /\ s # << >> /\ Len(s) = 1 /\ Last(s).todo # << >>
<1>1. c \in Seq(Steps)  BY Programs
<1>2. c # << >>
      BY DEF Calls, CreateTask, UpdateTask, DeleteTask, CreateSubtasks,
             TornChecklist, UpdateSubtaskStatus, SavePhaseOutput,
             ReportPhaseProgress, UpdatePhaseConfigs, CompletePhase,
             PauseTask, ResumeTask, ReopenPhase, HarnessError, GiveUp,
             HandleRetry, RestartPhase, RestartDone, CompleteUnnamed
<1>3. [event |-> "none", todo |-> c] \in Frames  BY <1>1 DEF Frames, Events
<1> DEFINE f == [event |-> "none", todo |-> c]
<1>4. f \in Frames /\ f.todo = c  BY <1>3
<1> HIDE DEF f
<1>5. << f >> \in Seq(Frames) /\ Len(<< f >>) = 1 /\ Last(<< f >>) = f
      BY <1>4 DEF Last
<1> QED  BY <1>2, <1>4, <1>5 DEF f

\* What the steps of a publisher share.
StepInv == TypeOK /\ ReadersInv

\* A step of a publisher that is not reading keeps the readers as they were.
LEMMA OthersRead ==
    ASSUME NEW p \in Publishers, ReadersInv, p \notin reading,
           reading \subseteq Publishers, reading' = reading,
           \A q \in Publishers \ {p} : stack'[q] = stack[q]
    PROVE  ReadersInv'
<1> QED  BY DEF ReadersInv, Top

\* What a write does to the pages keeps its types.
LEMMA WriteRowType ==
    ASSUME TypeOK, NEW step \in Steps, WriteRow(step)
    PROVE  /\ fetch' \in [Viewers -> SUBSET Fetches]
           /\ board' \in [Viewers -> BOOLEAN]
           /\ missed' \in [Viewers -> BOOLEAN]
<1>1. CASE step.writes
  <2>1. \A v \in Viewers : Aged(v) \subseteq Fetches
        BY DEF TypeOK, Aged, Fetches
  <2>2. \A v \in Viewers : (missed[v] \/ ~Reloads(step.event)) \in BOOLEAN
        BY DEF TypeOK, Reloads
  <2> QED  BY <1>1, <2>1, <2>2 DEF WriteRow
<1>2. CASE ~step.writes  BY <1>2 DEF WriteRow, TypeOK
<1> QED  BY <1>1, <1>2

\* The steps of publishers keep the types.
LEMMA PublisherTypes ==
    ASSUME StepInv, NEW p \in Publishers, Begin(p) \/ PublisherStep(p)
    PROVE  StepInv'
<1> USE DEF StepInv
<1>0. p \in reading => stack[p] # << >> /\ Top(p).todo = << >>
      BY DEF ReadersInv
<1>1. ASSUME NEW s \in Seq(Frames), s # << >>, Last(s).todo # << >>, Step(p, s),
             calls' \in 0 .. MaxCalls, p \notin reading
      PROVE  StepInv'
  <2>1. /\ Head(Last(s).todo) \in Steps
        /\ stack' \in [Publishers -> Seq(Frames)]
        /\ \A q \in Publishers \ {p} : stack'[q] = stack[q]
        BY <1>1, StepStack DEF TypeOK
  <2>2. UNCHANGED << reading, left, conn, chan >>
        /\ WriteRow(Head(Last(s).todo))
        BY <1>1 DEF Step
  <2>3. /\ fetch' \in [Viewers -> SUBSET Fetches]
        /\ board' \in [Viewers -> BOOLEAN]
        /\ missed' \in [Viewers -> BOOLEAN]
        BY <2>1, <2>2, WriteRowType
  <2>4. TypeOK'  BY <1>1, <2>1, <2>2, <2>3 DEF TypeOK
  <2>5. ReadersInv'  BY <1>1, <2>1, <2>2, OthersRead DEF TypeOK
  <2> QED  BY <2>4, <2>5
<1>2. CASE Begin(p)
  <2>1. PICK c \in Calls : Step(p, << [event |-> "none", todo |-> c] >>)
        BY <1>2 DEF Begin
  <2>2. calls' \in 0 .. MaxCalls /\ p \notin reading
        BY <1>0, <1>2, MaxCallsAssumption DEF Begin, TypeOK
  <2> QED  BY <1>1, <2>1, <2>2, CallStack
<1>3. CASE Publish(p)
  <2>1. /\ stack[p] \in Seq(Frames) /\ stack[p] # << >>
        /\ Last(stack[p]).todo # << >> /\ Step(p, stack[p])
        BY <1>3 DEF Publish, Top, TypeOK
  <2>2. calls' \in 0 .. MaxCalls /\ p \notin reading
        BY <1>0, <1>3 DEF Publish, TypeOK
  <2> QED  BY <1>1, <2>1, <2>2
<1>4. CASE Fail(p)
  <2> DEFINE rest == Append(Below(stack[p]), [Top(p) EXCEPT !.todo = << >>])
  <2>1. rest \in Seq(Frames)
    <3>1. stack[p] \in Seq(Frames) /\ stack[p] # << >>
          BY <1>4 DEF Fail, TypeOK
    <3>2. << >> \in Seq(Steps)  OBVIOUS
    <3> QED  BY <3>1, <3>2, TopReplaced DEF Top
  <2>2. Settled(rest) \in Seq(Frames)  BY <2>1, SettledType
  <2>3. /\ stack' = [stack EXCEPT ![p] = Settled(rest)]
        /\ UNCHANGED << reading, left, conn, chan, fetch, board, missed, calls >>
        BY <1>4 DEF Fail, UnchangedPages
  <2> HIDE DEF rest
  <2>4. TypeOK'  BY <2>2, <2>3 DEF TypeOK
  <2>5. ReadersInv'
        BY <1>0, <1>4, <2>3, OthersRead DEF Fail, TypeOK
  <2> QED  BY <2>4, <2>5
<1>5. CASE RLock(p)
  <2>1. Clients \subseteq Viewers  BY DEF Clients
  <2>2. \A v \in Viewers :
            (missed[v] \/ (v \notin Clients /\ Reloads(Top(p).event))) \in BOOLEAN
        BY DEF TypeOK, Reloads
  <2>3. TypeOK'  BY <1>5, <2>1, <2>2 DEF RLock, UnchangedPages, TypeOK
  <2>4. ReadersInv'  BY <1>5 DEF RLock, ReadersInv, Top
  <2> QED  BY <2>3, <2>4
<1>6. CASE RUnlock(p)
  <2>1. stack[p] \in Seq(Frames) /\ stack[p] # << >>
        BY <1>0, <1>6 DEF RUnlock, TypeOK
  <2>2. Settled(Below(stack[p])) \in Seq(Frames)
        BY <2>1, BelowIsPrefix, SettledType
  <2>3. TypeOK'  BY <1>6, <2>2 DEF RUnlock, UnchangedPages, TypeOK
  <2>4. ReadersInv'  BY <1>6 DEF RUnlock, ReadersInv, Top, TypeOK
  <2> QED  BY <2>3, <2>4
<1>7. ASSUME NEW v \in Viewers, Send(p, v) PROVE StepInv'
  <2>1. Top(p).event \in Events
    <3>1. stack[p] \in Seq(Frames) /\ stack[p] # << >>
          BY <1>0, <1>7 DEF Send, TypeOK
    <3>2. Last(stack[p]) \in Frames  BY <3>1 DEF Last
    <3> QED  BY <3>2 DEF Top, Frames
  <2>2. Len(chan[v]) < Cap =>
            /\ Append(chan[v], Top(p).event) \in Seq(Events)
            /\ Len(Append(chan[v], Top(p).event)) <= Cap
        BY <2>1, CapAssumption DEF TypeOK
  <2>3. chan' \in [Viewers -> Seq(Events)] /\ \A w \in Viewers : Len(chan'[w]) <= Cap
    <3>1. CASE Len(chan[v]) >= Cap
      <4>1. chan' = chan  BY <1>7, <3>1 DEF Send
      <4> QED  BY <4>1 DEF TypeOK
    <3>2. CASE ~(Len(chan[v]) >= Cap)
      <4>1. chan' = [chan EXCEPT ![v] = Append(@, Top(p).event)]
            BY <1>7, <3>2 DEF Send
      <4>2. Len(chan[v]) < Cap  BY <3>2, CapAssumption DEF TypeOK
      <4> QED  BY <2>2, <4>1, <4>2 DEF TypeOK
    <3> QED  BY <3>1, <3>2
  <2>4. missed' \in [Viewers -> BOOLEAN]
    <3>1. PICK lost \in BOOLEAN : missed' = [missed EXCEPT ![v] = lost]
          BY <1>7 DEF Send, Reloads
    <3> QED  BY <3>1 DEF TypeOK
  <2>5. /\ left' = [left EXCEPT ![p] = @ \ {v}]
        /\ UNCHANGED << stack, reading, conn, fetch, board, calls >>
        BY <1>7 DEF Send, UnchangedPages
  <2>6. TypeOK'  BY <2>3, <2>4, <2>5 DEF TypeOK
  <2>7. ReadersInv'  BY <2>5 DEF ReadersInv, Top
  <2> QED  BY <2>6, <2>7
<1> QED  BY <1>2, <1>3, <1>4, <1>5, <1>6, <1>7 DEF PublisherStep

\* The steps of connections and pages keep the types.
LEMMA PageTypes ==
    ASSUME StepInv, NEW v \in Viewers,
           \/ Connect(v) \/ Subscribe(v) \/ Disconnect(v) \/ Unsubscribe(v)
           \/ Receive(v) \/ Answer(v) \/ Show(v) \/ FetchFails(v)
    PROVE  StepInv'
<1> USE DEF StepInv
<1>1. UNCHANGED << stack, reading, left, calls >>
      BY DEF Connect, Subscribe, Disconnect, Unsubscribe, Receive, Answer, Show,
             FetchFails, UnchangedPublishers
<1>2. ReadersInv'  BY <1>1 DEF ReadersInv, Top
<1>3. \A rest \in Without(v, "asked") : rest \subseteq Fetches
      BY DEF Without, TypeOK
<1>4. HasReload(v) \in BOOLEAN  BY DEF HasReload
<1>5. chan[v] # << >> => /\ Tail(chan[v]) \in Seq(Events)
                         /\ Len(Tail(chan[v])) <= Cap
      BY CapAssumption DEF TypeOK
<1>6. << >> \in Seq(Events) /\ Len(<< >>) <= Cap  BY CapAssumption
<1>7. CASE Connect(v)  BY <1>1, <1>2, <1>7 DEF Connect, TypeOK
<1>8. CASE Subscribe(v)  BY <1>1, <1>2, <1>6, <1>8 DEF Subscribe, TypeOK
<1>9. CASE Disconnect(v)
  <2>1. PICK lost \in BOOLEAN : missed' = [missed EXCEPT ![v] = lost]
        BY <1>4, <1>9 DEF Disconnect, TypeOK
  <2> QED  BY <1>1, <1>2, <1>9, <2>1 DEF Disconnect, TypeOK
<1>10. CASE Unsubscribe(v)  BY <1>1, <1>2, <1>6, <1>10 DEF Unsubscribe, TypeOK
<1>11. CASE Receive(v)
  <2>1. fetch' \in [Viewers -> SUBSET Fetches]
        BY <1>11 DEF Receive, TypeOK, Fetches
  <2> QED  BY <1>1, <1>2, <1>5, <1>11, <2>1 DEF Receive, TypeOK
<1>12. CASE Answer(v)
  <2>1. fetch' \in [Viewers -> SUBSET Fetches]
        BY <1>3, <1>12 DEF Answer, TypeOK, Fetches
  <2> QED  BY <1>1, <1>2, <1>12, <2>1 DEF Answer, TypeOK
<1>13. CASE Show(v)
  <2>1. PICK f \in fetch[v] : \E rest \in SUBSET Fetches :
            /\ fetch' = [fetch EXCEPT ![v] = rest]
            /\ board' = [board EXCEPT ![v] = f = "current"]
            /\ missed' = [missed EXCEPT ![v] = f = "old" /\ (@ \/ board[v])]
        BY <1>13 DEF Show
  <2>2. (f = "old" /\ (missed[v] \/ board[v])) \in BOOLEAN  OBVIOUS
  <2>3. /\ fetch' \in [Viewers -> SUBSET Fetches]
        /\ board' \in [Viewers -> BOOLEAN]
        /\ missed' \in [Viewers -> BOOLEAN]
        BY <2>1, <2>2 DEF TypeOK
  <2> QED  BY <1>1, <1>2, <1>13, <2>3 DEF Show, TypeOK
<1>14. CASE FetchFails(v)
  <2>1. PICK rest \in SUBSET Fetches :
            fetch' = [fetch EXCEPT ![v] = rest]
        BY <1>14 DEF FetchFails
  <2> QED  BY <1>1, <1>2, <1>14, <2>1 DEF FetchFails, TypeOK
<1> QED  BY <1>7, <1>8, <1>9, <1>10, <1>11, <1>12, <1>13, <1>14

\* Types, and that readers have nothing left to do, are inductive.
LEMMA StepInvInductive == Spec => []StepInv
<1>1. Init => StepInv
  <2> SUFFICES ASSUME Init PROVE StepInv  OBVIOUS
  <2>1. << >> \in Seq(Frames) /\ << >> \in Seq(Events) /\ Len(<< >>) <= Cap
        BY CapAssumption
  <2>2. TypeOK  BY <2>1, MaxCallsAssumption DEF Init, TypeOK, Fetches
  <2>3. ReadersInv  BY DEF Init, ReadersInv
  <2> QED  BY <2>2, <2>3 DEF StepInv
<1>2. StepInv /\ [Next]_vars => StepInv'
  <2> SUFFICES ASSUME StepInv, [Next]_vars PROVE StepInv'  OBVIOUS
  <2>1. CASE UNCHANGED vars
        BY <2>1 DEF StepInv, TypeOK, ReadersInv, Top, vars
  <2>2. CASE Next  BY <2>2, PublisherTypes, PageTypes DEF Next
  <2> QED  BY <2>1, <2>2
<1> QED  BY <1>1, <1>2, PTL DEF Spec

\* Everything keeps its type, and channels their capacity: publishers that find
\* one full drop the event.
THEOREM FeedTypeCorrect == Spec => []TypeOK
<1>1. StepInv => TypeOK  BY DEF StepInv
<1> QED  BY <1>1, StepInvInductive, PTL

-----------------------------------------------------------------------------
(* Stale boards                                                             *)

Fine(v) == board[v] \/ missed[v] \/ Coming(v)

\* What the property rests on.
FeedInv == StepInv /\ LockInv /\ StaleForACause

\* A publisher that does not read owes the page what it owed, as long as the
\* events of its stack are still there.
LEMMA OwesKept ==
    ASSUME StepInv, NEW p \in Publishers, NEW v \in Viewers, Owes(p, v),
           p \notin reading, p \notin reading',
           Len(stack'[p]) \in Nat, Len(stack'[p]) >= Len(stack[p]),
           \A k \in 2 .. Len(stack[p]) : stack'[p][k].event = stack[p][k].event
    PROVE  Owes(p, v)'
<1>1. PICK k \in 2 .. Len(stack[p]) : Reloads(stack[p][k].event)  BY DEF Owes
<1>2. Len(stack[p]) \in Nat  BY DEF StepInv, TypeOK
<1>3. k \in 2 .. Len(stack'[p]) /\ Reloads(stack'[p][k].event)
      BY <1>1, <1>2 DEF Reloads
<1> QED  BY <1>3 DEF Owes, Reloads

\* A publisher that does nothing owes what it owed.
LEMMA OwesStill ==
    ASSUME NEW p \in Publishers, NEW v \in Viewers, Owes(p, v),
           stack'[p] = stack[p], p \in reading' <=> p \in reading,
           left'[p] = left[p]
    PROVE  Owes(p, v)'
<1>1. PICK k \in 2 .. Len(stack[p]) :
          /\ Reloads(stack[p][k].event)
          /\ k = Len(stack[p]) /\ p \in reading => v \in left[p]
      BY DEF Owes
<1>2. Reloads(stack'[p][k].event)  BY <1>1 DEF Reloads
<1> QED  BY <1>1, <1>2 DEF Owes

\* If the page's own part is as it was and the publishers owe what they did,
\* the page is as fine as it was.
LEMMA FineStill ==
    ASSUME NEW v \in Viewers, Fine(v),
           board'[v] = board[v], missed[v] => missed'[v], fetch'[v] = fetch[v],
           conn[v] = "on" /\ HasReload(v) => conn'[v] = "on" /\ HasReload(v)',
           \A p \in Publishers : Owes(p, v) => Owes(p, v)'
    PROVE  Fine(v)'
<1> QED  BY DEF Fine, Coming

\* A step of a call or of a handler: what it wrote it is going to announce.
LEMMA StepFine ==
    ASSUME FeedInv, NEW p \in Publishers, p \notin reading,
           NEW s \in Seq(Frames), s # << >>, Last(s).todo # << >>, Step(p, s),
           s = stack[p] \/ (stack[p] = << >> /\ Len(s) = 1),
           NEW v \in Viewers
    PROVE  Fine(v)'
<1> DEFINE step == Head(Last(s).todo)
<1>1. /\ step \in Steps
      /\ stack' \in [Publishers -> Seq(Frames)]
      /\ \A q \in Publishers \ {p} : stack'[q] = stack[q]
      /\ Len(s) > 1 => /\ Len(stack'[p]) >= Len(s)
                       /\ \A k \in 1 .. Len(s) :
                              stack'[p][k].event = s[k].event
      /\ step.event # "none" => /\ Len(stack'[p]) > 1
                                /\ Top(p)'.event = step.event
      BY StepStack DEF FeedInv, StepInv, TypeOK
<1>2. /\ UNCHANGED << reading, left, conn, chan >>
      /\ WriteRow(step)
      BY DEF Step
<1> HIDE DEF step
<1>3. CASE step.writes /\ Reloads(step.event)
  <2>1. step.event # "none"  BY <1>3 DEF Reloads
  <2> DEFINE n == Len(stack'[p])
  <2>2. n \in 2 .. n /\ stack'[p][n].event = step.event
        BY <1>1, <2>1 DEF Top, Last
  <2>3. Reloads(stack'[p][n].event)  BY <1>3, <2>2 DEF Reloads
  <2>4. Owes(p, v)'  BY <1>2, <2>2, <2>3 DEF Owes
  <2> QED  BY <2>4 DEF Fine, Coming
<1>4. CASE step.writes /\ ~Reloads(step.event)
  <2>1. missed'[v]  BY <1>2, <1>4 DEF WriteRow
  <2> QED  BY <2>1 DEF Fine
<1>5. CASE ~step.writes
  <2>1. UNCHANGED << fetch, board, missed >>  BY <1>2, <1>5 DEF WriteRow
  <2>2. ASSUME Owes(p, v) PROVE Owes(p, v)'
    <3>1. Len(stack[p]) \in Nat /\ 2 .. Len(stack[p]) # {}
          BY <2>2 DEF Owes, FeedInv, StepInv, TypeOK
    <3>2. s = stack[p] /\ Len(s) > 1  BY <3>1
    <3> QED  BY <1>1, <1>2, <2>2, <3>1, <3>2, OwesKept DEF FeedInv
  <2>3. ASSUME NEW q \in Publishers, Owes(q, v) PROVE Owes(q, v)'
    <3>1. CASE q = p  BY <2>2, <2>3, <3>1
    <3>2. CASE q # p  BY <1>1, <1>2, <2>3, <3>2, OwesStill
    <3> QED  BY <3>1, <3>2
  <2>4. HasReload(v)' = HasReload(v)  BY <1>2 DEF HasReload
  <2>5. Fine(v)  BY DEF FeedInv, StaleForACause, Fine
  <2> QED  BY <1>2, <2>1, <2>3, <2>4, <2>5, FineStill
<1> QED  BY <1>3, <1>4, <1>5

\* An event that is sent will be received, or its loss is noted: a client that
\* is sent to is on or leaving, and a full channel will make its page reload or
\* the loss is a cause.
LEMMA SendFine ==
    ASSUME FeedInv, NEW p \in Publishers, NEW w \in Viewers, Send(p, w),
           NEW v \in Viewers
    PROVE  Fine(v)'
<1>0. /\ Fine(v) /\ StepInv /\ p \in reading /\ left[p] \subseteq Clients
      /\ w \in left[p]
      BY DEF FeedInv, StaleForACause, Fine, LockInv, SendsToOpenChannels, Send
<1>1. /\ left' = [left EXCEPT ![p] = @ \ {w}]
      /\ UNCHANGED << stack, reading, conn, fetch, board >>
      BY DEF Send, UnchangedPages
<1> DEFINE e == Top(p).event
           full == Len(chan[w]) >= Cap
           lost == (full /\ ~HasReload(w)) \/ conn[w] = "leaving"
<1>2. /\ chan' = IF full THEN chan ELSE [chan EXCEPT ![w] = Append(@, e)]
      /\ missed' = [missed EXCEPT ![w] = @ \/ (Reloads(e) /\ lost)]
      BY DEF Send
<1>3. ASSUME NEW q \in Publishers, Owes(q, v),
             ~(q = p /\ v = w /\ Reloads(e))
      PROVE  Owes(q, v)'
  <2>1. PICK k \in 2 .. Len(stack[q]) :
            /\ Reloads(stack[q][k].event)
            /\ k = Len(stack[q]) /\ q \in reading => v \in left[q]
        BY <1>3 DEF Owes
  <2>2. k = Len(stack[q]) /\ q \in reading => v \in left'[q]
    <3>1. k = Len(stack[q]) => Reloads(Top(q).event)
          BY <2>1 DEF Top, Last
    <3> QED  BY <1>0, <1>1, <1>3, <2>1, <3>1 DEF StepInv, TypeOK
  <2>3. Reloads(stack'[q][k].event)  BY <1>1, <2>1 DEF Reloads
  <2> QED  BY <1>1, <2>1, <2>2, <2>3 DEF Owes
<1>4. /\ chan[w] \in Seq(Events) /\ Len(chan[w]) \in Nat
      /\ missed[v] \in BOOLEAN
      BY <1>0 DEF StepInv, TypeOK
<1>5. ASSUME HasReload(v) PROVE HasReload(v)'
  <2>1. PICK i \in 1 .. Len(chan[v]) : Reloads(chan[v][i])
        BY <1>5 DEF HasReload
  <2>2. i \in 1 .. Len(chan'[v]) /\ chan'[v][i] = chan[v][i]
    <3>1. CASE full \/ v # w
      <4>1. chan'[v] = chan[v]  BY <1>0, <1>2, <3>1 DEF StepInv, TypeOK
      <4> QED  BY <2>1, <4>1
    <3>2. CASE ~full /\ v = w
      <4>1. chan'[v] = Append(chan[v], e)
            BY <1>0, <1>2, <3>2 DEF StepInv, TypeOK
      <4> HIDE DEF e
      <4> QED  BY <1>4, <2>1, <3>2, <4>1
    <3> QED  BY <3>1, <3>2
  <2>3. Reloads(chan'[v][i])  BY <2>1, <2>2 DEF Reloads
  <2> QED  BY <2>2, <2>3 DEF HasReload
<1>6. CASE v = w /\ Reloads(e)
  <2>1. missed'[v] = (missed[v] \/ lost)
        BY <1>0, <1>2, <1>6 DEF StepInv, TypeOK
  <2>2. CASE lost  BY <2>1, <2>2 DEF Fine
  <2>3. CASE ~lost
    <3>1. conn[v] = "on"  BY <1>0, <1>6, <2>3 DEF Clients
    <3>2. HasReload(v)'
      <4>1. CASE full  BY <1>5, <1>6, <2>3, <4>1
      <4>2. CASE ~full
        <5>1. chan'[v] = Append(chan[v], e)
              BY <1>0, <1>2, <1>6, <4>2 DEF StepInv, TypeOK
        <5> DEFINE n == Len(chan[v]) + 1
        <5>2. Len(chan'[v]) = n /\ chan'[v][n] = e /\ n \in 1 .. n
              BY <1>4, <1>6, <5>1
        <5>3. Reloads(chan'[v][n])  BY <1>6, <5>2 DEF Reloads
        <5> QED  BY <5>2, <5>3 DEF HasReload
      <4> QED  BY <4>1, <4>2
    <3> QED  BY <1>1, <3>1, <3>2 DEF Fine, Coming
  <2> QED  BY <2>2, <2>3
<1>7. CASE ~(v = w /\ Reloads(e))
  <2>1. missed[v] => missed'[v]  BY <1>0, <1>2 DEF StepInv, TypeOK
  <2> HIDE DEF e
  <2> QED  BY <1>0, <1>1, <1>3, <1>5, <1>7, <2>1, FineStill
<1> QED  BY <1>6, <1>7

\* A publisher that sends or returns leaves a page fine.
LEMMA PublisherFine ==
    ASSUME FeedInv, NEW p \in Publishers, Begin(p) \/ PublisherStep(p),
           NEW v \in Viewers
    PROVE  Fine(v)'
<1>0. /\ Fine(v) /\ StepInv
      /\ p \in reading => /\ stack[p] # << >> /\ Top(p).todo = << >>
                          /\ left[p] \subseteq Clients
      BY DEF FeedInv, StaleForACause, Fine, StepInv, ReadersInv, LockInv,
             SendsToOpenChannels
<1>1. stack[p] \in Seq(Frames) /\ Len(stack[p]) \in Nat
      BY <1>0 DEF StepInv, TypeOK
<1>2. CASE Begin(p)
  <2>1. PICK c \in Calls : Step(p, << [event |-> "none", todo |-> c] >>)
        BY <1>2 DEF Begin
  <2>2. p \notin reading /\ stack[p] = << >>  BY <1>0, <1>2 DEF Begin
  <2> QED  BY <2>1, <2>2, CallStack, StepFine
<1>3. CASE Publish(p)
  <2>1. /\ stack[p] # << >> /\ Last(stack[p]).todo # << >>
        /\ Step(p, stack[p]) /\ p \notin reading
        BY <1>0, <1>3 DEF Publish, Top
  <2> QED  BY <1>1, <2>1, StepFine
<1>4. CASE Fail(p)
  <2> DEFINE rest == Append(Below(stack[p]), [Top(p) EXCEPT !.todo = << >>])
  <2>1. /\ rest \in Seq(Frames) /\ Len(rest) = Len(stack[p])
        /\ \A k \in 1 .. Len(stack[p]) : rest[k].event = stack[p][k].event
    <3>1. stack[p] # << >> /\ << >> \in Seq(Steps)  BY <1>4 DEF Fail
    <3> QED  BY <1>1, <3>1, TopReplaced DEF Top
  <2>2. /\ stack' = [stack EXCEPT ![p] = Settled(rest)] /\ p \notin reading
        /\ UNCHANGED << reading, left, conn, chan, fetch, board, missed >>
        BY <1>0, <1>4 DEF Fail, UnchangedPages
  <2> HIDE DEF rest
  <2>3. ASSUME Owes(p, v) PROVE Owes(p, v)'
    <3>1. Len(stack[p]) > 1  BY <1>1, <2>3 DEF Owes
    <3>2. stack'[p] = rest
          BY <1>0, <2>1, <2>2, <3>1, SettledType DEF StepInv, TypeOK
    <3> QED  BY <1>0, <1>1, <2>1, <2>2, <2>3, <3>2, OwesKept
  <2>4. ASSUME NEW q \in Publishers, Owes(q, v) PROVE Owes(q, v)'
    <3>1. CASE q = p  BY <2>3, <2>4, <3>1
    <3>2. CASE q # p
      <4>1. stack'[q] = stack[q]  BY <1>0, <2>2, <3>2 DEF StepInv, TypeOK
      <4> QED  BY <2>2, <2>4, <4>1, OwesStill
    <3> QED  BY <3>1, <3>2
  <2>5. HasReload(v)' = HasReload(v)  BY <2>2 DEF HasReload
  <2> QED  BY <1>0, <2>2, <2>4, <2>5, FineStill
<1>5. CASE RLock(p)
  <2>1. /\ reading' = reading \cup {p} /\ left' = [left EXCEPT ![p] = Clients]
        /\ UNCHANGED << stack, conn, chan, fetch, board >>
        /\ missed'[v] = (missed[v] \/ (v \notin Clients /\ Reloads(Top(p).event)))
        BY <1>5 DEF RLock, UnchangedPages
  <2>2. CASE v \notin Clients /\ Reloads(Top(p).event)
        BY <2>1, <2>2 DEF Fine
  <2>3. CASE ~(v \notin Clients /\ Reloads(Top(p).event))
    <3>1. ASSUME NEW q \in Publishers, Owes(q, v) PROVE Owes(q, v)'
      <4>1. CASE q = p
        <5>1. PICK k \in 2 .. Len(stack[p]) : Reloads(stack[p][k].event)
              BY <3>1, <4>1 DEF Owes
        <5>2. left'[p] = Clients  BY <1>0, <2>1 DEF StepInv, TypeOK
        <5>3. k = Len(stack[p]) => v \in left'[p]
              BY <2>3, <5>1, <5>2 DEF Top, Last
        <5>4. Reloads(stack'[p][k].event)  BY <2>1, <5>1 DEF Reloads
        <5> QED  BY <2>1, <4>1, <5>1, <5>3, <5>4 DEF Owes
      <4>2. CASE q # p
        <5>1. left'[q] = left[q] /\ (q \in reading' <=> q \in reading)
              BY <1>0, <2>1, <4>2 DEF StepInv, TypeOK
        <5> QED  BY <2>1, <3>1, <5>1, OwesStill
      <4> QED  BY <4>1, <4>2
    <3>2. HasReload(v)' = HasReload(v)  BY <2>1 DEF HasReload
    <3> QED  BY <1>0, <2>1, <3>1, <3>2, FineStill
  <2> QED  BY <2>2, <2>3
<1>6. CASE RUnlock(p)
  <2>1. /\ p \in reading /\ left[p] = {} /\ reading' = reading \ {p}
        /\ stack' = [stack EXCEPT ![p] = Settled(Below(@))]
        /\ UNCHANGED << left, conn, chan, fetch, board, missed >>
        BY <1>6 DEF RUnlock, UnchangedPages
  <2>2. ASSUME Owes(p, v) PROVE Owes(p, v)'
    <3>1. PICK k \in 2 .. Len(stack[p]) :
              /\ Reloads(stack[p][k].event)
              /\ k = Len(stack[p]) /\ p \in reading => v \in left[p]
          BY <2>2 DEF Owes
    <3>2. k \in 2 .. Len(stack[p]) - 1  BY <1>1, <2>1, <3>1
    <3>3. stack[p] # << >>  BY <1>0, <2>1
    <3>4. /\ Below(stack[p]) \in Seq(Frames)
          /\ Len(Below(stack[p])) = Len(stack[p]) - 1
          /\ Below(stack[p])[k] = stack[p][k]
      <4>1. \A s \in Seq(Frames) : s # << >> =>
                /\ Below(s) \in Seq(Frames) /\ Len(Below(s)) = Len(s) - 1
                /\ \A j \in 1 .. Len(s) - 1 : Below(s)[j] = s[j]
            BY BelowIsPrefix
      <4>2. k \in 1 .. Len(stack[p]) - 1  BY <1>1, <3>2
      <4> QED  BY <1>1, <3>3, <4>1, <4>2
    <3>5. Settled(Below(stack[p])) = Below(stack[p])
          BY <1>1, <3>2, <3>4, SettledType
    <3>6. stack'[p] = Below(stack[p])  BY <1>0, <2>1, <3>5 DEF StepInv, TypeOK
    <3>7. k \in 2 .. Len(stack'[p]) /\ Reloads(stack'[p][k].event)
          BY <3>1, <3>2, <3>4, <3>6 DEF Reloads
    <3> QED  BY <2>1, <3>7 DEF Owes
  <2>3. ASSUME NEW q \in Publishers, Owes(q, v) PROVE Owes(q, v)'
    <3>1. CASE q = p  BY <2>2, <2>3, <3>1
    <3>2. CASE q # p
      <4>1. stack'[q] = stack[q] /\ (q \in reading' <=> q \in reading)
            BY <1>0, <2>1, <3>2 DEF StepInv, TypeOK
      <4> QED  BY <2>1, <2>3, <4>1, OwesStill
    <3> QED  BY <3>1, <3>2
  <2>4. HasReload(v)' = HasReload(v)  BY <2>1 DEF HasReload
  <2> QED  BY <1>0, <2>1, <2>3, <2>4, FineStill
<1>7. ASSUME NEW w \in Viewers, Send(p, w) PROVE Fine(v)'
      BY <1>0, <1>7, SendFine
<1> QED  BY <1>2, <1>3, <1>4, <1>5, <1>6, <1>7 DEF PublisherStep

\* What is received or answered is on its way to the board, and what is lost
\* with a connection or a request is a cause.
LEMMA PageFine ==
    ASSUME FeedInv, NEW w \in Viewers, NEW v \in Viewers,
           \/ Connect(w) \/ Subscribe(w) \/ Disconnect(w) \/ Unsubscribe(w)
           \/ Receive(w) \/ Answer(w) \/ Show(w) \/ FetchFails(w)
    PROVE  Fine(v)'
<1>0. Fine(v) /\ StepInv  BY DEF FeedInv, StaleForACause, Fine
<1>1. UNCHANGED << stack, reading, left >>
      BY DEF Connect, Subscribe, Disconnect, Unsubscribe, Receive, Answer, Show,
             FetchFails, UnchangedPublishers
<1>2. \A p \in Publishers : Owes(p, v) => Owes(p, v)'  BY <1>1, OwesStill
<1>3. ASSUME v # w PROVE Fine(v)'
  <2>1. /\ conn'[v] = conn[v] /\ chan'[v] = chan[v] /\ fetch'[v] = fetch[v]
        /\ board'[v] = board[v] /\ missed'[v] = missed[v]
        BY <1>0, <1>3 DEF Connect, Subscribe, Disconnect, Unsubscribe, Receive,
           Answer, Show, FetchFails, StepInv, TypeOK
  <2>2. HasReload(v)' = HasReload(v)  BY <2>1 DEF HasReload, Reloads
  <2> QED  BY <1>0, <1>2, <2>1, <2>2, FineStill
<1>4. CASE v = w /\ (Connect(w) \/ Subscribe(w) \/ Unsubscribe(w))
  <2>1. conn[v] # "on" /\ UNCHANGED << fetch, board, missed >>
        BY <1>4 DEF Connect, Subscribe, Unsubscribe
  <2> QED  BY <1>0, <1>2, <2>1, FineStill
<1>5. CASE v = w /\ Disconnect(w)
  <2>1. /\ missed'[v] = (missed[v] \/ HasReload(v))
        /\ UNCHANGED << chan, fetch, board >>
        BY <1>0, <1>5 DEF Disconnect, StepInv, TypeOK
  <2>2. CASE HasReload(v)  BY <2>1, <2>2 DEF Fine
  <2>3. CASE ~HasReload(v)
        BY <1>0, <1>2, <2>1, <2>3, FineStill
  <2> QED  BY <2>2, <2>3
<1>6. CASE v = w /\ Receive(w)
  <2>1. /\ conn[v] = "on" /\ chan[v] # << >> /\ chan'[v] = Tail(chan[v])
        /\ UNCHANGED << conn, board, missed >>
        BY <1>0, <1>6 DEF Receive, StepInv, TypeOK
  <2>2. CASE Reloads(Head(chan[v]))
    <3>1. "asked" \in fetch'[v]
          BY <1>0, <1>6, <2>2 DEF Receive, StepInv, TypeOK
    <3> QED  BY <3>1 DEF Fine, Coming
  <2>3. CASE ~Reloads(Head(chan[v]))
    <3>1. fetch' = fetch  BY <1>6, <2>3 DEF Receive
    <3>2. ASSUME HasReload(v) PROVE HasReload(v)'
      <4>1. PICK i \in 1 .. Len(chan[v]) : Reloads(chan[v][i])
            BY <3>2 DEF HasReload
      <4>2. chan[v] \in Seq(Events)  BY <1>0 DEF StepInv, TypeOK
      <4>3. i # 1  BY <2>1, <2>3, <4>1, <4>2
      <4>4. /\ i - 1 \in 1 .. Len(chan'[v]) /\ chan'[v][i - 1] = chan[v][i]
            BY <2>1, <4>1, <4>2, <4>3
      <4>5. Reloads(chan'[v][i - 1])  BY <4>1, <4>4 DEF Reloads
      <4> QED  BY <4>4, <4>5 DEF HasReload
    <3> QED  BY <1>0, <1>2, <2>1, <3>1, <3>2, FineStill
  <2> QED  BY <2>2, <2>3
<1>7. CASE v = w /\ Answer(w)
  <2>1. "current" \in fetch'[v]  BY <1>0, <1>7 DEF Answer, StepInv, TypeOK
  <2> QED  BY <2>1 DEF Fine, Coming
<1>8. CASE v = w /\ Show(w)
  <2>1. PICK f \in fetch[v] \ {"asked"} : \E rest \in SUBSET Fetches :
            /\ rest \in Without(v, f)
            /\ fetch' = [fetch EXCEPT ![v] = rest]
            /\ board' = [board EXCEPT ![v] = f = "current"]
            /\ missed' = [missed EXCEPT ![v] = f = "old" /\ (@ \/ board[v])]
        BY <1>8 DEF Show
  <2>2. f \in {"current", "old"}  BY <1>0, <2>1 DEF StepInv, TypeOK, Fetches
  <2>3. CASE f = "current"
    <3>1. board'[v]  BY <1>0, <2>1, <2>3 DEF StepInv, TypeOK
    <3> QED  BY <3>1 DEF Fine
  <2>4. CASE f = "old"
    <3>1. missed'[v] = (missed[v] \/ board[v])
          BY <1>0, <2>1, <2>4 DEF StepInv, TypeOK
    <3>2. fetch[v] \cap {"asked", "current"} \subseteq fetch'[v]
          BY <1>0, <2>1, <2>4 DEF Without, StepInv, TypeOK
    <3>3. CASE missed[v] \/ board[v]  BY <3>1, <3>3 DEF Fine
    <3>4. CASE Coming(v)
      <4>1. UNCHANGED << conn, chan >>  BY <1>8 DEF Show
      <4>2. HasReload(v)' = HasReload(v)  BY <4>1 DEF HasReload
      <4> QED  BY <1>2, <3>2, <3>4, <4>1, <4>2 DEF Fine, Coming
    <3> QED  BY <1>0, <3>3, <3>4 DEF Fine
  <2> QED  BY <2>2, <2>3, <2>4
<1>9. CASE v = w /\ FetchFails(w)
  <2>1. missed'[v]  BY <1>0, <1>9 DEF FetchFails, StepInv, TypeOK
  <2> QED  BY <2>1 DEF Fine
<1> QED  BY <1>3, <1>4, <1>5, <1>6, <1>7, <1>8, <1>9

\* A board that is not current is about to be, or there is a cause: whatever
\* is written is announced by its publisher, sent to every client that is
\* connected, and makes the page ask for the list.
THEOREM StaleBoardsHaveACause == Spec => []StaleForACause
<1> DEFINE I == LockInv /\ StaleForACause
<1>1. Init => I
  <2> SUFFICES ASSUME Init PROVE I  OBVIOUS
  <2>1. LockInv  BY DEF Init, LockInv, SendsToOpenChannels
  <2>2. StaleForACause  BY DEF Init, StaleForACause, Coming
  <2> QED  BY <2>1, <2>2
<1>2. StepInv /\ I /\ [Next]_vars => I'
  <2> SUFFICES ASSUME FeedInv, [Next]_vars PROVE I'  BY DEF FeedInv
  <2>1. LockInv'  BY LockStep DEF FeedInv
  <2>2. StaleForACause'
    <3>1. CASE UNCHANGED vars
          BY <3>1 DEF FeedInv, StaleForACause, Coming, Owes, HasReload, vars
    <3>2. CASE Next
      <4>1. \A v \in Viewers : Fine(v)'
            BY <3>2, PublisherFine, PageFine DEF Next
      <4> QED  BY <4>1 DEF StaleForACause, Fine
    <3> QED  BY <3>1, <3>2
  <2> QED  BY <2>1, <2>2
<1>3. I => StaleForACause  OBVIOUS
<1> QED  BY <1>1, <1>2, <1>3, StepInvInductive, PTL DEF Spec
=============================================================================
