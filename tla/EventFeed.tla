------------------------------ MODULE EventFeed ------------------------------
(* How a change reaches the boards.  Publish calls its handlers in the        *)
(* goroutine of the publisher, then the broker, which sends to the channel of *)
(* every client without waiting; a handler writes and publishes in its turn.  *)
(* The page reloads the whole list of tasks for each event it cares about,    *)
(* over requests that may be answered and overtaken in any order.             *)
(*                                                                            *)
(* A list is abstracted to being current: nothing it shows has been written   *)
(* to since the server read it.                                               *)
EXTENDS Integers, Sequences

CONSTANTS Publishers,    \* goroutines that publish
          Viewers,       \* pages that show the board
          Cap,           \* capacity of a client's channel
          MaxCalls       \* bound of the model: calls that publish

ASSUME CapAssumption == Cap \in Nat \ {0}
ASSUME MaxCallsAssumption == MaxCalls \in Nat

VARIABLES stack,      \* per publisher: its call and the events it is publishing
          reading,    \* publishers that hold the broker's lock for reading
          left,       \* the clients that these have still to send to
          conn,       \* the connection of each page
          chan,       \* its channel
          fetch,      \* at what the page's requests for the list are
          board,      \* the list it shows is current
          missed,     \* (history) it has a reason not to be current
          calls       \* calls so far

vars == << stack, reading, left, conn, chan, fetch, board, missed,
           calls >>

\* Events, by their handlers and by what the page does with them.
\* "none" is a write that no event follows.
Events == {"created", "completed", "plain", "other", "none"}

\* The page listens to the event and reloads.
Reloads(e) == e \in {"created", "completed", "plain"}

\* A step of a call or of a handler: an event, and whether the list has been
\* written to just before.
Steps == [event : Events, writes : BOOLEAN]
Say(e) == [event |-> e, writes |-> FALSE]
Write(e) == [event |-> e, writes |-> TRUE]

\* What the handler of an event does: StartFlow; AdvancePhase to the next
\* lane, to done, and from done; there is no other that publishes.
Handler(e) ==
    CASE e = "created" -> {<< Write("plain"), Say("other") >>}
      [] e = "completed" -> {<< Write("plain"), Write("plain"), Say("other") >>,
                             << Write("plain") >>, << Write("none") >>, << >>}
      [] OTHER -> {<< >>}

\* What calls write and say, in their order.  A dispatch is the write of
\* dispatchPhase with its event, and the adapter's event.
CreateTask == << Write("created") >>
UpdateTask == << Write("plain") >>
DeleteTask == << Write("plain") >>
CreateSubtasks == << Write("plain") >>
TornChecklist == << Write("none") >>
UpdateSubtaskStatus == << Write("plain") >>
SavePhaseOutput == << Say("other") >>
ReportPhaseProgress == << Say("other") >>
UpdatePhaseConfigs == << Say("other") >>
CompletePhase == << Write("completed") >>
\* The page does not know the event of a completion that names no phase, nor
\* the one that says that "done" was started.
CompleteUnnamed == << Write("other") >>
RestartDone == << Write("other"), Say("other") >>
PauseTask == << Write("plain") >>
ResumeTask == << Write("plain"), Say("other"), Say("plain") >>
ReopenPhase == << Write("plain"), Write("plain"), Say("other") >>
HarnessError == << Say("plain") >>
GiveUp == << Write("plain") >>
HandleRetry == << Say("plain"), Write("plain"), Say("other") >>
RestartPhase == << Write("plain"), Say("other") >>

Calls == { CreateTask, UpdateTask, DeleteTask, CreateSubtasks, TornChecklist,
           UpdateSubtaskStatus, SavePhaseOutput, ReportPhaseProgress,
           UpdatePhaseConfigs, CompletePhase, CompleteUnnamed, RestartDone,
           PauseTask, ResumeTask, ReopenPhase, HarnessError, GiveUp,
           HandleRetry, RestartPhase }

\* An event being published, or the call itself, and what is still to do.
Frames == [event : Events, todo : Seq(Steps)]
Last(s) == s[Len(s)]
Below(s) == SubSeq(s, 1, Len(s) - 1)
Top(p) == Last(stack[p])

\* A call with nothing left to do has returned.
Settled(s) == IF Len(s) = 1 /\ Last(s).todo = << >> THEN << >> ELSE s

Clients == {v \in Viewers : conn[v] \in {"on", "leaving"}}

\* A page may have requests that the server has not read the list for, and
\* answers under way with a list that is still current, or old; how many of
\* each is left open.
Fetches == {"asked", "current", "old"}

\* A page that opens asks for the list and connects.
Init ==
    /\ stack = [p \in Publishers |-> << >>]
    /\ reading = {}
    /\ left = [p \in Publishers |-> {}]
    /\ conn = [v \in Viewers |-> "away"]
    /\ chan = [v \in Viewers |-> << >>]
    /\ fetch = [v \in Viewers |-> {"asked"}]
    /\ board = [v \in Viewers |-> FALSE]
    /\ missed = [v \in Viewers |-> FALSE]
    /\ calls = 0

-----------------------------------------------------------------------------
(* Publishers                                                               *)

UnchangedPages == UNCHANGED << conn, fetch, board >>

\* A write makes every list old that was read before it.
Aged(v) == {IF f = "current" THEN "old" ELSE f : f \in fetch[v]}

WriteRow(step) ==
    IF step.writes
    THEN /\ fetch' = [v \in Viewers |-> Aged(v)]
         /\ board' = [v \in Viewers |-> FALSE]
         /\ missed' = [v \in Viewers |-> missed[v] \/ ~Reloads(step.event)]
    ELSE UNCHANGED << fetch, board, missed >>

\* The next step of a call or of a handler: a write, and the event, whose
\* handler Publish calls.
Step(p, s) ==
    LET step == Head(Last(s).todo)
        rest == Append(Below(s), [Last(s) EXCEPT !.todo = Tail(@)])
    IN /\ WriteRow(step)
       /\ \E todo \in Handler(step.event) :
            stack' = [stack EXCEPT ![p] =
                         IF step.event = "none" THEN Settled(rest)
                         ELSE Append(rest, [event |-> step.event, todo |-> todo])]
       /\ UNCHANGED << reading, left, conn, chan >>

\* A call begins, with its first step.
Begin(p) ==
    /\ stack[p] = << >>
    /\ calls < MaxCalls
    /\ calls' = calls + 1
    /\ \E c \in Calls : Step(p, << [event |-> "none", todo |-> c] >>)

\* It goes on, or a handler does.
Publish(p) ==
    /\ stack[p] # << >>
    /\ Top(p).todo # << >>
    /\ Step(p, stack[p])
    /\ UNCHANGED calls

\* A statement, the prompt or the command fails: what is left is not done.
Fail(p) ==
    /\ stack[p] # << >>
    /\ Top(p).todo # << >>
    /\ stack' = [stack EXCEPT ![p] =
           Settled(Append(Below(stack[p]), [Top(p) EXCEPT !.todo = << >>]))]
    /\ UNCHANGED << reading, left, chan, missed, calls >>
    /\ UnchangedPages

\* onEvent takes the lock for reading, unless somebody waits to write, and
\* begins its loop.  A page without a connection will not get the event.
RLock(p) ==
    /\ stack[p] # << >>
    /\ Top(p).todo = << >>
    /\ p \notin reading
    /\ \A v \in Viewers : conn[v] \notin {"joining", "leaving"}
    /\ reading' = reading \cup {p}
    /\ left' = [left EXCEPT ![p] = Clients]
    /\ missed' = [v \in Viewers |->
                     missed[v] \/ (v \notin Clients /\ Reloads(Top(p).event))]
    /\ UNCHANGED << stack, chan, calls >>
    /\ UnchangedPages

HasReload(v) == \E i \in 1 .. Len(chan[v]) : Reloads(chan[v][i])

\* Defect: a full channel is written all the same.
SendAnyway(p, v) ==
    /\ p \in reading
    /\ v \in left[p]
    /\ chan' = [chan EXCEPT ![v] = Append(@, Top(p).event)]
    /\ left' = [left EXCEPT ![p] = @ \ {v}]
    /\ missed' = [missed EXCEPT ![v] =
                     @ \/ (Reloads(Top(p).event) /\ conn[v] = "leaving")]
    /\ UNCHANGED << stack, reading, calls >>
    /\ UnchangedPages

\* Defect: the publisher waits for room.
SendWaiting(p, v) ==
    /\ Len(chan[v]) < Cap
    /\ SendAnyway(p, v)

\* The loop sends to a client; if its channel is full the event is dropped,
\* which the page never notices while an event there makes it reload later.
Send(p, v) ==
    /\ p \in reading
    /\ v \in left[p]
    /\ left' = [left EXCEPT ![p] = @ \ {v}]
    /\ LET e == Top(p).event
           full == Len(chan[v]) >= Cap
           lost == \/ full /\ ~HasReload(v)
                   \/ conn[v] = "leaving"
       IN /\ chan' = IF full THEN chan ELSE [chan EXCEPT ![v] = Append(@, e)]
          /\ missed' = [missed EXCEPT ![v] = @ \/ (Reloads(e) /\ lost)]
    /\ UNCHANGED << stack, reading, calls >>
    /\ UnchangedPages

\* The loop is over: the lock is released and Publish returns.
RUnlock(p) ==
    /\ p \in reading
    /\ left[p] = {}
    /\ reading' = reading \ {p}
    /\ stack' = [stack EXCEPT ![p] = Settled(Below(@))]
    /\ UNCHANGED << left, chan, missed, calls >>
    /\ UnchangedPages

-----------------------------------------------------------------------------
(* Connections                                                              *)

UnchangedPublishers == UNCHANGED << stack, reading, left, calls >>

\* A page connects; its handler asks for the lock to subscribe.
Connect(v) ==
    /\ conn[v] = "away"
    /\ conn' = [conn EXCEPT ![v] = "joining"]
    /\ UNCHANGED << chan, fetch, board, missed >>
    /\ UnchangedPublishers

\* Subscribe: a channel under a new name.
Subscribe(v) ==
    /\ conn[v] = "joining"
    /\ reading = {}
    /\ conn' = [conn EXCEPT ![v] = "on"]
    /\ chan' = [chan EXCEPT ![v] = << >>]
    /\ UNCHANGED << fetch, board, missed >>
    /\ UnchangedPublishers

\* The connection ends.  What is in the channel will not be received.
Disconnect(v) ==
    /\ conn[v] = "on"
    /\ conn' = [conn EXCEPT ![v] = "leaving"]
    /\ missed' = [missed EXCEPT ![v] = @ \/ HasReload(v)]
    /\ UNCHANGED << chan, fetch, board >>
    /\ UnchangedPublishers

\* Defect: the channel is closed without the lock.
UnsubscribeUnlocked(v) ==
    /\ conn[v] = "leaving"
    /\ conn' = [conn EXCEPT ![v] = "away"]
    /\ chan' = [chan EXCEPT ![v] = << >>]
    /\ UNCHANGED << fetch, board, missed >>
    /\ UnchangedPublishers

\* Unsubscribe closes the channel and forgets it.
Unsubscribe(v) ==
    /\ conn[v] = "leaving"
    /\ reading = {}
    /\ conn' = [conn EXCEPT ![v] = "away"]
    /\ chan' = [chan EXCEPT ![v] = << >>]
    /\ UNCHANGED << fetch, board, missed >>
    /\ UnchangedPublishers

-----------------------------------------------------------------------------
(* Pages                                                                    *)

\* Defect: no list is asked for while another one is on its way.
ReceiveOnce(v) ==
    /\ conn[v] = "on"
    /\ chan[v] # << >>
    /\ chan' = [chan EXCEPT ![v] = Tail(@)]
    /\ fetch' = IF Reloads(Head(chan[v])) /\ fetch[v] = {}
                THEN [fetch EXCEPT ![v] = {"asked"}] ELSE fetch
    /\ UNCHANGED << conn, board, missed >>
    /\ UnchangedPublishers

\* The event goes to the page, which asks for the list if it cares.
Receive(v) ==
    /\ conn[v] = "on"
    /\ chan[v] # << >>
    /\ chan' = [chan EXCEPT ![v] = Tail(@)]
    /\ fetch' = IF Reloads(Head(chan[v]))
                THEN [fetch EXCEPT ![v] = @ \cup {"asked"}] ELSE fetch
    /\ UNCHANGED << conn, board, missed >>
    /\ UnchangedPublishers

\* One of the requests at f is done with; it may or may not be the only one.
Without(v, f) == {fetch[v], fetch[v] \ {f}}

\* The server reads the list.
Answer(v) ==
    /\ "asked" \in fetch[v]
    /\ \E rest \in Without(v, "asked") :
           fetch' = [fetch EXCEPT ![v] = rest \cup {"current"}]
    /\ UNCHANGED << conn, chan, board, missed >>
    /\ UnchangedPublishers

\* The page shows an answer, be it older than what it showed.
Show(v) ==
    /\ \E f \in fetch[v] \ {"asked"}, rest \in SUBSET Fetches :
         /\ rest \in Without(v, f)
         /\ fetch' = [fetch EXCEPT ![v] = rest]
         /\ board' = [board EXCEPT ![v] = f = "current"]
         /\ missed' = [missed EXCEPT ![v] = f = "old" /\ (@ \/ board[v])]
    /\ UNCHANGED << conn, chan >>
    /\ UnchangedPublishers

\* The event or the request is lost on its way, or the request fails: the page
\* writes a line to its console.
FetchFails(v) ==
    /\ \E f \in fetch[v], rest \in SUBSET Fetches :
         /\ rest \in Without(v, f)
         /\ fetch' = [fetch EXCEPT ![v] = rest]
    /\ missed' = [missed EXCEPT ![v] = TRUE]
    /\ UNCHANGED << conn, chan, board >>
    /\ UnchangedPublishers

PublisherStep(p) ==
    \/ Publish(p) \/ Fail(p)
    \/ RLock(p) \/ RUnlock(p)
    \/ \E v \in Viewers : Send(p, v)

Next ==
    \/ \E p \in Publishers : Begin(p) \/ PublisherStep(p)
    \/ \E v \in Viewers :
         \/ Connect(v) \/ Subscribe(v) \/ Disconnect(v) \/ Unsubscribe(v)
         \/ Receive(v) \/ Answer(v) \/ Show(v) \/ FetchFails(v)

\* Publishers run, and who waits for the lock gets it, however many writers
\* come: the lock lets waiting readers in when a writer leaves.  Nothing is
\* assumed of pages: they may never read.
Fairness ==
    /\ \A p \in Publishers : SF_vars(PublisherStep(p))
    /\ \A v \in Viewers : WF_vars(Subscribe(v) \/ Unsubscribe(v))

Spec == Init /\ [][Next]_vars /\ Fairness

-----------------------------------------------------------------------------
(* Properties                                                               *)

\* Everything keeps its type, and channels their capacity.
TypeOK ==
    /\ stack \in [Publishers -> Seq(Frames)]
    /\ reading \subseteq Publishers
    /\ left \in [Publishers -> SUBSET Viewers]
    /\ conn \in [Viewers -> {"away", "joining", "on", "leaving"}]
    /\ chan \in [Viewers -> Seq(Events)]
    /\ \A v \in Viewers : Len(chan[v]) <= Cap
    /\ fetch \in [Viewers -> SUBSET Fetches]
    /\ board \in [Viewers -> BOOLEAN]
    /\ missed \in [Viewers -> BOOLEAN]
    /\ calls \in 0 .. MaxCalls

\* The broker never sends on a closed channel, which would stop the server:
\* nobody leaves between the lock and the last send of a loop.
SendsToOpenChannels == \A p \in reading : left[p] \subseteq Clients

\* The publisher will send the page an event that makes it reload.
Owes(p, v) ==
    \E k \in 2 .. Len(stack[p]) :
        /\ Reloads(stack[p][k].event)
        /\ k = Len(stack[p]) /\ p \in reading => v \in left[p]

\* The page is going to show the list as it is now.
Coming(v) ==
    \/ \E p \in Publishers : Owes(p, v)
    \/ conn[v] = "on" /\ HasReload(v)
    \/ fetch[v] \cap {"asked", "current"} # {}

\* A board that is not current is about to be, unless a write was not
\* announced, an event passed while the page was not connected or was lost with
\* its connection, a request failed or overtook a later one, or an event was
\* dropped from a channel with none in it that makes the page reload.
StaleForACause == \A v \in Viewers : board[v] \/ missed[v] \/ Coming(v)

\* Every publisher returns, whether or not any client ever reads.
PublishersReturn == \A p \in Publishers : stack[p] # << >> ~> stack[p] = << >>

-----------------------------------------------------------------------------
(* Sentences that the code departs from                                     *)

\* "The board auto-updates over a global SSE stream ... New tasks, phase moves,
\* subtask changes, and config updates all push live" (README.md:166-168).
BoardsUpdate ==
    \A v \in Viewers : board[v] \/ Coming(v) \/ conn[v] # "on"

\* "The SSE hub receives the event and sends it to all connected clients", and
\* only then the orchestrator starts the flow and its event (SPEC.md:257-260).
CauseFirst == [][\A p \in Publishers : RLock(p) => Len(stack[p]) = 2]_vars
=============================================================================
