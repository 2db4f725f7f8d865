------------------------------- MODULE LiveTail -------------------------------
(* The live tail of one task: every run of a harness opens a new stream, the  *)
(* two goroutines that copy the command's stdout and stderr append chunks to  *)
(* it, and viewers replay the buffer and then follow a channel.  A stream's   *)
(* mutex covers its buffer and the registration of viewers, but append and    *)
(* End walk the map of viewers after they have released it.                   *)
(*                                                                            *)
(* Chunks are numbered by their place in the buffer.  The trimming of the     *)
(* buffer to its last 64 KB is left out.                                      *)
EXTENDS Integers, Sequences

CONSTANTS Viewers,     \* HTTP clients
          Sources,     \* copying goroutines of a command: stdout, stderr
          Capacity,    \* subChanCap
          MaxRuns,     \* bound of the model: dispatches of the task
          MaxChunks    \* bound of the model: chunks a run writes

ASSUME CapacityAssumption == Capacity \in Nat \ {0}
ASSUME BoundsAssumption == MaxRuns \in Nat /\ MaxChunks \in Nat

VARIABLES current,   \* the stream in the store, 0 if there is none
          opened,    \* streams opened so far
          command,   \* the command of each stream
          author,    \* the buffer of each stream: who wrote each chunk
          ended, subs,
          fan,       \* the fan-out each source is in: chunk, viewers to come
          ending,    \* the fan-out of End: viewers to come
          view,      \* where each viewer's handler is
          on,        \* the stream a viewer was shown, then has subscribed to
          chan,      \* its channel
          since,     \* (history) chunks in its buffer at that moment
          seen,      \* (history) chunks it has had from the channel
          dropped,   \* (history) chunks its full channel has dropped
          crashed    \* the Go runtime has stopped the server

stream == << current, opened, command, author, ended >>
viewer == << view, on, chan, since, seen, dropped >>
vars == << stream, subs, fan, ending, viewer, crashed >>

Runs == 1 .. MaxRuns
End == 0                          \* Chunk{End: true}; the others are 1, 2, ...
Commands == {"none", "opened", "running", "exited", "reaped", "unstarted"}
Views == {"off", "snapshot", "subscribe", "notice", "follow", "leave"}
Rest == [chunk |-> 0, left |-> {}]

Size(s) == Len(author[s])

Init ==
    /\ current = 0 /\ opened = 0
    /\ command = [s \in Runs |-> "none"]
    /\ author = [s \in Runs |-> << >>]
    /\ ended = [s \in Runs |-> FALSE]
    /\ subs = [s \in Runs |-> {}]
    /\ fan = [s \in Runs |-> [src \in Sources |-> Rest]]
    /\ ending = [s \in Runs |-> {}]
    /\ view = [v \in Viewers |-> "off"]
    /\ on = [v \in Viewers |-> 0]
    /\ chan = [v \in Viewers |-> << >>]
    /\ since = [v \in Viewers |-> 0]
    /\ seen = [v \in Viewers |-> {}]
    /\ dropped = [v \in Viewers |-> {}]
    /\ crashed = FALSE

-----------------------------------------------------------------------------
(* The runs of the task                                                     *)

\* Adapter.Dispatch opens a stream; the previous command may still be running.
Open ==
    /\ opened < MaxRuns
    /\ opened' = opened + 1
    /\ current' = opened + 1
    /\ command' = [command EXCEPT ![opened + 1] = "opened"]
    /\ UNCHANGED << author, ended, subs, fan, ending, viewer, crashed >>

\* cmd.Start succeeds, or fails and Dispatch returns.
StartCommand(s) ==
    /\ command[s] = "opened"
    /\ \E how \in {"running", "unstarted"} :
           command' = [command EXCEPT ![s] = how]
    /\ UNCHANGED << current, opened, author, ended, subs, fan, ending, viewer,
                    crashed >>

\* append, the locked section.
AppendChunk(s, src) ==
    /\ command[s] = "running"
    /\ Size(s) < MaxChunks
    /\ fan[s][src] = Rest
    /\ author' = [author EXCEPT ![s] = @ \o << src >>]
    /\ fan' = [fan EXCEPT ![s][src] =
                  [chunk |-> Size(s) + 1, left |-> subs[s]]]
    /\ UNCHANGED << current, opened, command, ended, subs, ending, viewer,
                    crashed >>

\* Defect: the channel is taken to be unbounded.
SendAlways(v, c) ==
    /\ chan' = [chan EXCEPT ![v] = @ \o << c >>]
    /\ dropped' = dropped

\* Defect: the newest chunk comes first.
SendFirst(v, c) ==
    IF Len(chan[v]) < Capacity
    THEN chan' = [chan EXCEPT ![v] = << c >> \o @] /\ dropped' = dropped
    ELSE chan' = chan /\ dropped' = [dropped EXCEPT ![v] = @ \cup {c}]

\* The chunk goes into the viewer's channel if there is room.
Send(v, c) ==
    IF Len(chan[v]) < Capacity
    THEN chan' = [chan EXCEPT ![v] = @ \o << c >>] /\ dropped' = dropped
    ELSE chan' = chan /\ dropped' = [dropped EXCEPT ![v] = @ \cup {c}]

\* append, one turn of the loop over the map.
Deliver(s, src, v) ==
    /\ v \in fan[s][src].left
    /\ fan' = [fan EXCEPT ![s][src].left = @ \ {v}]
    /\ Send(v, fan[s][src].chunk)
    /\ UNCHANGED << stream, subs, ending, view, on, since, seen, crashed >>

Delivered(s, src) ==
    /\ fan[s][src].chunk # 0
    /\ fan[s][src].left = {}
    /\ fan' = [fan EXCEPT ![s][src] = Rest]
    /\ UNCHANGED << stream, subs, ending, viewer, crashed >>

\* Defect: nobody is notified.
EndSilently(s) == ended' = [ended EXCEPT ![s] = TRUE] /\ ending' = ending

\* End, the locked section; a second call does nothing.
EndStream(s) ==
    /\ ended' = [ended EXCEPT ![s] = TRUE]
    /\ ending' = [ending EXCEPT ![s] = IF ended[s] THEN @ ELSE subs[s]]

\* The command is over and both sources have been copied: cmd.Wait returns.
CommandExits(s) ==
    /\ command[s] = "running"
    /\ \A src \in Sources : fan[s][src] = Rest
    /\ command' = [command EXCEPT ![s] = "exited"]
    /\ UNCHANGED << current, opened, author, ended, subs, fan, ending, viewer,
                    crashed >>

\* monitorProcess has handled the exit, which may have meant a retry and with
\* it the next run, and its deferred End runs.
Reap(s) ==
    /\ command[s] = "exited"
    /\ command' = [command EXCEPT ![s] = "reaped"]
    /\ EndStream(s)
    /\ UNCHANGED << current, opened, author, subs, fan, viewer, crashed >>

\* End, one turn of the loop over the map.
Notify(s, v) ==
    /\ v \in ending[s]
    /\ ending' = [ending EXCEPT ![s] = @ \ {v}]
    /\ Send(v, End)
    /\ UNCHANGED << stream, subs, fan, view, on, since, seen, crashed >>

\* TaskDeleted: the stream is removed from the store and ended.
Delete ==
    /\ current # 0
    /\ current' = 0
    /\ EndStream(current)
    /\ UNCHANGED << opened, command, author, subs, fan, viewer, crashed >>

-----------------------------------------------------------------------------
(* A viewer's request                                                       *)

Move(v, from, to) == view[v] = from /\ view' = [view EXCEPT ![v] = to]

\* The handler looks the stream up; without one it answers End and returns.
Connect(v) ==
    /\ current # 0
    /\ Move(v, "off", "snapshot")
    /\ UNCHANGED << stream, subs, fan, ending, on, chan, since, seen, dropped,
                    crashed >>

\* The buffer of the stream that is current by now is replayed.
Snapshot(v) ==
    /\ Move(v, "snapshot", "subscribe")
    /\ on' = [on EXCEPT ![v] = current]
    /\ since' = [since EXCEPT ![v] = IF current = 0 THEN 0 ELSE Size(current)]
    /\ UNCHANGED << stream, subs, fan, ending, chan, seen, dropped, crashed >>

\* Where an iteration over the viewers of s is under way.
Walking(s) == \/ \E src \in Sources : fan[s][src].chunk # 0
              \/ ending[s] # {}

SubscribeGone(v) ==
    /\ current = 0
    /\ Move(v, "subscribe", "off")
    /\ on' = [on EXCEPT ![v] = 0]
    /\ since' = [since EXCEPT ![v] = 0]
    /\ UNCHANGED << stream, subs, fan, ending, chan, seen, dropped, crashed >>

\* Defect: a new viewer takes the place of the others.
SubscribeAlone(v) ==
    /\ current # 0
    /\ Move(v, "subscribe", IF ended[current] THEN "notice" ELSE "follow")
    /\ subs' = [subs EXCEPT ![current] = {v}]
    /\ on' = [on EXCEPT ![v] = current]
    /\ since' = [since EXCEPT ![v] = Size(current)]
    /\ UNCHANGED << stream, fan, ending, chan, seen, dropped, crashed >>

\* subscribe, the locked section.  An iteration under way may or may not come
\* to see the new entry.
Subscribe(v) ==
    /\ current # 0
    /\ Move(v, "subscribe", IF ended[current] THEN "notice" ELSE "follow")
    /\ subs' = [subs EXCEPT ![current] = @ \cup {v}]
    /\ on' = [on EXCEPT ![v] = current]
    /\ since' = [since EXCEPT ![v] = Size(current)]
    /\ \E late \in SUBSET { src \in Sources : fan[current][src].chunk # 0 } :
           fan' = [fan EXCEPT ![current] =
                      [src \in Sources |-> IF src \in late
                           THEN [fan[current][src] EXCEPT !.left = @ \cup {v}]
                           ELSE fan[current][src]]]
    /\ \/ ending' = ending
       \/ /\ ending[current] # {}
          /\ ending' = [ending EXCEPT ![current] = @ \cup {v}]
    /\ UNCHANGED << stream, chan, seen, dropped, crashed >>

\* subscribe, after the unlock: the stream had ended before.
Notice(v) ==
    /\ Move(v, "notice", "follow")
    /\ Send(v, End)
    /\ UNCHANGED << stream, subs, fan, ending, on, since, seen, crashed >>

\* The handler writes the next chunk to the client; End is the last one.
Receive(v) ==
    /\ view[v] = "follow"
    /\ chan[v] # << >>
    /\ chan' = [chan EXCEPT ![v] = Tail(@)]
    /\ seen' = [seen EXCEPT ![v] = @ \cup {Head(chan[v])}]
    /\ view' = [view EXCEPT ![v] = IF Head(chan[v]) = End THEN "leave" ELSE @]
    /\ UNCHANGED << stream, subs, fan, ending, on, since, dropped, crashed >>

\* The client goes away.
Disconnect(v) ==
    /\ Move(v, "follow", "leave")
    /\ UNCHANGED << stream, subs, fan, ending, on, chan, since, seen, dropped,
                    crashed >>

\* The deferred Unsubscribe; the handler returns and the channel is garbage.
Unsubscribe(v) ==
    /\ Move(v, "leave", "off")
    /\ subs' = [subs EXCEPT ![on[v]] = @ \ {v}]
    /\ fan' = [fan EXCEPT ![on[v]] =
                  [src \in Sources |->
                      [fan[on[v]][src] EXCEPT !.left = @ \ {v}]]]
    /\ ending' = [ending EXCEPT ![on[v]] = @ \ {v}]
    /\ on' = [on EXCEPT ![v] = 0]
    /\ chan' = [chan EXCEPT ![v] = << >>]
    /\ since' = [since EXCEPT ![v] = 0]
    /\ seen' = [seen EXCEPT ![v] = {}]
    /\ dropped' = [dropped EXCEPT ![v] = {}]
    /\ UNCHANGED << stream, crashed >>

\* The map is written while it is iterated over: the Go runtime may notice and
\* stop the process, and all of its memory is gone.
MapFault(w) ==
    /\ \/ view[w] = "subscribe" /\ current # 0 /\ Walking(current)
       \/ view[w] = "leave" /\ Walking(on[w])
    /\ crashed' = TRUE
    /\ current' = 0 /\ opened' = MaxRuns
    /\ command' = [s \in Runs |-> "none"]
    /\ author' = [s \in Runs |-> << >>]
    /\ ended' = [s \in Runs |-> FALSE]
    /\ subs' = [s \in Runs |-> {}]
    /\ fan' = [s \in Runs |-> [src \in Sources |-> Rest]]
    /\ ending' = [s \in Runs |-> {}]
    /\ view' = [v \in Viewers |-> "off"]
    /\ on' = [v \in Viewers |-> 0]
    /\ chan' = [v \in Viewers |-> << >>]
    /\ since' = [v \in Viewers |-> 0]
    /\ seen' = [v \in Viewers |-> {}]
    /\ dropped' = [v \in Viewers |-> {}]
-----------------------------------------------------------------------------
Walk(s, v) == Notify(s, v) \/ \E src \in Sources : Deliver(s, src, v)

Handling(v) == \/ Snapshot(v) \/ SubscribeGone(v) \/ Subscribe(v)
               \/ Notice(v) \/ Receive(v) \/ Unsubscribe(v)

Next ==
    /\ ~crashed
    /\ \/ Open \/ Delete
       \/ \E s \in Runs :
              \/ StartCommand(s) \/ CommandExits(s) \/ Reap(s)
              \/ \E src \in Sources : AppendChunk(s, src) \/ Delivered(s, src)
              \/ \E v \in Viewers : Walk(s, v)
       \/ \E v \in Viewers : Connect(v) \/ Handling(v) \/ Disconnect(v)
                             \/ MapFault(v)

Spec == Init /\ [][Next]_vars

\* Goroutines keep running, commands start and end (at their timeout at the
\* latest), and clients keep reading as long as they are connected.
Fairness ==
    /\ \A s \in Runs : /\ \A v \in Viewers : WF_vars(~crashed /\ Walk(s, v))
                       /\ \A src \in Sources :
                              WF_vars(~crashed /\ Delivered(s, src))
                       /\ WF_vars(~crashed /\ StartCommand(s))
                       /\ SF_vars(~crashed /\ CommandExits(s))
                       /\ WF_vars(~crashed /\ Reap(s))
    /\ \A v \in Viewers : WF_vars(~crashed /\ Handling(v))

FairSpec == Spec /\ Fairness
-----------------------------------------------------------------------------
\* The types of the variables; a channel never holds more than its capacity.
TypeOK ==
    /\ current \in 0 .. MaxRuns /\ opened \in 0 .. MaxRuns
    /\ command \in [Runs -> Commands]
    /\ author \in [Runs -> Seq(Sources)]
    /\ ended \in [Runs -> BOOLEAN]
    /\ subs \in [Runs -> SUBSET Viewers]
    /\ fan \in [Runs -> [Sources -> [chunk : Nat, left : SUBSET Viewers]]]
    /\ ending \in [Runs -> SUBSET Viewers]
    /\ view \in [Viewers -> Views]
    /\ on \in [Viewers -> 0 .. MaxRuns]
    /\ chan \in [Viewers -> Seq(Nat)]
    /\ \A v \in Viewers : Len(chan[v]) <= Capacity
    /\ since \in [Viewers -> Nat]
    /\ seen \in [Viewers -> SUBSET Nat]
    /\ dropped \in [Viewers -> SUBSET Nat]
    /\ crashed \in BOOLEAN

Following(v) == view[v] \in {"notice", "follow"}
Queued(v) == { chan[v][i] : i \in 1 .. Len(chan[v]) }
InFlight(s, v) == { fan[s][src].chunk :
                      src \in { x \in Sources : v \in fan[s][x].left } }

\* Whatever the other viewers do, a viewer misses no chunk that is written
\* after it has subscribed, unless its own channel was full.
NothingElseIsLost ==
    \A v \in Viewers : Following(v) =>
        since[v] + 1 .. Size(on[v]) \subseteq
            seen[v] \cup Queued(v) \cup dropped[v] \cup InFlight(on[v], v)

\* Chunks of one source reach a viewer's channel in the order in which they
\* were written, although the map is walked without the lock.
SourceOrder ==
    \A v \in Viewers : Following(v) =>
        \A i, j \in 1 .. Len(chan[v]) :
            /\ i < j /\ End \notin {chan[v][i], chan[v][j]}
            /\ author[on[v]][chan[v][i]] = author[on[v]][chan[v][j]]
            => chan[v][i] < chan[v][j]

\* However subscribing and ending interleave, a viewer of an ended stream is
\* told of the end, unless its channel was full.
EndArrives ==
    \A v \in Viewers :
        (Following(v) /\ ended[on[v]])
            ~> (~Following(v) \/ End \in dropped[v] \/ crashed)

\* store.go: "A final Chunk{End:true} is sent when the stream ends or is
\* closed": a viewer of an ended stream does not wait for ever.
EndIsSent ==
    \A v \in Viewers :
        (Following(v) /\ ended[on[v]]) ~> (~Following(v) \/ crashed)

\* store.go: the channel "only carries chunks written AFTER subscription".
AfterSubscriptionOnly ==
    \A v \in Viewers : \A c \in Queued(v) : c # End => c > since[v]

\* live_handler.go: "On connect it replays the buffered tail", "then streams
\* new chunks": nothing is written between the two.
ReplayMeetsTail ==
    [][\A v \in Viewers :
          view[v] = "subscribe" /\ view'[v] \in {"notice", "follow"} =>
              since'[v] = IF on'[v] = on[v] THEN since[v] ELSE 0]_vars

\* live_handler.go: when the harness never ran the handler returns "an empty
\* ended stream".
NeverRanIsEnded ==
    \A v \in Viewers :
        (Following(v) /\ command[on[v]] = "unstarted")
            ~> (~Following(v) \/ crashed)

\* store.go: "the harness pipe must never stall on a web client": no client
\* that comes or goes stops the server.
ClientsDoNotStop == ~crashed
=============================================================================
