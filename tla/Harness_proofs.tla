---------------------------- MODULE Harness_proofs ----------------------------
(* Theorems about the harness adapter and about the live tail of the output   *)
(* of its commands, each from the specification of its own component, for any *)
(* tasks, commands, viewers, runs and chunks.                                 *)
EXTENDS HarnessAdapter, LiveTail, TLAPS

-----------------------------------------------------------------------------
(* The adapter                                                              *)

\* A command that exists has an owner, and only such a command is monitored;
\* KillProcess has only ever found monitored ones.
Ownership ==
    \A p \in Procs :
        /\ os[p] # "absent" => owner[p] \in Tasks
        /\ os[p] = "absent" => owner[p] = NoTask
        /\ mon[p] # "none" => os[p] # "absent"
        /\ p \in targets => mon[p] \notin {"none", "lost"}

\* A command that is not shared is the only one this server has for its task.
OneCommand ==
    \A p \in Procs \ shared, q \in Procs :
        /\ os[p] # "absent" /\ ~Lost(p)
        /\ os[q] # "absent" /\ ~Lost(q)
        /\ owner[p] = owner[q]
        => p = q

\* The inductive invariant.
HarnessInv ==
    /\ HarnessTypeOK
    /\ Ownership
    /\ RegistryIsLive
    /\ OneCommand
    /\ RunningIsKillable
    /\ KillIsNoFailure

\* The server starts with no command and an empty registry.
LEMMA HarnessInitInv ==
  ASSUME NamesAreFree
  PROVE  HarnessInit => HarnessInv
<1>q. QED
  BY DEF NamesAreFree, HarnessInit, HarnessInv, HarnessTypeOK, Ownership,
         RegistryIsLive, OneCommand, RunningIsKillable, KillIsNoFailure, OsStates, MonStates,
         Running, Lost

\* No step takes a variable out of its type.
LEMMA HarnessTypeStep ==
  ASSUME NamesAreFree
  PROVE  HarnessInv /\ [HarnessNext]_harnessVars => HarnessTypeOK'
<1> SUFFICES ASSUME HarnessInv, [HarnessNext]_harnessVars
             PROVE  HarnessTypeOK'
  OBVIOUS
<1> USE DEF NamesAreFree, HarnessInv, HarnessTypeOK, OsStates, MonStates
<1>1. ASSUME NEW t \in Tasks, NEW p \in Procs, Start(t, p)
      PROVE  HarnessTypeOK'
  <2>1. os' \in [Procs -> OsStates] /\ owner' \in [Procs -> Tasks \cup {NoTask}]
    BY <1>1 DEF Start
  <2>2. shared' \subseteq Procs
    BY <1>1 DEF Start, Current
  <2>q. QED
    BY <1>1, <2>1, <2>2 DEF Start
<1>2. ASSUME NEW t \in Tasks, MarkKilled(t) PROVE HarnessTypeOK'
  BY <1>2 DEF MarkKilled
<1>3. ASSUME NEW p \in Procs, Register(p) PROVE HarnessTypeOK'
  BY <1>3 DEF Register
<1>4. ASSUME NEW p \in Procs, Signal(p) PROVE HarnessTypeOK'
  BY <1>4 DEF Signal
<1>5. ASSUME NEW p \in Procs, Monitor(p) PROVE HarnessTypeOK'
  BY <1>5 DEF Monitor, Excused, Reaped, Report, Unregister
<1>6. ASSUME NEW p \in Procs, NEW how \in {"clean", "dirty"}, Exit(p, how)
      PROVE  HarnessTypeOK'
  BY <1>6 DEF Exit
<1>7. ASSUME NEW left \in SUBSET Procs, ServerStops(left) PROVE HarnessTypeOK'
  BY <1>7 DEF ServerStops
<1>8. ASSUME NEW p \in Procs, LostExit(p) PROVE HarnessTypeOK'
  BY <1>8 DEF LostExit
<1>9. CASE UNCHANGED harnessVars
  BY <1>9 DEF harnessVars
<1>q. QED
  BY <1>1, <1>2, <1>3, <1>4, <1>5, <1>6, <1>7, <1>8, <1>9 DEF HarnessNext

\* Every locked section and every system call keeps the invariant.
LEMMA HarnessStepInv ==
  ASSUME NamesAreFree
  PROVE  HarnessInv /\ [HarnessNext]_harnessVars => HarnessInv'
<1> SUFFICES ASSUME HarnessInv, [HarnessNext]_harnessVars PROVE HarnessInv'
  OBVIOUS
<1> DEFINE Others == /\ Ownership /\ RegistryIsLive /\ OneCommand
                     /\ RunningIsKillable /\ KillIsNoFailure
<1>t. HarnessTypeOK'
  BY HarnessTypeStep
<1> USE DEF NamesAreFree, HarnessInv, HarnessTypeOK, Ownership, RegistryIsLive, OneCommand,
            RunningIsKillable, KillIsNoFailure, Running, Lost
<1>1. ASSUME NEW t \in Tasks, NEW p \in Procs, Start(t, p) PROVE Others'
  <2> USE <1>1 DEF Start, Free, Current
  <2>1. Ownership'
    OBVIOUS
  <2>2. RegistryIsLive'
    OBVIOUS
  <2>3. OneCommand'
    OBVIOUS
  <2>4. RunningIsKillable' /\ KillIsNoFailure'
    OBVIOUS
  <2>q. QED
    BY <2>1, <2>2, <2>3, <2>4
<1>2. ASSUME NEW t \in Tasks, MarkKilled(t) PROVE Others'
  <2> USE <1>2 DEF MarkKilled
  <2>1. Ownership' /\ RegistryIsLive' /\ OneCommand'
    OBVIOUS
  <2>2. RunningIsKillable'
    OBVIOUS
  <2>3. KillIsNoFailure'
    OBVIOUS
  <2>q. QED
    BY <2>1, <2>2, <2>3
<1>3. ASSUME NEW p \in Procs, Register(p) PROVE Others'
  <2> USE <1>3 DEF Register
  <2>1. Ownership' /\ OneCommand'
    OBVIOUS
  <2>2. RegistryIsLive'
    OBVIOUS
  <2>3. RunningIsKillable' /\ KillIsNoFailure'
    OBVIOUS
  <2>q. QED
    BY <2>1, <2>2, <2>3
<1>4. ASSUME NEW p \in Procs, Signal(p) PROVE Others'
  BY <1>4 DEF Signal, OsStates
<1>5. ASSUME NEW p \in Procs, Excused(p) \/ Reaped(p) \/ Report(p) PROVE Others'
  <2> USE <1>5 DEF Excused, Reaped, Report
  <2>1. Ownership' /\ RegistryIsLive' /\ OneCommand'
    OBVIOUS
  <2>2. RunningIsKillable'
    OBVIOUS
  <2>3. KillIsNoFailure'
    OBVIOUS
  <2>q. QED
    BY <2>1, <2>2, <2>3
<1>6. ASSUME NEW p \in Procs, Unregister(p) PROVE Others'
  <2> USE <1>6 DEF Unregister
  <2>1. Ownership' /\ OneCommand'
    OBVIOUS
  <2>2. RegistryIsLive'
    OBVIOUS
  <2>3. RunningIsKillable' /\ KillIsNoFailure'
    OBVIOUS
  <2>q. QED
    BY <2>1, <2>2, <2>3
<1>7. ASSUME NEW p \in Procs, NEW how \in {"clean", "dirty"}, Exit(p, how)
      PROVE  Others'
  BY <1>7 DEF Exit
<1>8. ASSUME NEW left \in SUBSET Procs, ServerStops(left) PROVE Others'
  BY <1>8 DEF ServerStops
<1>9. ASSUME NEW p \in Procs, LostExit(p) PROVE Others'
  BY <1>9 DEF LostExit
<1>10. CASE UNCHANGED harnessVars
  BY <1>10 DEF harnessVars
<1>11. Others'
  BY <1>1, <1>2, <1>3, <1>4, <1>5, <1>6, <1>7, <1>8, <1>9, <1>10
     DEF HarnessNext, Monitor
<1>q. QED
  BY <1>t, <1>11

\* The invariant holds in every run of the adapter.
THEOREM HarnessInvariance ==
  ASSUME NamesAreFree
  PROVE  HarnessSpec => []HarnessInv
<1>q. QED
  BY HarnessInitInv, HarnessStepInv, PTL DEF HarnessSpec

\* The variables of the adapter keep their types.
THEOREM HarnessTypeCorrect ==
  ASSUME NamesAreFree
  PROVE  HarnessSpec => []HarnessTypeOK
<1>1. HarnessInv => HarnessTypeOK
  BY DEF HarnessInv
<1>q. QED
  BY HarnessInvariance, <1>1, PTL

\* Whether runs overlap or not, KillProcess finds in the registry only a
\* command of that very task whose monitor has not returned.
THEOREM RegistryCorrect ==
  ASSUME NamesAreFree
  PROVE  HarnessSpec => []RegistryIsLive
<1>1. HarnessInv => RegistryIsLive
  BY DEF HarnessInv
<1>q. QED
  BY HarnessInvariance, <1>1, PTL

\* A running command that did not share its task with another one can be
\* killed, across restarts of the server as well.
THEOREM Killable ==
  ASSUME NamesAreFree
  PROVE  HarnessSpec => []RunningIsKillable
<1>1. HarnessInv => RunningIsKillable
  BY DEF HarnessInv
<1>q. QED
  BY HarnessInvariance, <1>1, PTL

\* The intentional kill of a command that did not share its task is not
\* reported as a failure, and so does not set off the retry policy.
THEOREM KillsAreExcused ==
  ASSUME NamesAreFree
  PROVE  HarnessSpec => []KillIsNoFailure
<1>1. HarnessInv => KillIsNoFailure
  BY DEF HarnessInv
<1>q. QED
  BY HarnessInvariance, <1>1, PTL

-----------------------------------------------------------------------------
(* The live tail                                                            *)

\* The handler holds a channel that is to be unsubscribed.
Registered(v) == view[v] \in {"notice", "follow", "leave"}

\* Only viewers registered with a stream are in its maps and walked over.
AttachedInv ==
    \A s \in Runs, v \in Viewers :
        \/ v \in subs[s] \cup ending[s]
        \/ \E src \in Sources : v \in fan[s][src].left
        => Registered(v) /\ on[v] = s

\* A viewer that follows a stream is in its map.
MemberInv ==
    \A v \in Viewers : Following(v) => on[v] \in Runs /\ v \in subs[on[v]]

\* Only a registered viewer has anything in its channel, and it is in the
\* buffer of the stream it follows.
QueueInv ==
    \A v \in Viewers :
        /\ ~Registered(v) => chan[v] = << >>
        /\ \A i \in 1 .. Len(chan[v]) : chan[v][i] # End =>
              on[v] \in Runs /\ chan[v][i] \in 1 .. Size(on[v])

\* A walk hands out the latest chunk of its source, to viewers that do not
\* have it in their channel yet.
FanInv ==
    \A s \in Runs, src \in Sources :
        LET f == fan[s][src] IN
        /\ f.chunk = 0 => f.left = {}
        /\ f.chunk # 0 =>
             /\ f.chunk \in 1 .. Size(s) /\ author[s][f.chunk] = src
             /\ \A c \in 1 .. Size(s) : author[s][c] = src => c <= f.chunk
        /\ \A v \in f.left : f.chunk \notin Queued(v)

-----------------------------------------------------------------------------
\* A sequence with an element added at its end.
LEMMA AddedLast ==
  ASSUME NEW S, NEW q \in Seq(S), NEW e \in S
  PROVE  /\ q \o << e >> \in Seq(S)
         /\ Len(q \o << e >>) = Len(q) + 1
         /\ \A i \in 1 .. Len(q) : (q \o << e >>)[i] = q[i]
         /\ (q \o << e >>)[Len(q) + 1] = e
  OBVIOUS

\* The first element of a sequence, and the rest of it.
LEMMA TakenFirst ==
  ASSUME NEW S, NEW q \in Seq(S), q # << >>
  PROVE  /\ Head(q) \in S /\ Head(q) = q[1] /\ Len(q) >= 1
         /\ Tail(q) \in Seq(S)
         /\ Len(Tail(q)) = Len(q) - 1
         /\ \A i \in 1 .. Len(Tail(q)) : Tail(q)[i] = q[i + 1]
  OBVIOUS

\* A send changes one channel, which gains the chunk or drops it.
LEMMA SendEffect ==
  ASSUME TypeOK, NEW v \in Viewers, NEW c \in Nat, Send(v, c)
  PROVE  /\ chan' \in [Viewers -> Seq(Nat)]
         /\ dropped' \in [Viewers -> SUBSET Nat]
         /\ \A w \in Viewers : Len(chan'[w]) <= Capacity
         /\ \A w \in Viewers \ {v} : /\ chan'[w] = chan[w]
                                    /\ dropped'[w] = dropped[w]
         /\ \/ /\ chan'[v] = chan[v] \o << c >>
               /\ dropped'[v] = dropped[v]
            \/ /\ chan'[v] = chan[v]
               /\ dropped'[v] = dropped[v] \cup {c}
<1>1. chan[v] \in Seq(Nat) /\ Len(chan[v]) \in Nat
  BY DEF TypeOK
<1>2. CASE Len(chan[v]) < Capacity
  <2>1. /\ chan' = [chan EXCEPT ![v] = chan[v] \o << c >>]
        /\ dropped' = dropped
    BY <1>2 DEF Send
  <2>2. /\ chan[v] \o << c >> \in Seq(Nat)
        /\ Len(chan[v] \o << c >>) = Len(chan[v]) + 1
    BY <1>1, AddedLast
  <2>q. QED
    BY <1>1, <1>2, <2>1, <2>2, CapacityAssumption DEF TypeOK
<1>3. CASE ~(Len(chan[v]) < Capacity)
  <2>1. chan' = chan /\ dropped' = [dropped EXCEPT ![v] = dropped[v] \cup {c}]
    BY <1>3 DEF Send
  <2>q. QED
    BY <2>1 DEF TypeOK
<1>q. QED
  BY <1>2, <1>3

\* A walk over the viewers.
FanOut == [chunk : Nat, left : SUBSET Viewers]

\* A turn of the loop takes one viewer out of one walk.
LEMMA DeliverEffect ==
  ASSUME TypeOK, NEW s \in Runs, NEW src \in Sources, NEW v \in Viewers,
         Deliver(s, src, v)
  PROVE  /\ fan' \in [Runs -> [Sources -> FanOut]]
         /\ \A r \in Runs, x \in Sources :
               /\ fan'[r][x].chunk = fan[r][x].chunk
               /\ r = s /\ x = src => fan'[r][x].left = fan[s][src].left \ {v}
               /\ r # s \/ x # src => fan'[r][x].left = fan[r][x].left
<1>1. fan \in [Runs -> [Sources -> FanOut]]
  BY DEF TypeOK, FanOut
<1>2. fan' = [fan EXCEPT ![s] = [fan[s] EXCEPT ![src] =
                 [fan[s][src] EXCEPT !.left = fan[s][src].left \ {v}]]]
  BY <1>1 DEF Deliver
<1>3. [fan[s][src] EXCEPT !.left = fan[s][src].left \ {v}] \in FanOut
  BY <1>1 DEF FanOut
<1>q. QED
  BY <1>1, <1>2, <1>3 DEF FanOut

\* The viewer that leaves is in none of the walks of its stream any more.
LEMMA UnsubscribeEffect ==
  ASSUME TypeOK, NEW v \in Viewers, Unsubscribe(v)
  PROVE  /\ fan' \in [Runs -> [Sources -> FanOut]]
         /\ \A r \in Runs, x \in Sources :
               /\ fan'[r][x].chunk = fan[r][x].chunk
               /\ r = on[v] => fan'[r][x].left = fan[r][x].left \ {v}
               /\ r # on[v] => fan'[r][x].left = fan[r][x].left
<1> DEFINE one(x) == [fan[on[v]][x] EXCEPT !.left = fan[on[v]][x].left \ {v}]
           row == [x \in Sources |-> one(x)]
<1>1. fan \in [Runs -> [Sources -> FanOut]]
  BY DEF TypeOK, FanOut
<1>2. fan' = [fan EXCEPT ![on[v]] = row]
  <2>1. fan' = [fan EXCEPT ![on[v]] =
                   [x \in Sources |->
                      [fan[on[v]][x] EXCEPT !.left = fan[on[v]][x].left \ {v}]]]
    BY DEF Unsubscribe
  <2>q. QED
    BY <2>1 DEF row, one
<1>3. on[v] \in Runs => \A x \in Sources :
         /\ one(x) \in FanOut
         /\ one(x).chunk = fan[on[v]][x].chunk
         /\ one(x).left = fan[on[v]][x].left \ {v}
  BY <1>1 DEF FanOut
<1>4. on[v] \in Runs => /\ row \in [Sources -> FanOut]
                        /\ \A x \in Sources : row[x] = one(x)
  BY <1>3
<1> HIDE DEF row, one
<1>q. QED
  BY <1>1, <1>2, <1>3, <1>4

\* A new viewer joins the map, and the walks that happen to see it.
LEMMA SubscribeEffect ==
  ASSUME TypeOK, NEW v \in Viewers, Subscribe(v)
  PROVE  /\ current \in Runs
         /\ fan' \in [Runs -> [Sources -> FanOut]]
         /\ \A r \in Runs, x \in Sources :
               /\ fan'[r][x].chunk = fan[r][x].chunk
               /\ \/ fan'[r][x].left = fan[r][x].left
                  \/ /\ r = current /\ fan[r][x].chunk # 0
                     /\ fan'[r][x].left = fan[r][x].left \cup {v}
         /\ subs' \in [Runs -> SUBSET Viewers]
         /\ subs'[current] = subs[current] \cup {v}
         /\ \A r \in Runs \ {current} : subs'[r] = subs[r]
         /\ ending' \in [Runs -> SUBSET Viewers]
         /\ ending'[current] \in {ending[current], ending[current] \cup {v}}
         /\ \A r \in Runs \ {current} : ending'[r] = ending[r]
         /\ view' \in [Viewers -> Views]
         /\ view'[v] \in {"notice", "follow"} /\ view[v] = "subscribe"
         /\ \A w \in Viewers \ {v} : view'[w] = view[w]
         /\ on' = [on EXCEPT ![v] = current]
         /\ since' = [since EXCEPT ![v] = Size(current)] /\ Size(current) \in Nat
<1>1. current \in Runs
  BY DEF Subscribe, TypeOK, Runs
<1>2. fan \in [Runs -> [Sources -> FanOut]]
  BY DEF TypeOK, FanOut
<1>3. PICK late \in SUBSET { src \in Sources : fan[current][src].chunk # 0 } :
         fan' = [fan EXCEPT ![current] =
                    [src \in Sources |-> IF src \in late
                         THEN [fan[current][src] EXCEPT !.left = @ \cup {v}]
                         ELSE fan[current][src]]]
  BY DEF Subscribe
<1> DEFINE one(x) == IF x \in late
                     THEN [fan[current][x] EXCEPT
                              !.left = fan[current][x].left \cup {v}]
                     ELSE fan[current][x]
           row == [x \in Sources |-> one(x)]
<1>4. fan' = [fan EXCEPT ![current] = row]
  BY <1>3 DEF row, one
<1>5. \A x \in Sources :
         /\ one(x) \in FanOut
         /\ one(x).chunk = fan[current][x].chunk
         /\ one(x).left = IF x \in late THEN fan[current][x].left \cup {v}
                                        ELSE fan[current][x].left
  BY <1>1, <1>2 DEF FanOut
<1>6. \A x \in late : fan[current][x].chunk # 0
  OBVIOUS
<1>7. row \in [Sources -> FanOut] /\ \A x \in Sources : row[x] = one(x)
  BY <1>5
<1> HIDE DEF row, one
<1>8. /\ fan' \in [Runs -> [Sources -> FanOut]]
      /\ \A r \in Runs, x \in Sources :
               /\ fan'[r][x].chunk = fan[r][x].chunk
               /\ \/ fan'[r][x].left = fan[r][x].left
                  \/ /\ r = current /\ fan[r][x].chunk # 0
                     /\ fan'[r][x].left = fan[r][x].left \cup {v}
  BY <1>1, <1>2, <1>4, <1>5, <1>6, <1>7
<1>9. /\ subs' \in [Runs -> SUBSET Viewers]
      /\ subs'[current] = subs[current] \cup {v}
      /\ \A r \in Runs \ {current} : subs'[r] = subs[r]
  BY <1>1 DEF Subscribe, TypeOK
<1>10. /\ ending' \in [Runs -> SUBSET Viewers]
      /\ ending'[current] \in {ending[current], ending[current] \cup {v}}
      /\ \A r \in Runs \ {current} : ending'[r] = ending[r]
  <2>1. CASE ending' = ending
    BY <1>1, <2>1 DEF TypeOK
  <2>2. CASE ending' = [ending EXCEPT ![current] = ending[current] \cup {v}]
    BY <1>1, <2>2 DEF TypeOK
  <2>q. QED
    BY <2>1, <2>2 DEF Subscribe
<1>11. /\ view' \in [Viewers -> Views]
       /\ view'[v] \in {"notice", "follow"} /\ view[v] = "subscribe"
       /\ \A w \in Viewers \ {v} : view'[w] = view[w]
  <2>1. /\ view[v] = "subscribe"
        /\ view' = [view EXCEPT ![v] = IF ended[current] THEN "notice"
                                       ELSE "follow"]
    BY DEF Subscribe, Move
  <2>q. QED
    BY <2>1 DEF TypeOK, Views
<1>12. /\ on' = [on EXCEPT ![v] = current]
       /\ since' = [since EXCEPT ![v] = Size(current)]
  BY DEF Subscribe
<1>13. Size(current) \in Nat
  BY <1>1 DEF Size, TypeOK
<1>q. QED
  BY <1>1, <1>8, <1>9, <1>10, <1>11, <1>12, <1>13

\* The initial state has the types.
LEMMA InitType == Init => TypeOK
<1> SUFFICES ASSUME Init PROVE TypeOK
  OBVIOUS
<1> USE BoundsAssumption, CapacityAssumption
<1>1. /\ current \in 0 .. MaxRuns /\ opened \in 0 .. MaxRuns
  BY DEF Init
<1>2. crashed \in BOOLEAN
  BY DEF Init
<1>3. command \in [Runs -> Commands] /\ ended \in [Runs -> BOOLEAN]
  BY DEF Init, Commands
<1>4. author \in [Runs -> Seq(Sources)]
  BY DEF Init
<1>5. fan \in [Runs -> [Sources -> FanOut]]
  BY DEF Init, Rest, FanOut
<1>6. /\ subs \in [Runs -> SUBSET Viewers] /\ ending \in [Runs -> SUBSET Viewers]
      /\ view \in [Viewers -> Views]
      /\ on \in [Viewers -> 0 .. MaxRuns]
  BY DEF Init, Views
<1>7. /\ chan \in [Viewers -> Seq(Nat)] /\ since \in [Viewers -> Nat]
      /\ \A v \in Viewers : Len(chan[v]) <= Capacity
  BY DEF Init
<1>8. seen \in [Viewers -> SUBSET Nat] /\ dropped \in [Viewers -> SUBSET Nat]
  BY DEF Init
<1>q. QED
  BY <1>1, <1>4, <1>5, <1>6, <1>7, <1>8, <1>3, <1>2 DEF TypeOK, FanOut

\* No step takes a variable out of its type.
LEMMA TypeStep == TypeOK /\ [Next]_vars => TypeOK'
<1> SUFFICES ASSUME TypeOK, [Next]_vars PROVE TypeOK'
  OBVIOUS
<1> USE BoundsAssumption, CapacityAssumption DEF Runs
<1> USE DEF stream, viewer
<1>1. CASE UNCHANGED vars
  BY <1>1 DEF TypeOK, vars
<1>2. CASE Open
  BY <1>2 DEF Open, TypeOK, Commands
<1>3. CASE Delete
  BY <1>3 DEF Delete, EndStream, TypeOK
<1>4. ASSUME NEW s \in Runs, StartCommand(s) PROVE TypeOK'
  BY <1>4 DEF StartCommand, TypeOK, Commands
<1>5. ASSUME NEW s \in Runs, CommandExits(s) PROVE TypeOK'
  BY <1>5 DEF CommandExits, TypeOK, Commands
<1>6. ASSUME NEW s \in Runs, Reap(s) PROVE TypeOK'
  BY <1>6 DEF Reap, EndStream, TypeOK, Commands
<1>7. ASSUME NEW s \in Runs, NEW src \in Sources, AppendChunk(s, src)
      PROVE  TypeOK'
  <2>1. author[s] \o << src >> \in Seq(Sources)
    BY AddedLast DEF TypeOK
  <2>2. author' \in [Runs -> Seq(Sources)]
    BY <1>7, <2>1 DEF AppendChunk, TypeOK
  <2>3. Size(s) + 1 \in Nat
    BY DEF Size, TypeOK
  <2>4. fan' \in [Runs -> [Sources -> [chunk : Nat, left : SUBSET Viewers]]]
    BY <1>7, <2>3 DEF AppendChunk, TypeOK
  <2>q. QED
    BY <1>7, <2>2, <2>4 DEF AppendChunk, TypeOK
<1>8. ASSUME NEW s \in Runs, NEW src \in Sources, Delivered(s, src)
      PROVE  TypeOK'
  BY <1>8 DEF Delivered, Rest, TypeOK
<1>9. ASSUME NEW s \in Runs, NEW src \in Sources, NEW v \in Viewers,
             Deliver(s, src, v)
      PROVE  TypeOK'
  <2>1. fan[s][src].chunk \in Nat
    BY DEF TypeOK
  <2>2. fan' \in [Runs -> [Sources -> FanOut]]
    BY <1>9, DeliverEffect
  <2>3. /\ chan' \in [Viewers -> Seq(Nat)]
        /\ dropped' \in [Viewers -> SUBSET Nat]
        /\ \A w \in Viewers : Len(chan'[w]) <= Capacity
    BY <1>9, <2>1, SendEffect DEF Deliver
  <2>q. QED
    BY <1>9, <2>2, <2>3 DEF Deliver, TypeOK, FanOut
<1>10. ASSUME NEW s \in Runs, NEW v \in Viewers, Notify(s, v) PROVE TypeOK'
  <2>1. /\ chan' \in [Viewers -> Seq(Nat)]
        /\ dropped' \in [Viewers -> SUBSET Nat]
        /\ \A w \in Viewers : Len(chan'[w]) <= Capacity
    BY <1>10, SendEffect DEF Notify, End
  <2>q. QED
    BY <1>10, <2>1 DEF Notify, TypeOK
<1>11. ASSUME NEW v \in Viewers, Connect(v) PROVE TypeOK'
  BY <1>11 DEF Connect, Move, TypeOK, Views
<1>12. ASSUME NEW v \in Viewers, Snapshot(v) PROVE TypeOK'
  BY <1>12 DEF Snapshot, Move, TypeOK, Views, Size
<1>13. ASSUME NEW v \in Viewers, SubscribeGone(v) PROVE TypeOK'
  BY <1>13 DEF SubscribeGone, Move, TypeOK, Views
<1>14. ASSUME NEW v \in Viewers, Subscribe(v) PROVE TypeOK'
  <2>1. /\ current \in Runs /\ Size(current) \in Nat
        /\ fan' \in [Runs -> [Sources -> FanOut]]
        /\ subs' \in [Runs -> SUBSET Viewers]
        /\ ending' \in [Runs -> SUBSET Viewers]
        /\ view' \in [Viewers -> Views]
        /\ on' = [on EXCEPT ![v] = current]
        /\ since' = [since EXCEPT ![v] = Size(current)]
    BY <1>14, SubscribeEffect
  <2>2. UNCHANGED << stream, chan, seen, dropped, crashed >>
    BY <1>14 DEF Subscribe
  <2>q. QED
    BY <2>1, <2>2 DEF TypeOK, FanOut
<1>15. ASSUME NEW v \in Viewers, Notice(v) PROVE TypeOK'
  <2>1. /\ chan' \in [Viewers -> Seq(Nat)]
        /\ dropped' \in [Viewers -> SUBSET Nat]
        /\ \A w \in Viewers : Len(chan'[w]) <= Capacity
    BY <1>15, SendEffect DEF Notice, End
  <2>q. QED
    BY <1>15, <2>1 DEF Notice, Move, TypeOK, Views
<1>16. ASSUME NEW v \in Viewers, Receive(v) PROVE TypeOK'
  <2>1. /\ Tail(chan[v]) \in Seq(Nat) /\ Head(chan[v]) \in Nat
        /\ Len(Tail(chan[v])) <= Capacity
    BY <1>16, TakenFirst DEF Receive, TypeOK
  <2>q. QED
    BY <1>16, <2>1 DEF Receive, TypeOK, Views
<1>17. ASSUME NEW v \in Viewers, Disconnect(v) PROVE TypeOK'
  BY <1>17 DEF Disconnect, Move, TypeOK, Views
<1>18. ASSUME NEW v \in Viewers, Unsubscribe(v) PROVE TypeOK'
  <2>1. fan' \in [Runs -> [Sources -> FanOut]]
    BY <1>18, UnsubscribeEffect
  <2>2. view' \in [Viewers -> Views]
    BY <1>18 DEF Unsubscribe, Move, TypeOK, Views
  <2>3. subs' \in [Runs -> SUBSET Viewers] /\ ending' \in [Runs -> SUBSET Viewers]
    BY <1>18 DEF Unsubscribe, TypeOK
  <2>4. /\ chan' \in [Viewers -> Seq(Nat)]
        /\ \A w \in Viewers : Len(chan'[w]) <= Capacity
    BY <1>18 DEF Unsubscribe, TypeOK
  <2>5. /\ on' \in [Viewers -> 0 .. MaxRuns] /\ since' \in [Viewers -> Nat]
        /\ seen' \in [Viewers -> SUBSET Nat]
        /\ dropped' \in [Viewers -> SUBSET Nat]
    BY <1>18 DEF Unsubscribe, TypeOK
  <2>q. QED
    BY <1>18, <2>1, <2>2, <2>3, <2>4, <2>5 DEF Unsubscribe, TypeOK, FanOut
<1>19. ASSUME NEW v \in Viewers, MapFault(v) PROVE TypeOK'
  BY <1>19 DEF MapFault, TypeOK, Commands, Views, Rest
<1>q. QED
  BY <1>1, <1>2, <1>3, <1>4, <1>5, <1>6, <1>7, <1>8, <1>9, <1>10, <1>11, <1>12,
     <1>13, <1>14, <1>15, <1>16, <1>17, <1>18, <1>19
     DEF Next, Walk, Handling

-----------------------------------------------------------------------------
\* What is sent is queued or dropped, and nothing that was queued goes.
LEMMA SendQueues ==
  ASSUME TypeOK, NEW v \in Viewers, NEW c \in Nat, Send(v, c)
  PROVE  /\ Queued(v) \subseteq Queued(v)'
         /\ Queued(v)' \subseteq Queued(v) \cup {c}
         /\ dropped[v] \subseteq dropped'[v]
         /\ c \in Queued(v)' \cup dropped'[v]
         /\ \A w \in Viewers \ {v} : /\ Queued(w)' = Queued(w)
                                    /\ dropped'[w] = dropped[w]
<1> DEFINE q == chan[v]
<1>1. q \in Seq(Nat) /\ Len(q) \in Nat
  BY DEF TypeOK
<1>w. \A w \in Viewers \ {v} : /\ Queued(w)' = Queued(w)
                              /\ dropped'[w] = dropped[w]
  <2> SUFFICES ASSUME NEW w \in Viewers \ {v}
               PROVE  Queued(w)' = Queued(w) /\ dropped'[w] = dropped[w]
    OBVIOUS
  <2>1. chan'[w] = chan[w] /\ dropped'[w] = dropped[w]
    BY SendEffect
  <2>q. QED
    BY <2>1 DEF Queued
<1>2. CASE chan'[v] = q \o << c >> /\ dropped'[v] = dropped[v]
  <2>1. /\ Len(chan'[v]) = Len(q) + 1
        /\ \A i \in 1 .. Len(q) : chan'[v][i] = q[i]
        /\ chan'[v][Len(q) + 1] = c
    BY <1>1, <1>2, AddedLast
  <2>2. Queued(v) \subseteq Queued(v)'
    BY <1>1, <2>1 DEF Queued
  <2>3. c \in Queued(v)'
    BY <1>1, <2>1 DEF Queued
  <2>4. Queued(v)' \subseteq Queued(v) \cup {c}
    <3> SUFFICES ASSUME NEW i \in 1 .. Len(chan'[v])
                 PROVE  chan'[v][i] \in Queued(v) \cup {c}
      BY DEF Queued
    <3>1. i \in 1 .. Len(q) \/ i = Len(q) + 1
      BY <1>1, <2>1
    <3>q. QED
      BY <2>1, <3>1 DEF Queued
  <2>q. QED
    BY <1>2, <1>w, <2>2, <2>3, <2>4
<1>3. CASE chan'[v] = q /\ dropped'[v] = dropped[v] \cup {c}
  <2>1. Queued(v)' = Queued(v)
    BY <1>3 DEF Queued
  <2>q. QED
    BY <1>3, <1>w, <2>1
<1>q. QED
  BY <1>2, <1>3, SendEffect

\* What leaves a channel has been received.
LEMMA ReceiveEffect ==
  ASSUME TypeOK, NEW v \in Viewers, Receive(v)
  PROVE  /\ Queued(v)' \subseteq Queued(v)
         /\ Queued(v) \subseteq Queued(v)' \cup seen'[v]
         /\ seen[v] \subseteq seen'[v]
         /\ Len(chan'[v]) = Len(chan[v]) - 1 /\ Len(chan[v]) \in Nat \ {0}
         /\ \A i \in 1 .. Len(chan'[v]) : chan'[v][i] = chan[v][i + 1]
         /\ \A w \in Viewers \ {v} :
               /\ chan'[w] = chan[w] /\ seen'[w] = seen[w] /\ view'[w] = view[w]
               /\ Queued(w)' = Queued(w)
         /\ view[v] = "follow" /\ view'[v] \in {"follow", "leave"}
<1> DEFINE q == chan[v]
<1>1. q \in Seq(Nat) /\ q # << >>
  BY DEF TypeOK, Receive
<1>2. /\ chan' = [chan EXCEPT ![v] = Tail(q)]
      /\ seen' = [seen EXCEPT ![v] = seen[v] \cup {Head(q)}]
      /\ view[v] = "follow"
      /\ view' = [view EXCEPT ![v] = IF Head(q) = End THEN "leave"
                                     ELSE view[v]]
  BY DEF Receive
<1>3. /\ Head(q) = q[1] /\ Len(q) \in Nat \ {0}
      /\ Len(Tail(q)) = Len(q) - 1
      /\ \A i \in 1 .. Len(Tail(q)) : Tail(q)[i] = q[i + 1]
  BY <1>1, TakenFirst
<1>4. chan'[v] = Tail(q) /\ seen'[v] = seen[v] \cup {q[1]}
  BY <1>2, <1>3 DEF TypeOK
<1>5. Queued(v)' \subseteq Queued(v)
  <2> SUFFICES ASSUME NEW i \in 1 .. Len(chan'[v])
               PROVE  chan'[v][i] \in Queued(v)
    BY DEF Queued
  <2>1. chan'[v][i] = q[i + 1] /\ i + 1 \in 1 .. Len(q)
    BY <1>3, <1>4
  <2>q. QED
    BY <2>1 DEF Queued
<1>6. Queued(v) \subseteq Queued(v)' \cup seen'[v]
  <2> SUFFICES ASSUME NEW i \in 1 .. Len(q)
               PROVE  q[i] \in Queued(v)' \cup seen'[v]
    BY DEF Queued
  <2>1. CASE i = 1
    BY <1>4, <2>1
  <2>2. CASE i # 1
    <3>1. i - 1 \in 1 .. Len(chan'[v]) /\ chan'[v][i - 1] = q[(i - 1) + 1]
      BY <1>3, <1>4, <2>2
    <3>2. (i - 1) + 1 = i
      OBVIOUS
    <3>q. QED
      BY <3>1, <3>2 DEF Queued
  <2>q. QED
    BY <2>1, <2>2
<1>7. \A w \in Viewers \ {v} :
         /\ chan'[w] = chan[w] /\ seen'[w] = seen[w] /\ view'[w] = view[w]
         /\ Queued(w)' = Queued(w)
  BY <1>2 DEF TypeOK, Queued
<1>q. QED
  BY <1>2, <1>3, <1>4, <1>5, <1>6, <1>7 DEF TypeOK

\* The buffer grows by one chunk, whose walk starts with every viewer.
LEMMA AppendEffect ==
  ASSUME TypeOK, NEW s \in Runs, NEW src \in Sources, AppendChunk(s, src)
  PROVE  /\ fan[s][src] = Rest
         /\ fan'[s][src].chunk = Size(s) + 1 /\ fan'[s][src].left = subs[s]
         /\ \A r \in Runs, x \in Sources :
               r # s \/ x # src => fan'[r][x] = fan[r][x]
         /\ Size(s) \in Nat /\ Size(s)' = Size(s) + 1
         /\ author'[s][Size(s) + 1] = src
         /\ \A c \in 1 .. Size(s) : author'[s][c] = author[s][c]
         /\ \A r \in Runs \ {s} : author'[r] = author[r]
<1>1. author[s] \in Seq(Sources) /\ Size(s) \in Nat
  BY DEF TypeOK, Size
<1>2. author' = [author EXCEPT ![s] = author[s] \o << src >>]
  BY DEF AppendChunk
<1>3. author'[s] = author[s] \o << src >>
  BY <1>2 DEF TypeOK
<1>4. /\ Size(s)' = Size(s) + 1
      /\ author'[s][Size(s) + 1] = src
      /\ \A c \in 1 .. Size(s) : author'[s][c] = author[s][c]
  BY <1>1, <1>3, AddedLast DEF Size
<1>5. /\ fan[s][src] = Rest
      /\ fan' = [fan EXCEPT ![s][src] = [chunk |-> Size(s) + 1, left |-> subs[s]]]
  BY DEF AppendChunk
<1>6. fan'[s][src] = [chunk |-> Size(s) + 1, left |-> subs[s]]
  BY <1>5 DEF TypeOK
<1>7. \A r \in Runs, x \in Sources :
         r # s \/ x # src => fan'[r][x] = fan[r][x]
  BY <1>5 DEF TypeOK
<1>q. QED
  BY <1>1, <1>2, <1>4, <1>5, <1>6, <1>7 DEF TypeOK

\* The viewer is in a map or a walk of the stream.
Attached(v, s) == \/ v \in subs[s] \cup ending[s]
                  \/ \E src \in Sources : v \in fan[s][src].left

\* Nobody stays in a map or a walk without being registered.
LEMMA AttachedStep ==
  ASSUME TypeOK, AttachedInv, [Next]_vars
  PROVE  AttachedInv'
<1> SUFFICES ASSUME NEW r \in Runs, NEW w \in Viewers, Attached(w, r)'
             PROVE  Registered(w)' /\ on'[w] = r
  BY DEF AttachedInv, Attached
<1>1. Attached(w, r) => Registered(w) /\ on[w] = r
  BY DEF AttachedInv, Attached
<1>2. ASSUME NEW s \in Runs, NEW src \in Sources, AppendChunk(s, src)
      PROVE  Attached(w, r) /\ UNCHANGED << view, on >>
  BY <1>2, AppendEffect DEF Attached, AppendChunk, viewer
<1>3. ASSUME NEW s \in Runs, NEW src \in Sources, NEW v \in Viewers,
             Deliver(s, src, v)
      PROVE  Attached(w, r) /\ UNCHANGED << view, on >>
  <2>1. UNCHANGED << subs, ending, view, on >>
    BY <1>3 DEF Deliver
  <2>2. \A x \in Sources :
           /\ r = s /\ x = src => fan'[r][x].left = fan[s][src].left \ {v}
           /\ r # s \/ x # src => fan'[r][x].left = fan[r][x].left
    BY <1>3, DeliverEffect
  <2>3. \A x \in Sources : fan'[r][x].left \subseteq fan[r][x].left
    BY <2>2
  <2>q. QED
    BY <2>1, <2>3 DEF Attached
<1>4. ASSUME NEW s \in Runs, NEW src \in Sources, Delivered(s, src)
      PROVE  Attached(w, r) /\ UNCHANGED << view, on >>
  BY <1>4 DEF Delivered, Attached, Rest, viewer, TypeOK
<1>5. ASSUME NEW s \in Runs, EndStream(s), UNCHANGED << subs, fan, view, on >>
      PROVE  Attached(w, r) /\ UNCHANGED << view, on >>
  BY <1>5 DEF EndStream, Attached, TypeOK
<1>6. ASSUME NEW s \in Runs, NEW v \in Viewers, Notify(s, v)
      PROVE  Attached(w, r) /\ UNCHANGED << view, on >>
  BY <1>6 DEF Notify, Attached, TypeOK
<1>7. ASSUME NEW v \in Viewers, Subscribe(v)
      PROVE  Registered(w)' /\ on'[w] = r
  <2>1. CASE w # v
    <3>1. Attached(w, r)
      <4>1. CASE r = current
        BY <1>7, <2>1, <4>1, SubscribeEffect DEF Attached
      <4>2. CASE r # current
        BY <1>7, <2>1, <4>2, SubscribeEffect DEF Attached
      <4>q. QED
        BY <4>1, <4>2
    <3>2. view'[w] = view[w] /\ on'[w] = on[w]
      BY <1>7, <2>1, SubscribeEffect DEF TypeOK
    <3>q. QED
      BY <1>1, <3>1, <3>2 DEF Registered
  <2>2. CASE w = v
    <3>1. ~Attached(v, r)
      BY <1>7, <1>1, <2>2, SubscribeEffect DEF Registered
    <3>2. r = current
      BY <1>7, <2>2, <3>1, SubscribeEffect DEF Attached
    <3>q. QED
      BY <1>7, <2>2, <3>2, SubscribeEffect DEF Registered, TypeOK
  <2>q. QED
    BY <2>1, <2>2
<1>8. ASSUME NEW v \in Viewers, Unsubscribe(v)
      PROVE  Registered(w)' /\ on'[w] = r
  <2>1. /\ subs' = [subs EXCEPT ![on[v]] = subs[on[v]] \ {v}]
        /\ ending' = [ending EXCEPT ![on[v]] = ending[on[v]] \ {v}]
        /\ view' = [view EXCEPT ![v] = "off"] /\ on' = [on EXCEPT ![v] = 0]
    BY <1>8 DEF Unsubscribe, Move
  <2>2. \A x \in Sources :
           /\ r = on[v] => fan'[r][x].left = fan[r][x].left \ {v}
           /\ r # on[v] => fan'[r][x].left = fan[r][x].left
    BY <1>8, UnsubscribeEffect
  <2>3. /\ subs'[r] = IF r = on[v] THEN subs[r] \ {v} ELSE subs[r]
        /\ ending'[r] = IF r = on[v] THEN ending[r] \ {v} ELSE ending[r]
    BY <2>1 DEF TypeOK
  <2>4. Attached(w, r)
    BY <2>2, <2>3 DEF Attached
  <2>5. w # v
    BY <1>1, <2>2, <2>3, <2>4 DEF Attached
  <2>q. QED
    BY <1>1, <2>1, <2>4, <2>5 DEF Registered, TypeOK
<1>9. ASSUME NEW v \in Viewers, Receive(v)
      PROVE  Registered(w)' /\ on'[w] = r
  <2>1. Attached(w, r) /\ on' = on
    BY <1>9 DEF Receive, Attached
  <2>q. QED
    BY <1>9, <1>1, <2>1, ReceiveEffect DEF Registered
<1>10. ASSUME NEW v \in Viewers, Notice(v) \/ Disconnect(v)
      PROVE  Registered(w)' /\ on'[w] = r
  BY <1>10, <1>1 DEF Notice, Disconnect, Move, Attached, Registered, TypeOK
<1>11. ASSUME NEW v \in Viewers, Connect(v) \/ Snapshot(v) \/ SubscribeGone(v)
       PROVE  Registered(w)' /\ on'[w] = r
  <2>1. Attached(w, r)
    BY <1>11 DEF Connect, Snapshot, SubscribeGone, Attached
  <2>2. w # v
    BY <1>11, <1>1, <2>1 DEF Connect, Snapshot, SubscribeGone, Move, Registered
  <2>q. QED
    BY <1>11, <1>1, <2>1, <2>2
       DEF Connect, Snapshot, SubscribeGone, Move, Registered, TypeOK
<1>12. ASSUME NEW v \in Viewers, MapFault(v) PROVE FALSE
  BY <1>12 DEF MapFault, Attached, Rest
<1>13. \/ UNCHANGED << subs, fan, ending, view, on >>
       \/ \E s \in Runs : /\ EndStream(s)
                          /\ UNCHANGED << subs, fan, view, on >>
       \/ \E s \in Runs, src \in Sources :
             \/ AppendChunk(s, src) \/ Delivered(s, src)
             \/ \E v \in Viewers : Deliver(s, src, v)
       \/ \E s \in Runs, v \in Viewers : Notify(s, v)
       \/ \E v \in Viewers :
             \/ Subscribe(v) \/ Unsubscribe(v) \/ Receive(v) \/ Notice(v)
             \/ Disconnect(v) \/ Connect(v) \/ Snapshot(v) \/ SubscribeGone(v)
             \/ MapFault(v)
  <2>1. CASE Delete
    <3>1. current \in Runs
      BY <2>1 DEF Delete, TypeOK, Runs
    <3>q. QED
      BY <2>1, <3>1 DEF Delete, viewer
  <2>q. QED
    BY <2>1 DEF Next, Walk, Handling, vars, viewer, Open, StartCommand,
                CommandExits, Reap
<1>14. Attached(w, r) /\ UNCHANGED << view, on >> => Registered(w)' /\ on'[w] = r
  BY <1>1 DEF Registered
<1>15. UNCHANGED << subs, fan, ending, view, on >>
       => Attached(w, r) /\ UNCHANGED << view, on >>
  BY DEF Attached
<1>q. QED
  BY <1>2, <1>3, <1>4, <1>5, <1>6, <1>7, <1>8, <1>9, <1>10, <1>11, <1>12, <1>13,
     <1>14, <1>15

\* A viewer that follows has just subscribed or followed the same stream before.
LEMMA FollowedBefore ==
  ASSUME TypeOK, [Next]_vars, NEW w \in Viewers, Following(w)'
  PROVE  \/ Subscribe(w)
         \/ /\ Following(w) /\ on'[w] = on[w] /\ since'[w] = since[w]
            /\ seen[w] \subseteq seen'[w] /\ dropped[w] \subseteq dropped'[w]
<1> DEFINE Same == /\ Following(w) /\ on'[w] = on[w] /\ since'[w] = since[w]
                   /\ seen[w] \subseteq seen'[w]
                   /\ dropped[w] \subseteq dropped'[w]
<1> SUFFICES ASSUME ~Subscribe(w) PROVE Same
  OBVIOUS
<1>1. CASE UNCHANGED << view, on, since, seen, dropped >>
  BY <1>1 DEF Following
<1>2. ASSUME NEW s \in Runs, NEW v \in Viewers, Walk(s, v) PROVE Same
  <2>1. \E c \in Nat : Send(v, c)
    <3>1. CASE Notify(s, v)
      BY <3>1 DEF Notify, End
    <3>2. ASSUME NEW src \in Sources, Deliver(s, src, v)
          PROVE  \E c \in Nat : Send(v, c)
      <4>1. fan[s][src].chunk \in Nat
        BY DEF TypeOK
      <4>2. Send(v, fan[s][src].chunk)
        BY <3>2 DEF Deliver
      <4>q. QED
        BY <4>1, <4>2
    <3>q. QED
      BY <1>2, <3>1, <3>2 DEF Walk
  <2>2. UNCHANGED << view, on, since, seen >>
    BY <1>2 DEF Walk, Notify, Deliver
  <2>3. dropped[w] \subseteq dropped'[w]
    BY <2>1, SendQueues
  <2>q. QED
    BY <2>2, <2>3 DEF Following
<1>3. ASSUME NEW v \in Viewers, Subscribe(v) PROVE Same
  <2>1. v # w
    BY <1>3
  <2>2. view'[w] = view[w] /\ on'[w] = on[w] /\ since'[w] = since[w]
    BY <1>3, <2>1, SubscribeEffect DEF TypeOK
  <2>q. QED
    BY <1>3, <2>2 DEF Subscribe, Following
<1>4. ASSUME NEW v \in Viewers, Notice(v) PROVE Same
  <2>1. Send(v, End) /\ UNCHANGED << on, since, seen >>
    BY <1>4 DEF Notice
  <2>2. dropped[w] \subseteq dropped'[w]
    BY <2>1, SendEffect, SendQueues DEF End
  <2>3. Following(w)
    BY <1>4 DEF Notice, Move, Following, TypeOK
  <2>q. QED
    BY <2>1, <2>2, <2>3
<1>5. ASSUME NEW v \in Viewers, Receive(v) PROVE Same
  <2>1. UNCHANGED << on, since, dropped >>
    BY <1>5 DEF Receive
  <2>2. seen[w] \subseteq seen'[w] /\ (view'[w] = view[w] \/ view[w] = "follow")
    BY <1>5, ReceiveEffect
  <2>q. QED
    BY <2>1, <2>2 DEF Following
<1>6. ASSUME NEW v \in Viewers, Disconnect(v) \/ Connect(v) PROVE Same
  BY <1>6 DEF Disconnect, Connect, Move, Following, TypeOK
<1>7. ASSUME NEW v \in Viewers, Snapshot(v) PROVE Same
  BY <1>7 DEF Snapshot, Move, Following, TypeOK
<1>8. ASSUME NEW v \in Viewers, SubscribeGone(v) PROVE Same
  BY <1>8 DEF SubscribeGone, Move, Following, TypeOK
<1>9. ASSUME NEW v \in Viewers, Unsubscribe(v) PROVE Same
  <2>1. view' = [view EXCEPT ![v] = "off"]
    BY <1>9 DEF Unsubscribe, Move
  <2>2. w # v
    BY <2>1 DEF Following, TypeOK
  <2>q. QED
    BY <1>9, <2>1, <2>2 DEF Unsubscribe, Following, TypeOK
<1>10. ASSUME NEW v \in Viewers, MapFault(v) PROVE Same
  BY <1>10 DEF MapFault, Following
<1>q. QED
  BY <1>1, <1>2, <1>3, <1>4, <1>5, <1>6, <1>7, <1>8, <1>9, <1>10
     DEF Next, Handling, vars, viewer, Open, Delete, StartCommand,
         CommandExits, Reap, AppendChunk, Delivered

\* No step but its own takes a viewer that follows out of the map.
LEMMA MemberStep ==
  ASSUME TypeOK, MemberInv, [Next]_vars
  PROVE  MemberInv'
<1> SUFFICES ASSUME NEW w \in Viewers, Following(w)'
             PROVE  on'[w] \in Runs /\ w \in subs'[on'[w]]
  BY DEF MemberInv
<1>1. CASE Subscribe(w)
  BY <1>1, SubscribeEffect DEF TypeOK
<1>2. CASE Following(w) /\ on'[w] = on[w]
  <2>1. on[w] \in Runs /\ w \in subs[on[w]]
    BY <1>2 DEF MemberInv
  <2>2. ASSUME NEW v \in Viewers, Subscribe(v)
        PROVE  subs[on[w]] \subseteq subs'[on[w]]
    BY <2>1, <2>2, SubscribeEffect
  <2>3. ASSUME NEW v \in Viewers, Unsubscribe(v) PROVE w \in subs'[on[w]]
    <3>1. /\ subs' = [subs EXCEPT ![on[v]] = subs[on[v]] \ {v}]
          /\ view'[v] = "off"
      BY <2>3 DEF Unsubscribe, Move, TypeOK
    <3>2. w # v
      BY <3>1 DEF Following
    <3>q. QED
      BY <2>1, <3>1, <3>2 DEF TypeOK
  <2>4. ASSUME NEW v \in Viewers, MapFault(v) PROVE FALSE
    BY <2>4 DEF MapFault, Following
  <2>5. \/ subs' = subs
        \/ \E v \in Viewers : Subscribe(v) \/ Unsubscribe(v) \/ MapFault(v)
    BY DEF Next, Walk, Handling, vars, viewer, Open, Delete, StartCommand,
           CommandExits, Reap, AppendChunk, Deliver, Delivered, Notify,
           Connect, Snapshot, SubscribeGone, Notice, Receive, Disconnect
  <2>q. QED
    BY <1>2, <2>1, <2>2, <2>3, <2>4, <2>5
<1>q. QED
  BY <1>1, <1>2, FollowedBefore

\* What has become of a chunk a viewer was to get.
LEMMA InFlightStays ==
  ASSUME TypeOK, [Next]_vars, NEW w \in Viewers, NEW r \in Runs,
         Following(w), Following(w)'
  PROVE  Queued(w) \cup InFlight(r, w)
           \subseteq Queued(w)' \cup seen'[w] \cup dropped'[w] \cup InFlight(r, w)'
<1> DEFINE Kept == Queued(w) \cup InFlight(r, w)
                     \subseteq Queued(w)' \cup seen'[w] \cup dropped'[w]
                                 \cup InFlight(r, w)'
<1>1. CASE UNCHANGED << chan, fan >>
  BY <1>1 DEF Queued, InFlight
<1>2. ASSUME NEW s \in Runs, NEW src \in Sources, AppendChunk(s, src)
      PROVE  Kept
  <2>1. Queued(w)' = Queued(w)
    BY <1>2 DEF AppendChunk, viewer, Queued
  <2>2. \A x \in Sources : w \in fan[r][x].left => fan'[r][x] = fan[r][x]
    <3> SUFFICES ASSUME NEW x \in Sources, w \in fan[r][x].left
                 PROVE  fan'[r][x] = fan[r][x]
      OBVIOUS
    <3>1. r # s \/ x # src
      BY <1>2, AppendEffect DEF Rest
    <3>q. QED
      BY <1>2, <3>1, AppendEffect
  <2>3. InFlight(r, w) \subseteq InFlight(r, w)'
    BY <2>2 DEF InFlight
  <2>q. QED
    BY <2>1, <2>3
<1>3. ASSUME NEW s \in Runs, NEW src \in Sources, NEW v \in Viewers,
             Deliver(s, src, v)
      PROVE  Kept
  <2>1. Send(v, fan[s][src].chunk) /\ fan[s][src].chunk \in Nat
    BY <1>3 DEF Deliver, TypeOK
  <2>2. /\ Queued(w) \subseteq Queued(w)'
        /\ w = v => fan[s][src].chunk \in Queued(w)' \cup dropped'[w]
    BY <2>1, SendQueues
  <2>3. \A x \in Sources : /\ fan'[r][x].chunk = fan[r][x].chunk
                           /\ r # s \/ x # src \/ w # v =>
                                (w \in fan[r][x].left => w \in fan'[r][x].left)
    <3> SUFFICES ASSUME NEW x \in Sources
                 PROVE  /\ fan'[r][x].chunk = fan[r][x].chunk
                        /\ r # s \/ x # src \/ w # v =>
                                (w \in fan[r][x].left => w \in fan'[r][x].left)
      OBVIOUS
    <3>1. /\ fan'[r][x].chunk = fan[r][x].chunk
          /\ r = s /\ x = src => fan'[r][x].left = fan[s][src].left \ {v}
          /\ r # s \/ x # src => fan'[r][x].left = fan[r][x].left
      BY <1>3, DeliverEffect
    <3>q. QED
      BY <3>1
  <2>4. \A x \in Sources : w \in fan[r][x].left =>
           fan[r][x].chunk \in Queued(w)' \cup dropped'[w] \cup InFlight(r, w)'
    <3> SUFFICES ASSUME NEW x \in Sources, w \in fan[r][x].left
                 PROVE  fan[r][x].chunk \in Queued(w)' \cup dropped'[w]
                                              \cup InFlight(r, w)'
      OBVIOUS
    <3>1. CASE r = s /\ x = src /\ w = v
      BY <2>2, <3>1
    <3>2. CASE r # s \/ x # src \/ w # v
      BY <2>3, <3>2 DEF InFlight
    <3>q. QED
      BY <3>1, <3>2
  <2>q. QED
    BY <2>2, <2>4 DEF InFlight
<1>4. ASSUME NEW s \in Runs, NEW src \in Sources, Delivered(s, src) PROVE Kept
  <2>1. Queued(w)' = Queued(w)
    BY <1>4 DEF Delivered, viewer, Queued
  <2>2. \A x \in Sources : w \in fan[r][x].left => fan'[r][x] = fan[r][x]
    BY <1>4 DEF Delivered, TypeOK
  <2>q. QED
    BY <2>1, <2>2 DEF InFlight
<1>5. ASSUME NEW v \in Viewers, Send(v, End), UNCHANGED fan PROVE Kept
  <2>1. Queued(w) \subseteq Queued(w)'
    BY <1>5, SendQueues DEF End
  <2>q. QED
    BY <1>5, <2>1 DEF InFlight
<1>6. ASSUME NEW v \in Viewers, Receive(v) PROVE Kept
  <2>1. Queued(w) \subseteq Queued(w)' \cup seen'[w] /\ UNCHANGED fan
    BY <1>6, ReceiveEffect DEF Receive
  <2>q. QED
    BY <2>1 DEF InFlight
<1>7. ASSUME NEW v \in Viewers, Subscribe(v) PROVE Kept
  <2>1. Queued(w)' = Queued(w)
    BY <1>7 DEF Subscribe, Queued
  <2>2. \A x \in Sources : /\ fan'[r][x].chunk = fan[r][x].chunk
                           /\ fan[r][x].left \subseteq fan'[r][x].left
    BY <1>7, SubscribeEffect
  <2>q. QED
    BY <2>1, <2>2 DEF InFlight
<1>8. ASSUME NEW v \in Viewers, Unsubscribe(v) PROVE Kept
  <2>1. view'[v] = "off" /\ chan' = [chan EXCEPT ![v] = << >>]
    BY <1>8 DEF Unsubscribe, Move, TypeOK
  <2>2. w # v
    BY <2>1 DEF Following
  <2>3. Queued(w)' = Queued(w)
    BY <2>1, <2>2 DEF Queued, TypeOK
  <2>4. \A x \in Sources : /\ fan'[r][x].chunk = fan[r][x].chunk
                           /\ fan[r][x].left \ {v} \subseteq fan'[r][x].left
    BY <1>8, UnsubscribeEffect
  <2>q. QED
    BY <2>2, <2>3, <2>4 DEF InFlight
<1>9. ASSUME NEW v \in Viewers, MapFault(v) PROVE FALSE
  BY <1>9 DEF MapFault, Following
<1>q. QED
  BY <1>1, <1>2, <1>3, <1>4, <1>5, <1>6, <1>7, <1>8, <1>9
     DEF Next, Walk, Handling, vars, viewer, Open, Delete, StartCommand,
         CommandExits, Reap, Notify, Connect, Snapshot, SubscribeGone, Notice,
         Disconnect

\* How the buffer of a stream grows.
LEMMA SizeStep ==
  ASSUME TypeOK, [Next]_vars, NEW r \in Runs,
         NEW w \in Viewers, Following(w)'
  PROVE  /\ Size(r) \in Nat
         /\ \/ author'[r] = author[r]
            \/ \E src \in Sources : AppendChunk(r, src)
<1>1. Size(r) \in Nat
  BY DEF Size, TypeOK
<1>2. ASSUME NEW v \in Viewers, MapFault(v) PROVE FALSE
  BY <1>2 DEF MapFault, Following
<1>3. ASSUME NEW s \in Runs, NEW src \in Sources, AppendChunk(s, src), s # r
      PROVE  author'[r] = author[r]
  BY <1>3, AppendEffect
<1>4. author' = author \/ \E s \in Runs, src \in Sources : AppendChunk(s, src)
  BY <1>2 DEF Next, Walk, Handling, vars, stream, viewer, Open, Delete,
              StartCommand, CommandExits, Reap, Deliver, Delivered, Notify,
              Connect, Snapshot, SubscribeGone, Subscribe, Unsubscribe, Notice,
              Receive, Disconnect
<1>q. QED
  BY <1>1, <1>3, <1>4

\* A new chunk is on its way to every viewer; others stay where they were or
\* move on.
LEMMA NothingLostStep ==
  ASSUME TypeOK, TypeOK', MemberInv, NothingElseIsLost, [Next]_vars
  PROVE  NothingElseIsLost'
<1> DEFINE Has(w) == seen[w] \cup Queued(w) \cup dropped[w] \cup InFlight(on[w], w)
<1> SUFFICES ASSUME NEW w \in Viewers, Following(w)',
                    NEW c \in (since'[w] + 1 .. Size(on[w])')
             PROVE  c \in Has(w)'
  BY DEF NothingElseIsLost
<1>1. CASE Subscribe(w)
  <2>1. since'[w] = Size(current) /\ on'[w] = current /\ current \in Runs
        /\ Size(current) \in Nat
    BY <1>1, SubscribeEffect DEF TypeOK
  <2>2. author' = author
    BY <1>1 DEF Subscribe, stream
  <2>3. Size(on[w])' = Size(current)
    BY <2>1, <2>2 DEF Size
  <2>q. QED
    BY <2>1, <2>3
<1>2. CASE /\ Following(w) /\ on'[w] = on[w] /\ since'[w] = since[w]
           /\ seen[w] \subseteq seen'[w] /\ dropped[w] \subseteq dropped'[w]
  <2> DEFINE r == on[w]
  <2>1. r \in Runs /\ w \in subs[r] /\ since[w] \in Nat
    BY <1>2 DEF MemberInv, TypeOK
  <2>2. Has(w) \subseteq Has(w)'
    <3>1. Queued(w) \cup InFlight(r, w)
            \subseteq Queued(w)' \cup seen'[w] \cup dropped'[w]
                        \cup InFlight(on[w], w)'
      <4>1. InFlight(on[w], w)' = { (fan')[r][src].chunk :
                    src \in { x \in Sources : w \in (fan')[r][x].left } }
        BY <1>2 DEF InFlight
      <4>2. \A s \in Runs : Queued(w) \cup InFlight(s, w)
            \subseteq Queued(w)' \cup seen'[w] \cup dropped'[w]
                        \cup InFlight(s, w)'
        BY <1>2, InFlightStays
      <4>3. \A s \in Runs : Queued(w) \cup InFlight(s, w)
            \subseteq Queued(w)' \cup seen'[w] \cup dropped'[w]
               \cup { (fan')[s][src].chunk :
                        src \in { x \in Sources : w \in (fan')[s][x].left } }
        BY <4>2 DEF InFlight
      <4>q. QED
        BY <2>1, <4>1, <4>3
    <3>q. QED
      BY <1>2, <3>1
  <2>3. c \in since[w] + 1 .. Size(r) => c \in Has(w)'
    BY <1>2, <2>2 DEF NothingElseIsLost
  <2>4. Size(on[w])' = Len(author'[r])
    BY <1>2 DEF Size
  <2>5. CASE author'[r] = author[r]
    BY <1>2, <2>3, <2>4, <2>5 DEF Size
  <2>6. ASSUME NEW src \in Sources, AppendChunk(r, src) PROVE c \in Has(w)'
    <3>1. /\ Size(r) \in Nat /\ Len(author'[r]) = Size(r) + 1
          /\ (fan')[r][src].chunk = Size(r) + 1 /\ (fan')[r][src].left = subs[r]
      BY <2>1, <2>6, AppendEffect DEF Size
    <3>2. Size(r) + 1 \in Has(w)'
      BY <1>2, <2>1, <3>1 DEF InFlight
    <3>3. c \in since[w] + 1 .. Size(r) \/ c = Size(r) + 1
      BY <1>2, <2>1, <2>4, <3>1
    <3>q. QED
      BY <2>3, <3>2, <3>3
  <2>q. QED
    BY <2>1, <2>5, <2>6, SizeStep
<1>q. QED
  BY <1>1, <1>2, FollowedBefore

-----------------------------------------------------------------------------
\* What a step does to the channel and the registration of one viewer.
LEMMA ChannelStep ==
  ASSUME TypeOK, TypeOK', AttachedInv, [Next]_vars, NEW w \in Viewers
  PROVE  \/ chan'[w] = << >>
         \/ ~Registered(w) /\ chan'[w] = chan[w]
         \/ /\ Registered(w) /\ Registered(w)' /\ on'[w] = on[w]
            /\ \/ chan'[w] = chan[w]
               \/ chan'[w] = chan[w] \o << End >>
               \/ \E s \in Runs, src \in Sources :
                     /\ Deliver(s, src, w)
                     /\ chan'[w] = chan[w] \o << fan[s][src].chunk >>
               \/ /\ Len(chan'[w]) = Len(chan[w]) - 1
                  /\ \A i \in 1 .. Len(chan'[w]) : chan'[w][i] = chan[w][i + 1]
<1> DEFINE Goal ==
         \/ chan'[w] = << >>
         \/ ~Registered(w) /\ chan'[w] = chan[w]
         \/ /\ Registered(w) /\ Registered(w)' /\ on'[w] = on[w]
            /\ \/ chan'[w] = chan[w]
               \/ chan'[w] = chan[w] \o << End >>
               \/ \E s \in Runs, src \in Sources :
                     /\ Deliver(s, src, w)
                     /\ chan'[w] = chan[w] \o << fan[s][src].chunk >>
               \/ /\ Len(chan'[w]) = Len(chan[w]) - 1
                  /\ \A i \in 1 .. Len(chan'[w]) : chan'[w][i] = chan[w][i + 1]
<1> SUFFICES Goal
  OBVIOUS
<1>1. CASE UNCHANGED << view, on, chan >>
  BY <1>1 DEF Registered
<1>2. ASSUME NEW v \in Viewers, Registered(v), Send(v, End), UNCHANGED on,
             \/ view' = view
             \/ Move(v, "notice", "follow")
      PROVE  Goal
  <2>1. chan'[w] = chan[w] \/ chan'[w] = chan[w] \o << End >>
    <3>1. End \in Nat
      BY DEF End
    <3>2. CASE w = v
      BY <1>2, <3>1, <3>2, SendEffect
    <3>3. CASE w # v
      BY <1>2, <3>1, <3>3, SendEffect
    <3>q. QED
      BY <3>2, <3>3
  <2>2. Registered(w)' = Registered(w)
    BY <1>2 DEF Move, Registered, TypeOK
  <2>3. CASE Registered(w)
    BY <1>2, <2>1, <2>2, <2>3
  <2>4. CASE ~Registered(w)
    <3>1. w # v
      BY <1>2, <2>4
    <3>2. chan'[w] = chan[w]
      BY <1>2, <3>1, SendEffect DEF End
    <3>q. QED
      BY <2>4, <3>2
  <2>q. QED
    BY <2>3, <2>4
<1>3. ASSUME NEW s \in Runs, NEW src \in Sources, NEW v \in Viewers,
             Deliver(s, src, v)
      PROVE  Goal
  <2>1. /\ Send(v, fan[s][src].chunk) /\ fan[s][src].chunk \in Nat
        /\ UNCHANGED << view, on >>
    BY <1>3 DEF Deliver, TypeOK
  <2>2. CASE w # v
    BY <2>1, <2>2, SendEffect DEF Registered
  <2>3. CASE w = v
    <3>1. Registered(w) /\ Registered(w)' /\ on'[w] = on[w]
      BY <1>3, <2>1, <2>3 DEF AttachedInv, Deliver, Registered
    <3>2. \/ chan'[w] = chan[w]
          \/ chan'[w] = chan[w] \o << fan[s][src].chunk >>
      BY <2>1, <2>3, SendEffect
    <3>q. QED
      BY <1>3, <2>3, <3>1, <3>2
  <2>q. QED
    BY <2>2, <2>3
<1>4. ASSUME NEW v \in Viewers, Receive(v) PROVE Goal
  <2>1. on' = on
    BY <1>4 DEF Receive
  <2>2. CASE w = v
    <3>1. Registered(w) /\ Registered(w)'
      BY <1>4, <2>2, ReceiveEffect DEF Registered
    <3>2. /\ Len(chan'[w]) = Len(chan[w]) - 1
          /\ \A i \in 1 .. Len(chan'[w]) : chan'[w][i] = chan[w][i + 1]
      BY <1>4, <2>2, ReceiveEffect
    <3>q. QED
      BY <2>1, <3>1, <3>2
  <2>3. CASE w # v
    <3>1. chan'[w] = chan[w] /\ view'[w] = view[w]
      BY <1>4, <2>3, ReceiveEffect
    <3>q. QED
      BY <2>1, <3>1 DEF Registered
  <2>q. QED
    BY <2>2, <2>3
<1>5. ASSUME NEW v \in Viewers, Subscribe(v) PROVE Goal
  <2>1. chan' = chan
    BY <1>5 DEF Subscribe
  <2>2. CASE w = v
    BY <1>5, <2>1, <2>2, SubscribeEffect DEF Registered
  <2>3. CASE w # v
    <3>1. view'[w] = view[w] /\ on'[w] = on[w]
      <4>1. view'[w] = view[w] /\ on' = [on EXCEPT ![v] = current]
        BY <1>5, <2>3, SubscribeEffect
      <4>q. QED
        BY <2>3, <4>1 DEF TypeOK
    <3>q. QED
      BY <2>1, <3>1 DEF Registered
  <2>q. QED
    BY <2>2, <2>3
<1>6. ASSUME NEW v \in Viewers, Unsubscribe(v) PROVE Goal
  <2>1. /\ view' = [view EXCEPT ![v] = "off"] /\ on' = [on EXCEPT ![v] = 0]
        /\ chan' = [chan EXCEPT ![v] = << >>]
    BY <1>6 DEF Unsubscribe, Move
  <2>2. CASE w = v
    BY <2>1, <2>2 DEF TypeOK
  <2>3. CASE w # v
    <3>1. chan'[w] = chan[w] /\ view'[w] = view[w] /\ on'[w] = on[w]
      BY <2>1, <2>3 DEF TypeOK
    <3>q. QED
      BY <3>1 DEF Registered
  <2>q. QED
    BY <2>2, <2>3
<1>7. ASSUME NEW v \in Viewers,
             Connect(v) \/ Snapshot(v) \/ SubscribeGone(v) \/ Disconnect(v)
      PROVE  Goal
  <2>1. chan'[w] = chan[w]
    BY <1>7 DEF Connect, Snapshot, SubscribeGone, Disconnect
  <2>2. CASE Registered(w)
    <3>1. on'[w] = on[w]
      BY <1>7, <2>2 DEF Connect, Snapshot, SubscribeGone, Disconnect, Move,
                        Registered, TypeOK
    <3>2. Registered(w)'
      BY <1>7, <2>2 DEF Connect, Snapshot, SubscribeGone, Disconnect, Move,
                        Registered, TypeOK
    <3>q. QED
      BY <2>1, <2>2, <3>1, <3>2
  <2>q. QED
    BY <2>1, <2>2
<1>8. ASSUME NEW v \in Viewers, MapFault(v) PROVE Goal
  BY <1>8 DEF MapFault
<1>9. ASSUME NEW s \in Runs, NEW v \in Viewers, Notify(s, v) PROVE Goal
  <2>1. Registered(v)
    BY <1>9 DEF Notify, AttachedInv
  <2>q. QED
    BY <1>2, <1>9, <2>1 DEF Notify
<1>10. ASSUME NEW v \in Viewers, Notice(v) PROVE Goal
  <2>1. Registered(v)
    BY <1>10 DEF Notice, Move, Registered
  <2>q. QED
    BY <1>2, <1>10, <2>1 DEF Notice
<1>q. QED
  BY <1>1, <1>3, <1>4, <1>5, <1>6, <1>7, <1>8, <1>9, <1>10
     DEF Next, Walk, Handling, vars, viewer, Open, Delete, StartCommand,
         CommandExits, Reap, AppendChunk, Delivered

\* A buffer keeps what is in it until the server stops.
LEMMA BufferStep ==
  ASSUME TypeOK, [Next]_vars
  PROVE  \/ \E v \in Viewers : MapFault(v)
         \/ \A r \in Runs :
               /\ Size(r) \in Nat /\ Size(r)' \in Nat /\ Size(r) <= Size(r)'
               /\ \A c \in 1 .. Size(r) : author'[r][c] = author[r][c]
<1> DEFINE Kept == \A r \in Runs :
               /\ Size(r) \in Nat /\ Size(r)' \in Nat /\ Size(r) <= Size(r)'
               /\ \A c \in 1 .. Size(r) : author'[r][c] = author[r][c]
<1>1. \A r \in Runs : Size(r) \in Nat
  BY DEF Size, TypeOK
<1>2. CASE author' = author
  BY <1>1, <1>2 DEF Size
<1>3. ASSUME NEW s \in Runs, NEW src \in Sources, AppendChunk(s, src)
      PROVE  Kept
  <2> SUFFICES ASSUME NEW r \in Runs
               PROVE  /\ Size(r) \in Nat /\ Size(r)' \in Nat /\ Size(r) <= Size(r)'
                      /\ \A c \in 1 .. Size(r) : author'[r][c] = author[r][c]
    OBVIOUS
  <2>1. CASE r = s
    BY <1>3, <2>1, AppendEffect
  <2>2. CASE r # s
    <3>1. author'[r] = author[r]
      BY <1>3, <2>2, AppendEffect
    <3>q. QED
      BY <1>1, <3>1 DEF Size
  <2>q. QED
    BY <2>1, <2>2
<1>4. \/ author' = author \/ \E s \in Runs, src \in Sources : AppendChunk(s, src)
      \/ \E v \in Viewers : MapFault(v)
  BY DEF Next, Walk, Handling, vars, stream, viewer, Open, Delete,
         StartCommand, CommandExits, Reap, Deliver, Delivered, Notify, Connect,
         Snapshot, SubscribeGone, Subscribe, Unsubscribe, Notice, Receive,
         Disconnect
<1>q. QED
  BY <1>2, <1>3, <1>4

\* What a channel holds is in the buffer of the stream that is followed.
LEMMA QueueStep ==
  ASSUME TypeOK, TypeOK', AttachedInv, FanInv, QueueInv, [Next]_vars
  PROVE  QueueInv'
<1>1. CASE \E v \in Viewers : MapFault(v)
  BY <1>1 DEF MapFault, QueueInv
<1>2. CASE \A r \in Runs :
               /\ Size(r) \in Nat /\ Size(r)' \in Nat /\ Size(r) <= Size(r)'
               /\ \A c \in 1 .. Size(r) : author'[r][c] = author[r][c]
  <2> SUFFICES ASSUME NEW w \in Viewers
               PROVE  /\ (~Registered(w) => chan[w] = << >>)'
                      /\ \A i \in 1 .. Len(chan'[w]) : chan'[w][i] # End =>
                            on'[w] \in Runs /\ chan'[w][i] \in 1 .. Size(on[w])'
    BY DEF QueueInv
  <2>1. chan[w] \in Seq(Nat) /\ Len(chan[w]) \in Nat
    BY DEF TypeOK
  <2>2. CASE chan'[w] = << >>
    BY <2>2
  <2>3. CASE ~Registered(w) /\ chan'[w] = chan[w]
    <3>1. chan'[w] = << >>
      BY <2>3 DEF QueueInv
    <3>q. QED
      BY <3>1
  <2>4. CASE Registered(w)' /\ on'[w] = on[w]
    <3> DEFINE Fits(c) == c # End => on[w] \in Runs /\ c \in 1 .. Size(on[w])
    <3>1. \A c : Fits(c) =>
             (c # End => on'[w] \in Runs /\ c \in 1 .. Size(on[w])')
      <4>1. Size(on[w])' = Len(author'[on[w]])
        BY <2>4 DEF Size
      <4>2. on[w] \in Runs => /\ Size(on[w]) \in Nat
                              /\ Len(author'[on[w]]) \in Nat
                              /\ Size(on[w]) <= Len(author'[on[w]])
        BY <1>2 DEF Size
      <4>q. QED
        BY <2>4, <4>1, <4>2
    <3>2. \A i \in 1 .. Len(chan[w]) : Fits(chan[w][i])
      BY DEF QueueInv
    <3> HIDE DEF Fits
    <3>3. CASE chan'[w] = chan[w]
      BY <2>4, <3>1, <3>2, <3>3
    <3>4. ASSUME NEW c \in Nat, Fits(c), chan'[w] = chan[w] \o << c >>
          PROVE  \A i \in 1 .. Len(chan'[w]) : Fits(chan'[w][i])
      BY <2>1, <3>2, <3>4, AddedLast
    <3>5. CASE chan'[w] = chan[w] \o << End >>
      BY <2>4, <3>1, <3>4, <3>5 DEF Fits, End
    <3>6. ASSUME NEW s \in Runs, NEW src \in Sources, Deliver(s, src, w),
                 chan'[w] = chan[w] \o << fan[s][src].chunk >>
          PROVE  \A i \in 1 .. Len(chan'[w]) : Fits(chan'[w][i])
      <4>1. on[w] = s /\ w \in fan[s][src].left
        BY <3>6 DEF AttachedInv, Deliver
      <4>2. fan[s][src].chunk \in Nat
        BY DEF TypeOK
      <4>3. Fits(fan[s][src].chunk)
        BY <4>1 DEF FanInv, Fits, End
      <4>q. QED
        BY <3>4, <3>6, <4>2, <4>3
    <3>7. CASE /\ Len(chan'[w]) = Len(chan[w]) - 1
               /\ \A i \in 1 .. Len(chan'[w]) : chan'[w][i] = chan[w][i + 1]
      <4>1. \A i \in 1 .. Len(chan'[w]) : Fits(chan'[w][i])
        <5> SUFFICES ASSUME NEW i \in 1 .. Len(chan'[w])
                     PROVE  Fits(chan'[w][i])
          OBVIOUS
        <5>1. i + 1 \in 1 .. Len(chan[w]) /\ chan'[w][i] = chan[w][i + 1]
          BY <2>1, <3>7
        <5>q. QED
          BY <3>2, <5>1
      <4>q. QED
        BY <2>4, <3>1, <4>1
    <3>8. \/ chan'[w] = << >> \/ chan'[w] = chan[w]
          \/ chan'[w] = chan[w] \o << End >>
          \/ \E s \in Runs, src \in Sources :
                /\ Deliver(s, src, w)
                /\ chan'[w] = chan[w] \o << fan[s][src].chunk >>
          \/ /\ Len(chan'[w]) = Len(chan[w]) - 1
             /\ \A i \in 1 .. Len(chan'[w]) : chan'[w][i] = chan[w][i + 1]
      BY ChannelStep
    <3>q. QED
      BY <2>2, <2>4, <3>1, <3>3, <3>5, <3>6, <3>7, <3>8
  <2>q. QED
    BY <2>2, <2>3, <2>4, ChannelStep
<1>q. QED
  BY <1>1, <1>2, BufferStep

\* What a step does to the walk over the viewers that one source is in.
LEMMA WalkStep ==
  ASSUME TypeOK, [Next]_vars, NEW s \in Runs, NEW src \in Sources
  PROVE  \/ AppendChunk(s, src)
         \/ fan'[s][src] = Rest
         \/ /\ fan'[s][src].chunk = fan[s][src].chunk
            /\ \/ fan'[s][src].left \subseteq fan[s][src].left
               \/ \E v \in Viewers :
                     /\ Subscribe(v) /\ fan[s][src].chunk # 0
                     /\ fan'[s][src].left = fan[s][src].left \cup {v}
<1> DEFINE Same == /\ fan'[s][src].chunk = fan[s][src].chunk
                   /\ fan'[s][src].left \subseteq fan[s][src].left
<1>1. CASE fan' = fan
  BY <1>1
<1>2. ASSUME NEW r \in Runs, NEW x \in Sources, AppendChunk(r, x)
      PROVE  AppendChunk(s, src) \/ Same
  BY <1>2, AppendEffect
<1>3. ASSUME NEW r \in Runs, NEW x \in Sources, Delivered(r, x)
      PROVE  fan'[s][src] = Rest \/ Same
  BY <1>3 DEF Delivered, TypeOK
<1>4. ASSUME NEW r \in Runs, NEW x \in Sources, NEW v \in Viewers, Deliver(r, x, v)
      PROVE  Same
  <2>1. /\ fan'[s][src].chunk = fan[s][src].chunk
        /\ s = r /\ src = x => fan'[s][src].left = fan[r][x].left \ {v}
        /\ s # r \/ src # x => fan'[s][src].left = fan[s][src].left
    BY <1>4, DeliverEffect
  <2>q. QED
    BY <2>1
<1>5. ASSUME NEW v \in Viewers, Unsubscribe(v) PROVE Same
  BY <1>5, UnsubscribeEffect
<1>6. ASSUME NEW v \in Viewers, MapFault(v) PROVE fan'[s][src] = Rest
  BY <1>6 DEF MapFault
<1>7. ASSUME NEW v \in Viewers, Subscribe(v)
      PROVE  /\ fan'[s][src].chunk = fan[s][src].chunk
             /\ \/ fan'[s][src].left \subseteq fan[s][src].left
                \/ /\ fan[s][src].chunk # 0
                   /\ fan'[s][src].left = fan[s][src].left \cup {v}
  BY <1>7, SubscribeEffect
<1>8. \/ fan' = fan
      \/ \E r \in Runs, x \in Sources :
            \/ AppendChunk(r, x) \/ Delivered(r, x)
            \/ \E v \in Viewers : Deliver(r, x, v)
      \/ \E v \in Viewers : Subscribe(v) \/ Unsubscribe(v) \/ MapFault(v)
  BY DEF Next, Walk, Handling, vars, Open, Delete, StartCommand, CommandExits,
         Reap, Notify, Connect, Snapshot, SubscribeGone, Notice, Receive,
         Disconnect
<1>q. QED
  BY <1>1, <1>2, <1>3, <1>4, <1>5, <1>6, <1>7, <1>8

\* A viewer's channel gains a chunk of a source only from the source's own walk.
LEMMA GainStep ==
  ASSUME TypeOK, TypeOK', AttachedInv, FanInv, [Next]_vars,
         NEW s \in Runs, NEW src \in Sources, NEW w \in Viewers,
         w \in fan[s][src].left, w \in fan'[s][src].left,
         fan[s][src].chunk \notin Queued(w)
  PROVE  fan[s][src].chunk \notin Queued(w)'
<1> DEFINE c == fan[s][src].chunk
<1>1. /\ c \in Nat \ {0} /\ author[s][c] = src /\ on[w] = s
  BY DEF FanInv, TypeOK, AttachedInv
<1>2. chan[w] \in Seq(Nat) /\ Len(chan[w]) \in Nat
  BY DEF TypeOK
<1>3. CASE chan'[w] = << >>
  BY <1>3 DEF Queued
<1>4. CASE chan'[w] = chan[w]
  BY <1>4 DEF Queued
<1>5. ASSUME NEW d \in Nat, d # c, chan'[w] = chan[w] \o << d >>
      PROVE  c \notin Queued(w)'
  <2> SUFFICES ASSUME NEW i \in 1 .. Len(chan'[w]) PROVE chan'[w][i] # c
    BY DEF Queued
  <2>1. \/ i \in 1 .. Len(chan[w]) /\ chan'[w][i] = chan[w][i]
        \/ chan'[w][i] = d
    BY <1>2, <1>5, AddedLast
  <2>q. QED
    BY <1>5, <2>1 DEF Queued
<1>6. CASE chan'[w] = chan[w] \o << End >>
  BY <1>1, <1>5, <1>6 DEF End
<1>7. ASSUME NEW r \in Runs, NEW x \in Sources, Deliver(r, x, w),
             chan'[w] = chan[w] \o << fan[r][x].chunk >>
      PROVE  c \notin Queued(w)'
  <2>1. w \in fan[r][x].left /\ r = s
    BY <1>1, <1>7 DEF Deliver, AttachedInv
  <2>2. x # src
    <3>1. fan'[r][x].left = fan[r][x].left \ {w}
      BY <1>7, DeliverEffect
    <3>q. QED
      BY <2>1, <3>1
  <2>3. fan[r][x].chunk \in Nat
    BY DEF TypeOK
  <2>4. fan[r][x].chunk # c
    BY <1>1, <2>1, <2>2 DEF FanInv
  <2>q. QED
    BY <1>5, <1>7, <2>3, <2>4
<1>8. CASE /\ Len(chan'[w]) = Len(chan[w]) - 1
           /\ \A i \in 1 .. Len(chan'[w]) : chan'[w][i] = chan[w][i + 1]
  <2> SUFFICES ASSUME NEW i \in 1 .. Len(chan'[w]) PROVE chan'[w][i] # c
    BY DEF Queued
  <2>1. i + 1 \in 1 .. Len(chan[w]) /\ chan'[w][i] = chan[w][i + 1]
    BY <1>2, <1>8
  <2>q. QED
    BY <2>1 DEF Queued
<1>q. QED
  BY <1>3, <1>4, <1>6, <1>7, <1>8, ChannelStep

\* A walk hands out the latest chunk of its source, to viewers without it.
LEMMA FanStep ==
  ASSUME TypeOK, TypeOK', AttachedInv, QueueInv, FanInv, [Next]_vars
  PROVE  FanInv'
<1> SUFFICES ASSUME NEW s \in Runs, NEW src \in Sources
             PROVE  LET f == fan'[s][src] IN
                    /\ f.chunk = 0 => f.left = {}
                    /\ f.chunk # 0 =>
                         /\ f.chunk \in 1 .. Size(s)' /\ author'[s][f.chunk] = src
                         /\ \A c \in 1 .. Size(s)' :
                               author'[s][c] = src => c <= f.chunk
                    /\ \A v \in f.left : f.chunk \notin Queued(v)'
  BY DEF FanInv
<1> DEFINE f == fan[s][src]
           g == fan'[s][src]
<1>1. /\ Size(s) \in Nat /\ f.chunk \in Nat
      /\ g.chunk \in Nat /\ g.left \subseteq Viewers
  BY DEF Size, TypeOK
<1>2. CASE AppendChunk(s, src)
  <2>1. /\ g.chunk = Size(s) + 1 /\ g.left = subs[s]
        /\ Size(s)' = Size(s) + 1 /\ author'[s][Size(s) + 1] = src
    BY <1>2, AppendEffect
  <2>2. ASSUME NEW v \in g.left PROVE g.chunk \notin Queued(v)'
    <3>1. v \in Viewers /\ on[v] = s
      BY <2>1, <2>2 DEF AttachedInv, TypeOK
    <3>2. Queued(v)' = Queued(v)
      BY <1>2 DEF AppendChunk, viewer, Queued
    <3>3. \A i \in 1 .. Len(chan[v]) : chan[v][i] = 0 \/ chan[v][i] \in 1 .. Size(s)
      BY <3>1 DEF QueueInv, End
    <3>4. \A i \in 1 .. Len(chan[v]) : chan[v][i] # Size(s) + 1
      BY <1>1, <3>3
    <3>q. QED
      BY <2>1, <3>2, <3>4 DEF Queued
  <2>q. QED
    BY <1>1, <2>1, <2>2
<1>3. CASE g = Rest
  BY <1>3 DEF Rest
<1>4. CASE /\ ~AppendChunk(s, src) /\ g # Rest
           /\ g.chunk = f.chunk
           /\ \/ g.left \subseteq f.left
              \/ \E v \in Viewers :
                    /\ Subscribe(v) /\ f.chunk # 0
                    /\ g.left = f.left \cup {v}
  <2>1. g.chunk = 0 => g.left = {}
    BY <1>4 DEF FanInv
  <2>2. ASSUME g.chunk # 0
        PROVE  /\ g.chunk \in 1 .. Size(s)' /\ author'[s][g.chunk] = src
               /\ \A c \in 1 .. Size(s)' : author'[s][c] = src => c <= g.chunk
    <3>1. /\ f.chunk \in 1 .. Size(s) /\ author[s][f.chunk] = src
          /\ \A c \in 1 .. Size(s) : author[s][c] = src => c <= f.chunk
      BY <1>4, <2>2 DEF FanInv
    <3>2. CASE author'[s] = author[s]
      BY <1>4, <3>1, <3>2 DEF Size
    <3>3. ASSUME NEW x \in Sources, AppendChunk(s, x), x # src
          PROVE  /\ g.chunk \in 1 .. Size(s)' /\ author'[s][g.chunk] = src
                 /\ \A c \in 1 .. Size(s)' : author'[s][c] = src => c <= g.chunk
      <4>1. /\ Size(s)' = Size(s) + 1 /\ author'[s][Size(s) + 1] = x
            /\ \A c \in 1 .. Size(s) : author'[s][c] = author[s][c]
        BY <3>3, AppendEffect
      <4>2. \A c \in 1 .. Size(s)' : c \in 1 .. Size(s) \/ c = Size(s) + 1
        BY <1>1, <4>1
      <4>3. g.chunk \in 1 .. Size(s)' /\ author'[s][g.chunk] = src
        BY <1>1, <1>4, <3>1, <4>1
      <4>q. QED
        BY <1>4, <3>1, <3>3, <4>1, <4>2, <4>3
    <3>4. ASSUME NEW v \in Viewers, MapFault(v) PROVE FALSE
      BY <1>4, <3>4 DEF MapFault
    <3>5. ASSUME NEW r \in Runs, NEW x \in Sources, AppendChunk(r, x), r # s
          PROVE  author'[s] = author[s]
      BY <3>5, AppendEffect
    <3>6. \/ author' = author \/ \E r \in Runs, x \in Sources : AppendChunk(r, x)
      BY <3>4 DEF Next, Walk, Handling, vars, stream, viewer, Open, Delete,
                  StartCommand, CommandExits, Reap, Deliver, Delivered, Notify,
                  Connect, Snapshot, SubscribeGone, Subscribe, Unsubscribe,
                  Notice, Receive, Disconnect
    <3>q. QED
      BY <1>4, <3>2, <3>3, <3>5, <3>6
  <2>3. ASSUME NEW v \in g.left PROVE g.chunk \notin Queued(v)'
    <3>1. v \in Viewers
      BY <1>1, <2>3
    <3>2. CASE v \in f.left
      <4>1. f.chunk \notin Queued(v)
        BY <3>2 DEF FanInv
      <4>2. f.chunk \notin Queued(v)'
        BY <2>3, <3>1, <3>2, <4>1, GainStep
      <4>q. QED
        BY <1>4, <4>2
    <3>3. CASE Subscribe(v)
      <4>1. chan'[v] = << >>
        BY <3>1, <3>3, SubscribeEffect DEF QueueInv, Registered, Subscribe
      <4>q. QED
        BY <4>1 DEF Queued
    <3>q. QED
      BY <1>4, <2>3, <3>2, <3>3
  <2>q. QED
    BY <2>1, <2>2, <2>3
<1>q. QED
  BY <1>2, <1>3, <1>4, WalkStep

\* A chunk that is queued is newer than those of its source already there.
LEMMA OrderStep ==
  ASSUME TypeOK, TypeOK', AttachedInv, QueueInv, FanInv, SourceOrder,
         [Next]_vars
  PROVE  SourceOrder'
<1> SUFFICES ASSUME NEW w \in Viewers, Following(w)',
                    NEW i \in 1 .. Len(chan'[w]), NEW j \in 1 .. Len(chan'[w]),
                    i < j, chan'[w][i] # End, chan'[w][j] # End,
                    author'[on'[w]][chan'[w][i]] = author'[on'[w]][chan'[w][j]]
             PROVE  chan'[w][i] < chan'[w][j]
  BY DEF SourceOrder, End
<1>1. chan[w] \in Seq(Nat) /\ Len(chan[w]) \in Nat
  BY DEF TypeOK
<1>2. CASE Subscribe(w)
  <2>1. chan'[w] = << >>
    BY <1>2, SubscribeEffect DEF QueueInv, Registered, Subscribe
  <2>q. QED
    BY <2>1
<1>3. CASE Following(w) /\ on'[w] = on[w]
  <2> DEFINE r == on[w]
             Fits(c) == c # End => r \in Runs /\ c \in 1 .. Size(r)
  <2>1. \A k \in 1 .. Len(chan[w]) : Fits(chan[w][k])
    BY DEF QueueInv
  <2>2. \A k, l \in 1 .. Len(chan[w]) :
           /\ k < l /\ chan[w][k] # End /\ chan[w][l] # End
           /\ author[r][chan[w][k]] = author[r][chan[w][l]]
           => chan[w][k] < chan[w][l]
    BY <1>3 DEF SourceOrder
  <2>3. ~\E v \in Viewers : MapFault(v)
    BY DEF MapFault, Following
  <2>4. \A c : Fits(c) /\ c # End => author'[r][c] = author[r][c]
    BY <2>3, BufferStep
  <2> HIDE DEF Fits
  <2>5. CASE chan'[w] = chan[w]
    BY <1>3, <2>1, <2>2, <2>4, <2>5
  <2>6. CASE /\ Len(chan'[w]) = Len(chan[w]) - 1
             /\ \A k \in 1 .. Len(chan'[w]) : chan'[w][k] = chan[w][k + 1]
    <3>1. /\ i + 1 \in 1 .. Len(chan[w]) /\ j + 1 \in 1 .. Len(chan[w])
          /\ i + 1 < j + 1
          /\ chan'[w][i] = chan[w][i + 1] /\ chan'[w][j] = chan[w][j + 1]
      <4>1. /\ i + 1 \in 1 .. Len(chan[w]) /\ j + 1 \in 1 .. Len(chan[w])
            /\ i + 1 < j + 1
        BY <1>1, <2>6
      <4>2. chan'[w][i] = chan[w][i + 1] /\ chan'[w][j] = chan[w][j + 1]
        BY <2>6
      <4>q. QED
        BY <4>1, <4>2
    <3>q. QED
      BY <1>3, <2>1, <2>2, <2>4, <3>1
  <2>7. ASSUME NEW d \in Nat, chan'[w] = chan[w] \o << d >>,
               d # End => /\ Fits(d)
                          /\ \A k \in 1 .. Len(chan[w]) :
                                /\ chan[w][k] # End
                                /\ author[r][chan[w][k]] = author[r][d]
                                => chan[w][k] < d
        PROVE  chan'[w][i] < chan'[w][j]
    <3>1. /\ Len(chan'[w]) = Len(chan[w]) + 1
          /\ \A k \in 1 .. Len(chan[w]) : chan'[w][k] = chan[w][k]
          /\ chan'[w][Len(chan[w]) + 1] = d
      BY <1>1, <2>7, AddedLast
    <3>2. i \in 1 .. Len(chan[w])
      BY <1>1, <3>1
    <3>3. CASE j \in 1 .. Len(chan[w])
      BY <1>3, <2>1, <2>2, <2>4, <3>1, <3>2, <3>3
    <3>4. CASE j = Len(chan[w]) + 1
      BY <1>3, <2>1, <2>4, <2>7, <3>1, <3>2, <3>4
    <3>q. QED
      BY <1>1, <3>1, <3>3, <3>4
  <2>8. CASE chan'[w] = chan[w] \o << End >>
    BY <2>7, <2>8 DEF End
  <2>9. ASSUME NEW s \in Runs, NEW src \in Sources, Deliver(s, src, w),
               chan'[w] = chan[w] \o << fan[s][src].chunk >>
        PROVE  chan'[w][i] < chan'[w][j]
    <3> DEFINE d == fan[s][src].chunk
    <3>1. w \in fan[s][src].left /\ r = s /\ d \in Nat
      BY <2>9 DEF Deliver, AttachedInv, TypeOK
    <3>2. /\ d # 0 /\ d \in 1 .. Size(s) /\ author[s][d] = src
          /\ \A c \in 1 .. Size(s) : author[s][c] = src => c <= d
          /\ d \notin Queued(w)
      BY <3>1 DEF FanInv
    <3>3. ASSUME NEW k \in 1 .. Len(chan[w]), chan[w][k] # End,
                 author[r][chan[w][k]] = author[r][d]
          PROVE  chan[w][k] < d
      <4>1. chan[w][k] \in 1 .. Size(s) /\ author[s][chan[w][k]] = src
        BY <2>1, <3>1, <3>2, <3>3 DEF Fits
      <4>2. chan[w][k] <= d /\ chan[w][k] # d
        BY <3>2, <4>1 DEF Queued
      <4>q. QED
        BY <3>1, <4>1, <4>2
    <3>4. Fits(d)
      BY <3>1, <3>2 DEF Fits
    <3>q. QED
      BY <2>7, <2>9, <3>1, <3>3, <3>4
  <2>10. Len(chan'[w]) # 0 /\ chan'[w] # << >>
    OBVIOUS
  <2>11. Registered(w)
    BY <1>3 DEF Following, Registered
  <2>q. QED
    BY <2>5, <2>6, <2>8, <2>9, <2>10, <2>11, ChannelStep
<1>q. QED
  BY <1>2, <1>3, FollowedBefore

\* The inductive invariant.
TailInv == /\ TypeOK /\ AttachedInv /\ MemberInv /\ QueueInv /\ FanInv
           /\ NothingElseIsLost /\ SourceOrder

\* In the initial state nobody is connected and nothing has been written.
LEMMA InitTail == Init => TailInv
<1> SUFFICES ASSUME Init PROVE TailInv
  OBVIOUS
<1>1. TypeOK
  BY InitType
<1>2. AttachedInv
  BY DEF Init, AttachedInv, Rest
<1>3. MemberInv /\ NothingElseIsLost /\ SourceOrder
  BY DEF Init, MemberInv, NothingElseIsLost, SourceOrder, Following
<1>4. QueueInv
  <2>1. \A v \in Viewers : chan[v] = << >> /\ Len(chan[v]) = 0
    BY DEF Init
  <2>2. \A v \in Viewers : \A i \in 1 .. Len(chan[v]) : FALSE
    <3> SUFFICES ASSUME NEW v \in Viewers, NEW i \in 1 .. Len(chan[v])
                 PROVE  FALSE
      OBVIOUS
    <3>1. Len(chan[v]) = 0
      BY <2>1
    <3>2. i \in 1 .. 0
      BY <3>1
    <3>q. QED
      BY <3>2
  <2>3. \A v \in Viewers : chan[v] = << >>
    BY <2>1
  <2>q. QED
    BY <2>2, <2>3 DEF QueueInv
<1>5. FanInv
  BY DEF Init, FanInv, Rest
<1>q. QED
  BY <1>1, <1>2, <1>3, <1>4, <1>5 DEF TailInv

\* The invariant holds for any number of viewers, runs and chunks, whatever
\* sources a command has and whatever the capacity of a channel (store.go).
THEOREM TailInvariance == Spec => []TailInv
<1>1. TailInv /\ [Next]_vars => TailInv'
  <2> SUFFICES ASSUME TailInv, [Next]_vars PROVE TailInv'
    OBVIOUS
  <2>1. TypeOK'
    BY TypeStep DEF TailInv
  <2>q. QED
    BY <2>1, AttachedStep, MemberStep, QueueStep, FanStep, NothingLostStep,
       OrderStep
       DEF TailInv
<1>q. QED
  BY InitTail, <1>1, PTL DEF Spec

\* No channel ever holds more than its capacity (subChanCap).
THEOREM TailTypeCorrect == Spec => []TypeOK
  BY TailInvariance, PTL DEF TailInv

\* However appends, subscriptions and the walks without the lock interleave, a
\* viewer misses no chunk written after it has subscribed, unless its own
\* channel was full (append, subscribe).
THEOREM NothingIsMissed == Spec => []NothingElseIsLost
  BY TailInvariance, PTL DEF TailInv

\* However they interleave, the chunks of one source reach a channel in the
\* order in which they were written (append).
THEOREM TailInOrder == Spec => []SourceOrder
  BY TailInvariance, PTL DEF TailInv
=============================================================================
