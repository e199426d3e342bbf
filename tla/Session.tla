------------------------------- MODULE Session --------------------------------
(***************************************************************************)
(* The IDE side: profiling tabs, the attach service, the registry that     *)
(* matches connections to tabs by pid, and the server that dispatches      *)
(* messages to the UI thread; with the agents that the tabs load, reduced  *)
(* to their request loop (see Profiler.tla for what a result contains).    *)
(*                                                                         *)
(* Each tab loads its own copy of the agent library, so a tab also names   *)
(* its agent, the agent's connection, and the AsyncSubject that connect()  *)
(* registers for the tab.                                                  *)
(***************************************************************************)
EXTENDS Integers, Sequences, FiniteSets, SequencesExt

CONSTANTS
  Tabs,        \* the tabs that may be opened
  Pids,        \* the JVMs
  PidOf,       \* PidOf[j]: the JVM that tab j is opened for
  None,
  MaxPresses   \* bound: presses of the two buttons in a behaviour

ASSUME SessionAssumption ==
  /\ PidOf \in [Tabs -> Pids]
  /\ None \notin Tabs
  /\ MaxPresses \in Nat

VARIABLES
  jvms,       \* jvms[p]: the tab whose subject is registered for pid p
  value,      \* value[j]: the connection that subject j holds
  emitted,    \* emitted[j]: the connection with which subject j completed
  tab,        \* tab[j]: "new", "open", or "closed" (lifetime terminated)
  zip,        \* zip[j]: how far the subscription of tab j to its session is
  buttons,    \* buttons[j]: "hidden", or the one that is enabled
  edt,        \* messages posted to the UI thread by the server
  broken,     \* the tabs whose view is no longer subscribed to results
  channel,    \* channel[a]: the IDE's end of connection a
  requests,   \* requests[a]: sent to agent a and not yet read
  responses,  \* responses[a]: sent by agent a and not yet read
  agent,      \* agent[a]: where the loading of agent a, or its loop, is
  running,    \* running[a]: _running of that copy of the agent
  sampler,    \* sampler[p]: the copy whose handler and timer are set in p
  presses,    \* history: number of presses
  stops,      \* history: STOP requests sent by tab j
  results,    \* history: connections whose results were shown in tab j, in order
  early       \* history: a button of j was pressed before tab j was subscribed

ide     == <<jvms, value, emitted, tab, zip, buttons, edt, broken>>
wire    == <<channel, requests, responses>>
agents  == <<agent, running, sampler>>
history == <<presses, stops, results, early>>
vars    == <<ide, wire, agents, history>>

Messages == [type : {"INIT", "PROF_INFO"}, from : Tabs]

(***************************************************************************)
(* The steps of a tab's subscription.  "waiting": the connection will be   *)
(* emitted on the UI thread.  From "arrived" on the io thread runs the     *)
(* subscriber; "rejected": the lifetime was already terminated.            *)
(***************************************************************************)
ZipSteps == {"none", "attaching", "failed", "attached", "waiting", "arrived",
             "adding", "connecting", "binding", "listening", "done", "rejected"}

\* Every variable has its type.
TypeOK ==
  /\ jvms \in [Pids -> Tabs \cup {None}]
  /\ value \in [Tabs -> Tabs \cup {None}]
  /\ emitted \in [Tabs -> Tabs \cup {None}]
  /\ tab \in [Tabs -> {"new", "open", "closed"}]
  /\ zip \in [Tabs -> ZipSteps]
  /\ buttons \in [Tabs -> {"hidden", "start", "stop"}]
  /\ edt \in Seq(Messages)
  /\ broken \subseteq { j \in Tabs : zip[j] = "done" }
  /\ channel \in [Tabs -> {"none", "open", "closing", "closed"}]
  /\ requests \in [Tabs -> Seq({"START", "STOP"})]
  /\ responses \in [Tabs -> Seq({"INIT", "PROF_INFO"})]
  /\ agent \in [Tabs -> {"none", "loading", "failed", "reading", "done"}]
  /\ running \in [Tabs -> BOOLEAN]
  /\ sampler \in [Pids -> Tabs \cup {None}]
  /\ presses \in 0 .. MaxPresses
  /\ stops \in [Tabs -> Nat]
  /\ results \in [Tabs -> Seq(Tabs)]
  /\ early \in [Tabs -> BOOLEAN]

Init ==
  /\ jvms = [p \in Pids |-> None]
  /\ value = [j \in Tabs |-> None]
  /\ emitted = [j \in Tabs |-> None]
  /\ tab = [j \in Tabs |-> "new"]
  /\ zip = [j \in Tabs |-> "none"]
  /\ buttons = [j \in Tabs |-> "hidden"]
  /\ edt = << >>
  /\ broken = {}
  /\ channel = [j \in Tabs |-> "none"]
  /\ requests = [j \in Tabs |-> << >>]
  /\ responses = [j \in Tabs |-> << >>]
  /\ agent = [j \in Tabs |-> "none"]
  /\ running = [j \in Tabs |-> FALSE]
  /\ sampler = [p \in Pids |-> None]
  /\ presses = 0
  /\ stops = [j \in Tabs |-> 0]
  /\ results = [j \in Tabs |-> << >>]
  /\ early = [j \in Tabs |-> FALSE]

\* The subscriber has registered session.close() with the lifetime.
HasSession(j) == zip[j] \in {"connecting", "binding", "listening", "done"}

\* The session is subscribed to the buttons.
Bound(j) == zip[j] \in {"listening", "done"}
-----------------------------------------------------------------------------
(***************************************************************************)
(* The user, on the UI thread.                                             *)
(***************************************************************************)

\* A double click on a JVM: connect() registers a new subject for the pid,
\* replacing the one of any other tab.
OpenTab(j) ==
  /\ tab[j] = "new"
  /\ tab' = [tab EXCEPT ![j] = "open"]
  /\ jvms' = [jvms EXCEPT ![PidOf[j]] = j]
  /\ zip' = [zip EXCEPT ![j] = "attaching"]
  /\ UNCHANGED <<value, emitted, buttons, edt, broken, wire, agents, history>>

Send(j, request) ==
  requests' = IF Bound(j) /\ channel[emitted[j]] = "open"
                THEN [requests EXCEPT ![emitted[j]] = Append(@, request)]
                ELSE requests

Press(j, from, to, request) ==
  /\ tab[j] = "open" /\ buttons[j] = from
  /\ presses < MaxPresses
  /\ presses' = presses + 1
  /\ buttons' = [buttons EXCEPT ![j] = to]
  /\ Send(j, request)
  /\ early' = [early EXCEPT ![j] = @ \/ zip[j] # "done"]
  /\ UNCHANGED <<jvms, value, emitted, tab, zip, edt, broken, channel, responses, agents, results>>

PressStart(j) ==
  /\ Press(j, "start", "stop", "START")
  /\ UNCHANGED stops

\* Mutant: both presses send START.
PressStopSendsStart(j) ==
  /\ Press(j, "stop", "start", "START")
  /\ stops' = [stops EXCEPT ![j] = IF Bound(j) THEN @ + 1 ELSE @]

PressStop(j) ==
  /\ Press(j, "stop", "start", "STOP")
  /\ stops' = [stops EXCEPT ![j] = IF Bound(j) THEN @ + 1 ELSE @]

\* The lifetime is terminated; of its actions session.close() is the one that
\* reaches beyond the tab.
CloseTab(j) ==
  /\ tab[j] = "open"
  /\ tab' = [tab EXCEPT ![j] = "closed"]
  /\ channel' = IF HasSession(j) THEN [channel EXCEPT ![emitted[j]] = "closing"]
                                 ELSE channel
  /\ UNCHANGED <<jvms, value, emitted, zip, buttons, edt, broken, requests, responses, agents, history>>
-----------------------------------------------------------------------------
(***************************************************************************)
(* connect() on the io thread of tab j.                                    *)
(***************************************************************************)
Advance(j, from, to) ==
  /\ zip[j] = from
  /\ zip' = [zip EXCEPT ![j] = to]

\* VirtualMachine.attach, and doOnNext, which leaves the loading of the agent
\* to a thread of its own.  A failure reaches no subscriber.
AttachVM(j) ==
  /\ \/ /\ Advance(j, "attaching", "attached")
        /\ agent' = [agent EXCEPT ![j] = "loading"]
     \/ /\ Advance(j, "attaching", "failed")
        /\ UNCHANGED agent
  /\ UNCHANGED <<jvms, value, emitted, tab, buttons, edt, broken, wire, running, sampler, history>>

\* Mutant: the subject does not repeat its value to a late subscriber.
SubscribeLate(j) ==
  /\ Advance(j, "attached", "waiting")
  /\ UNCHANGED <<jvms, value, emitted, tab, buttons, edt, broken, wire, agents, history>>

\* zipWith subscribes to the subject, which may have completed meanwhile.
SubscribeChannel(j) ==
  /\ Advance(j, "attached", IF emitted[j] # None THEN "arrived" ELSE "waiting")
  /\ UNCHANGED <<jvms, value, emitted, tab, buttons, edt, broken, wire, agents, history>>

\* lifetime += { session.close() } tests isTerminated before it adds.
CheckLifetime(j) ==
  /\ Advance(j, "arrived", IF tab[j] = "closed" THEN "rejected" ELSE "adding")
  /\ UNCHANGED <<jvms, value, emitted, tab, buttons, edt, broken, wire, agents, history>>

AddClose(j) ==
  /\ Advance(j, "adding", "connecting")
  /\ UNCHANGED <<jvms, value, emitted, tab, buttons, edt, broken, wire, agents, history>>

\* state.connected makes the UI thread show the buttons.
Connected(j) ==
  /\ Advance(j, "connecting", "binding")
  /\ buttons' = [buttons EXCEPT ![j] = "start"]
  /\ UNCHANGED <<jvms, value, emitted, tab, edt, broken, wire, agents, history>>

\* The two subscriptions of initSession.
initSession(j) ==
  /\ \/ Advance(j, "binding", "listening")
     \/ Advance(j, "listening", "done")
  /\ UNCHANGED <<jvms, value, emitted, tab, buttons, edt, broken, wire, agents, history>>

ConnectStep(j) ==
  \/ AttachVM(j) \/ SubscribeChannel(j) \/ CheckLifetime(j)
  \/ AddClose(j) \/ Connected(j) \/ initSession(j)
-----------------------------------------------------------------------------
(***************************************************************************)
(* The server.  A worker thread posts what it reads to the UI thread.      *)
(***************************************************************************)

\* Mutant: the connection is given to every subject of the pid.
SetChanOfAll(a) ==
  LET takers == { k \in Tabs : PidOf[k] = PidOf[a] /\ tab[k] = "open" /\ emitted[k] = None }
  IN  /\ value' = [k \in Tabs |-> IF k \in takers THEN a ELSE value[k]]
      /\ emitted' = [k \in Tabs |-> IF k \in takers THEN a ELSE emitted[k]]
      /\ zip' = [k \in Tabs |-> IF k \in takers /\ zip[k] = "waiting" THEN "done" ELSE zip[k]]
      /\ buttons' = [k \in Tabs |-> IF k \in takers /\ zip[k] = "waiting" THEN "start"
                                    ELSE buttons[k]]
      /\ UNCHANGED <<jvms, tab, broken>>

\* The subject of the pid takes the connection, and emits the first one it
\* gets.  A tab that waits for it runs its subscriber here, on the UI thread.
SetChan(a) ==
  LET j == jvms[PidOf[a]]
      emits == emitted[j] = None
  IN  /\ value' = [value EXCEPT ![j] = a]
      /\ emitted' = [emitted EXCEPT ![j] = IF emits THEN a ELSE @]
      /\ IF emits /\ zip[j] = "waiting"
           THEN /\ zip' = [zip EXCEPT ![j] = IF tab[j] = "open" THEN "done" ELSE "rejected"]
                /\ buttons' = [buttons EXCEPT ![j] = IF tab[j] = "open" THEN "start" ELSE @]
           ELSE UNCHANGED <<zip, buttons>>
      /\ UNCHANGED <<jvms, tab, broken>>

\* Mutant: an INIT is handled by the worker thread that reads it.
ChannelReadInline(a) ==
  /\ channel[a] \in {"open", "closing"} /\ responses[a] # << >>
  /\ responses' = [responses EXCEPT ![a] = Tail(@)]
  /\ IF Head(responses[a]) = "INIT"
       THEN SetChan(a) /\ UNCHANGED edt
       ELSE /\ edt' = Append(edt, [type |-> Head(responses[a]), from |-> a])
            /\ UNCHANGED <<jvms, value, emitted, tab, zip, buttons, broken>>
  /\ UNCHANGED <<channel, requests, agents, history>>

channelRead0(a) ==
  /\ channel[a] \in {"open", "closing"} /\ responses[a] # << >>
  /\ responses' = [responses EXCEPT ![a] = Tail(@)]
  /\ edt' = Append(edt, [type |-> Head(responses[a]), from |-> a])
  /\ UNCHANGED <<jvms, value, emitted, tab, zip, buttons, broken, channel, requests, agents, history>>

\* The worker thread carries out chan.close(); what it has not read is lost.
\* What the agent has not read may reach it or not.
CloseChannel(a) ==
  /\ channel[a] = "closing"
  /\ channel' = [channel EXCEPT ![a] = "closed"]
  /\ responses' = [responses EXCEPT ![a] = << >>]
  /\ \E n \in 0 .. Len(requests[a]) :
       requests' = [requests EXCEPT ![a] = SubSeq(@, 1, n)]
  /\ UNCHANGED <<ide, agents, history>>

\* jvms[id]!!: the pid of an agent has a subject, since its tab was opened.
setChan(a) ==
  /\ edt # << >> /\ Head(edt) = [type |-> "INIT", from |-> a]
  /\ edt' = Tail(edt)
  /\ SetChan(a)
  /\ UNCHANGED <<wire, agents, history>>

\* Mutant: the result goes to the tab whose agent sent it.
ReceiversByAgent(a) == { k \in Tabs : zip[k] = "done" /\ a = k }

\* Who is subscribed to the responses of the registered connection.
Receivers(a) ==
  { k \in Tabs : zip[k] = "done" /\ emitted[k] = value[jvms[PidOf[a]]] }

Result(a) ==
  /\ edt # << >> /\ Head(edt) = [type |-> "PROF_INFO", from |-> a]
  /\ edt' = Tail(edt)
  /\ UNCHANGED <<jvms, value, emitted, tab, zip, buttons, wire, agents, presses, stops, early>>

Viewers(a) == { k \in Receivers(a) \ broken : tab[k] = "open" }

\* A result with an empty sample (see ConcurrentProfiler) does not pass
\* validate: the exception unsubscribes the view.
Rejected(a) ==
  /\ Result(a) /\ Viewers(a) # {}
  /\ broken' = broken \cup Viewers(a)
  /\ UNCHANGED results

\* A tab that is closed cannot create the lifetime of a result view, and
\* shows nothing.
result(a) ==
  \/ /\ Result(a)
     /\ results' = [k \in Tabs |-> IF k \in Viewers(a) THEN Append(results[k], a) ELSE results[k]]
     /\ UNCHANGED broken
  \/ Rejected(a)

Dispatch == \E a \in Tabs : setChan(a) \/ result(a)
-----------------------------------------------------------------------------
(***************************************************************************)
(* The agents.                                                             *)
(***************************************************************************)

\* loadAgentPath runs Agent_OnAttach, with the whole request loop, on the one
\* attach listener thread of the JVM; so it waits for the loops before it.
LoadAgent(a) ==
  /\ agent[a] = "loading"
  /\ \A k \in Tabs : PidOf[k] = PidOf[a] => agent[k] # "reading"
  /\ \/ /\ agent' = [agent EXCEPT ![a] = "reading"]
        /\ channel' = [channel EXCEPT ![a] = "open"]
        /\ responses' = [responses EXCEPT ![a] = <<"INIT">>]
     \/ /\ agent' = [agent EXCEPT ![a] = "failed"]
        /\ UNCHANGED <<channel, responses>>
  /\ UNCHANGED <<ide, requests, running, sampler, history>>

ReadRequest(a, request) ==
  /\ agent[a] = "reading"
  /\ requests[a] # << >> /\ Head(requests[a]) = request
  /\ requests' = [requests EXCEPT ![a] = Tail(@)]
  /\ UNCHANGED <<ide, channel, history>>

\* Mutant: START is acknowledged with a message the IDE does not know.
AgentStartAcks(a) ==
  /\ ReadRequest(a, "START")
  /\ running' = [running EXCEPT ![a] = TRUE]
  /\ sampler' = IF running[a] THEN sampler ELSE [sampler EXCEPT ![PidOf[a]] = a]
  /\ responses' = [responses EXCEPT ![a] = Append(@, "STARTED")]
  /\ UNCHANGED agent

\* start(): the handler and the timer of the process are now this copy's.
AgentStart(a) ==
  /\ ReadRequest(a, "START")
  /\ running' = [running EXCEPT ![a] = TRUE]
  /\ sampler' = IF running[a] THEN sampler ELSE [sampler EXCEPT ![PidOf[a]] = a]
  /\ UNCHANGED <<agent, responses>>

\* Mutant: stop() does not reset _running.
AgentStopKeepsRunning(a) ==
  /\ ReadRequest(a, "STOP")
  /\ sampler' = IF running[a] THEN [sampler EXCEPT ![PidOf[a]] = None] ELSE sampler
  /\ \/ /\ channel[a] # "closed"
        /\ responses' = [responses EXCEPT ![a] = Append(@, "PROF_INFO")]
     \/ channel[a] = "closed" /\ UNCHANGED responses
  /\ UNCHANGED <<agent, running>>

\* stop() and writeResult(): the connection fails only once it is closed.
AgentStop(a) ==
  /\ ReadRequest(a, "STOP")
  /\ running' = [running EXCEPT ![a] = FALSE]
  /\ sampler' = IF running[a] THEN [sampler EXCEPT ![PidOf[a]] = None] ELSE sampler
  /\ \/ /\ channel[a] # "closed"
        /\ responses' = [responses EXCEPT ![a] = Append(@, "PROF_INFO")]
        /\ UNCHANGED agent
     \/ /\ channel[a] = "closed"
        /\ agent' \in {agent, [agent EXCEPT ![a] = "done"]}
        /\ UNCHANGED responses

\* Mutant: the loop reads on after the end of file.
AgentKeepsReading(a) ==
  /\ agent[a] = "reading"
  /\ channel[a] = "closed" /\ requests[a] = << >>
  /\ UNCHANGED vars

\* The end of file ends the loop, and leaves the timer as it is.
AgentLeaves(a) ==
  /\ agent[a] = "reading"
  /\ channel[a] = "closed" /\ requests[a] = << >>
  /\ agent' = [agent EXCEPT ![a] = "done"]
  /\ UNCHANGED <<ide, wire, running, sampler, history>>

AgentStep(a) == LoadAgent(a) \/ AgentStart(a) \/ AgentStop(a) \/ AgentLeaves(a)

ServerStep(a) == channelRead0(a) \/ CloseChannel(a)

Next ==
  \/ \E j \in Tabs :
       \/ OpenTab(j) \/ PressStart(j) \/ PressStop(j) \/ CloseTab(j)
       \/ ConnectStep(j) \/ ServerStep(j) \/ AgentStep(j)
  \/ Dispatch

Spec == Init /\ [][Next]_vars

(***************************************************************************)
(* Threads and event loops that have something to do go on; the user owes  *)
(* nothing.                                                                *)
(***************************************************************************)
Fairness ==
  /\ \A j \in Tabs : /\ WF_vars(ConnectStep(j))
                     /\ WF_vars(ServerStep(j))
                     /\ WF_vars(AgentStep(j))
  /\ WF_vars(Dispatch)

FairSpec == Spec /\ Fairness
-----------------------------------------------------------------------------
(***************************************************************************)
(* Properties.                                                             *)
(***************************************************************************)

\* What a tab shows was sent by the agent that the tab talks to, although
\* results are routed by pid, tabs replace each other's subjects, and the
\* agent of one tab may be connected to another (JVMRemoteService.result).
ResultsAreOwn ==
  \A j \in Tabs : \A i \in DOMAIN results[j] : results[j][i] = emitted[j]

\* No two tabs control one agent (JVMRemoteService.setChan).
OneTabPerAgent ==
  \A j, k \in Tabs : emitted[j] # None /\ emitted[j] = emitted[k] => j = k

\* An agent that was told to start and still serves requests is the one whose
\* handler is installed, whatever copies of the library came before it.
SessionIsSampled ==
  \A a \in Tabs :
    agent[a] = "reading" => (running[a] <=> sampler[PidOf[a]] = a)

InFlight(a) ==
  \/ requests[a] # << >> \/ responses[a] # << >>
  \/ \E i \in DOMAIN edt : edt[i].from = a

\* The enabled button and the agent agree on whether it is profiling, once the
\* requests on their way are counted, unless a button was pressed before the
\* io thread had subscribed to it (JvmTabConntoller).
ButtonsTrackAgent ==
  \A j \in Tabs :
    tab[j] = "open" /\ zip[j] = "done" /\ ~early[j] =>
      LET a == emitted[j]
      IN  (buttons[j] = "stop") <=> IF requests[a] = << >> THEN running[a]
                                                           ELSE Last(requests[a]) = "START"

\* Every STOP of an open tab is answered by one result in that tab, as long as
\* no later tab on the same JVM has replaced its subject and no result of that
\* tab was rejected: a rejected result costs other tabs nothing.
NoResultLost ==
  \A j \in Tabs :
    /\ Len(results[j]) <= stops[j]
    /\ tab[j] = "open" /\ zip[j] = "done" /\ ~early[j]
         /\ jvms[PidOf[j]] = j /\ ~InFlight(emitted[j]) /\ j \notin broken
         => Len(results[j]) = stops[j]

Alone(j) == \A k \in Tabs : PidOf[k] = PidOf[j] => k = j

\* The only tab ever opened on a JVM gets its connection, unless the agent
\* cannot be loaded or the tab is closed.
LoneTabConnects ==
  \A j \in Tabs :
    Alone(j) => (zip[j] = "attached" ~> zip[j] = "done" \/ tab[j] = "closed"
                                                        \/ agent[j] = "failed")

\* Closing a tab that has its session ends the loop of its agent, which makes
\* the attach listener of the JVM free for the next tab.
CloseFreesJVM == \A a \in Tabs : channel[a] = "closing" ~> agent[a] = "done"

\* "Choose JVM and press 'start profiling'": the only open tab on a JVM gets
\* its connection, whichever tabs were closed before it.
OnlyOpenTabConnects ==
  \A j \in Tabs :
    zip[j] = "waiting" ~>
      \/ zip[j] = "done" \/ agent[j] = "failed"
      \/ tab[j] = "closed"
      \/ \E k \in Tabs \ {j} : PidOf[k] = PidOf[j] /\ tab[k] = "open"
=============================================================================
