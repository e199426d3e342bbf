----------------------------- MODULE SessionProofs ----------------------------
(***************************************************************************)
(* Proofs about Session.tla for every set of tabs and of JVMs, every       *)
(* assignment of tabs to JVMs and every number of presses.                 *)
(***************************************************************************)
EXTENDS Session, SequenceTheorems, FiniteSetTheorems, TLAPS

-----------------------------------------------------------------------------
(***************************************************************************)
(* Queues: what is sent last is read last, and nothing else moves.         *)
(***************************************************************************)
LEMMA Sent ==
  ASSUME NEW S, NEW s \in Seq(S), NEW x \in S
  PROVE  /\ Append(s, x) \in Seq(S)
         /\ DOMAIN s = 1 .. Len(s) /\ Len(s) \in Nat
         /\ DOMAIN Append(s, x) = 1 .. Len(s) + 1
         /\ Append(s, x)[Len(s) + 1] = x
         /\ \A i \in 1 .. Len(s) : Append(s, x)[i] = s[i]
         /\ Append(s, x) # << >>
         /\ Last(Append(s, x)) = x
BY DEF Last

LEMMA Read ==
  ASSUME NEW S, NEW s \in Seq(S), s # << >>
  PROVE  /\ Head(s) \in S /\ Tail(s) \in Seq(S)
         /\ Len(s) \in Nat /\ Len(s) >= 1 /\ DOMAIN s = 1 .. Len(s)
         /\ Head(s) = s[1]
         /\ Len(Tail(s)) = Len(s) - 1
         /\ DOMAIN Tail(s) = 1 .. Len(s) - 1
         /\ \A i \in 1 .. Len(s) - 1 : Tail(s)[i] = s[i + 1]
         /\ Tail(s) # << >> => Last(Tail(s)) = Last(s)
         /\ Tail(s) = << >> => Last(s) = Head(s)
<1>1. Len(s) \in Nat \ {0} /\ DOMAIN s = 1 .. Len(s)
  BY EmptySeq, LenProperties
<1>2. /\ Head(s) \in S /\ Tail(s) \in Seq(S) /\ Head(s) = s[1]
      /\ Len(Tail(s)) = Len(s) - 1
      /\ \A i \in 1 .. Len(Tail(s)) : Tail(s)[i] = s[i + 1]
  BY HeadTailProperties
<1>3. DOMAIN Tail(s) = 1 .. Len(s) - 1
  BY <1>2, LenProperties
<1>4. Tail(s) # << >> => Last(Tail(s)) = Last(s)
  <2>1. Tail(s) # << >> => Len(Tail(s)) \in Nat \ {0}
    BY <1>2, EmptySeq
  <2>2. QED  BY <2>1, <1>1, <1>2 DEF Last
<1>5. Tail(s) = << >> => Last(s) = Head(s)
  <2>1. Tail(s) = << >> => Len(s) = 1
    BY <1>1, <1>2, EmptySeq
  <2>2. QED  BY <2>1, <1>2 DEF Last
<1>6. QED  BY <1>1, <1>2, <1>3, <1>4, <1>5

LEMMA Cut ==
  ASSUME NEW S, NEW s \in Seq(S), NEW n \in 0 .. Len(s)
  PROVE  /\ SubSeq(s, 1, n) \in Seq(S)
         /\ DOMAIN SubSeq(s, 1, n) = 1 .. n
         /\ \A i \in 1 .. n : SubSeq(s, 1, n)[i] = s[i]
         /\ s = << >> => SubSeq(s, 1, n) = << >>
<1>1. Len(s) \in Nat /\ \A i \in 1 .. n : s[i] \in S
  BY LenProperties
<1>2. /\ SubSeq(s, 1, n) \in Seq(S)
      /\ Len(SubSeq(s, 1, n)) = n
      /\ \A i \in 1 .. n : SubSeq(s, 1, n)[i] = s[i]
  BY <1>1, SubSeqProperties
<1>3. DOMAIN SubSeq(s, 1, n) = 1 .. n
  BY <1>2, LenProperties
<1>4. s = << >> => SubSeq(s, 1, n) = << >>
  BY <1>2, EmptySeq
<1>5. QED  BY <1>2, <1>3, <1>4
-----------------------------------------------------------------------------
(***************************************************************************)
(* Types.                                                                  *)
(***************************************************************************)
LEMMA SendType ==
  ASSUME TypeOK, NEW j \in Tabs, NEW request \in {"START", "STOP"}, Send(j, request)
  PROVE  requests' \in [Tabs -> Seq({"START", "STOP"})]
<1>1. ASSUME NEW a \in Tabs
      PROVE  Append(requests[a], request) \in Seq({"START", "STOP"})
  BY Sent DEF TypeOK
<1>2. QED  BY <1>1 DEF TypeOK, Send

LEMMA AdvanceType ==
  ASSUME TypeOK, NEW j \in Tabs, NEW from \in ZipSteps \ {"done"}, NEW to \in ZipSteps,
         Advance(j, from, to), UNCHANGED broken
  PROVE  /\ zip' \in [Tabs -> ZipSteps]
         /\ broken' \subseteq { k \in Tabs : zip'[k] = "done" }
<1>1. zip' \in [Tabs -> ZipSteps]
  BY DEF TypeOK, Advance
<1>2. \A k \in Tabs : zip[k] = "done" => zip'[k] = "done"
  BY DEF TypeOK, Advance
<1>3. \A k \in broken : k \in Tabs /\ zip[k] = "done"
  BY DEF TypeOK
<1>4. QED  BY <1>1, <1>2, <1>3

LEMMA SetChanType ==
  ASSUME TypeOK, NEW a \in Tabs, SetChan(a)
  PROVE  /\ value' \in [Tabs -> Tabs \cup {None}]
         /\ emitted' \in [Tabs -> Tabs \cup {None}]
         /\ zip' \in [Tabs -> ZipSteps]
         /\ buttons' \in [Tabs -> {"hidden", "start", "stop"}]
         /\ broken' \subseteq { k \in Tabs : zip'[k] = "done" }
<1>1. /\ value' \in [Tabs -> Tabs \cup {None}]
      /\ emitted' \in [Tabs -> Tabs \cup {None}]
  BY DEF TypeOK, SetChan
<1>2. /\ zip' \in [Tabs -> ZipSteps]
      /\ buttons' \in [Tabs -> {"hidden", "start", "stop"}]
  <2>1. PICK j : \E step \in {"done", "rejected"} :
           /\ zip' \in {zip, [zip EXCEPT ![j] = step]}
           /\ buttons' \in {buttons, [buttons EXCEPT ![j] = "start"],
                             [buttons EXCEPT ![j] = buttons[j]]}
    BY DEF SetChan
  <2>2. zip \in [Tabs -> ZipSteps] /\ buttons \in [Tabs -> {"hidden", "start", "stop"}]
    BY DEF TypeOK
  <2>3. QED  BY <2>1, <2>2 DEF ZipSteps
<1>3. ASSUME NEW k \in Tabs, zip[k] = "done"
      PROVE  zip'[k] = "done"
  BY <1>3, SMTT(30) DEF TypeOK, SetChan
<1>4. broken' = broken /\ \A k \in broken : k \in Tabs /\ zip[k] = "done"
  BY DEF TypeOK, SetChan
<1>5. QED  BY <1>1, <1>2, <1>3, <1>4

LEMMA PostType ==
  ASSUME TypeOK, NEW a \in Tabs, channelRead0(a)
  PROVE  /\ edt' \in Seq(Messages)
         /\ responses' \in [Tabs -> Seq({"INIT", "PROF_INFO"})]
<1>1. /\ Head(responses[a]) \in {"INIT", "PROF_INFO"}
      /\ Tail(responses[a]) \in Seq({"INIT", "PROF_INFO"})
  BY Read DEF TypeOK, channelRead0
<1>2. [type |-> Head(responses[a]), from |-> a] \in Messages
  BY <1>1 DEF Messages
<1>3. edt' \in Seq(Messages)
  BY <1>2, Sent DEF TypeOK, channelRead0
<1>4. QED  BY <1>1, <1>3 DEF TypeOK, channelRead0

LEMMA RequestType ==
  ASSUME TypeOK, NEW a \in Tabs, NEW request, ReadRequest(a, request)
  PROVE  requests' \in [Tabs -> Seq({"START", "STOP"})]
<1>1. Tail(requests[a]) \in Seq({"START", "STOP"})
  BY Read DEF TypeOK, ReadRequest
<1>2. QED  BY <1>1 DEF TypeOK, ReadRequest

LEMMA ResponseType ==
  ASSUME TypeOK, NEW a \in Tabs
  PROVE  /\ Append(responses[a], "PROF_INFO") \in Seq({"INIT", "PROF_INFO"})
         /\ <<"INIT">> \in Seq({"INIT", "PROF_INFO"})
BY Sent DEF TypeOK

LEMMA DispatchedType ==
  ASSUME TypeOK, edt # << >>
  PROVE  Tail(edt) \in Seq(Messages)
BY Read DEF TypeOK

\* What a tab that was never opened has done; without it TypeOK would not be
\* inductive, as a broken view belongs to a tab whose subscription is done.
Unopened == \A j \in Tabs : tab[j] = "new" => zip[j] = "none"

TypeInv == TypeOK /\ Unopened

LEMMA TypeInit == Init => TypeInv
<1> SUFFICES ASSUME Init PROVE TypeInv
  OBVIOUS
<1>1. \A S : << >> \in Seq(S)
  BY EmptySeq
<1>2. QED  BY <1>1, SessionAssumption DEF Init, TypeInv, TypeOK, Unopened, ZipSteps

LEMMA TypeStep ==
  ASSUME TypeInv, [Next]_vars
  PROVE  TypeInv'
<1> USE SessionAssumption DEF TypeInv
<1>1. ASSUME NEW j \in Tabs, OpenTab(j)
      PROVE  TypeInv'
  <2>1. /\ jvms' \in [Pids -> Tabs \cup {None}]
        /\ tab' \in [Tabs -> {"new", "open", "closed"}]
        /\ zip' \in [Tabs -> ZipSteps]
    BY <1>1 DEF TypeOK, OpenTab, ZipSteps
  <2>2. \A k \in Tabs : zip[k] = "done" => zip'[k] = "done"
    BY <1>1 DEF TypeOK, OpenTab, Unopened
  <2>3. Unopened'
    BY <1>1 DEF TypeOK, OpenTab, Unopened
  <2>4. QED  BY <1>1, <2>1, <2>2, <2>3 DEF TypeOK, OpenTab, wire, agents, history
<1>2. ASSUME NEW j \in Tabs, PressStart(j) \/ PressStop(j)
      PROVE  TypeInv'
  <2>1. PICK from \in {"start", "stop"}, to \in {"start", "stop"}, request \in {"START", "STOP"} :
          Press(j, from, to, request)
    BY <1>2 DEF PressStart, PressStop
  <2>2. requests' \in [Tabs -> Seq({"START", "STOP"})]
    BY <2>1, SendType DEF Press
  <2>3. stops' \in [Tabs -> Nat]
    <3>1. (IF Bound(j) THEN stops[j] + 1 ELSE stops[j]) \in Nat
      BY DEF TypeOK
    <3>2. stops \in [Tabs -> Nat]
      BY DEF TypeOK
    <3>3. stops' = stops \/ stops' = [stops EXCEPT ![j] = IF Bound(j) THEN stops[j] + 1 ELSE stops[j]]
      BY <1>2 DEF PressStart, PressStop
    <3>4. QED  BY <3>1, <3>2, <3>3
  <2>4. early' \in [Tabs -> BOOLEAN]
    <3>1. (early[j] \/ zip[j] # "done") \in BOOLEAN
      OBVIOUS
    <3>2. QED  BY <2>1, <3>1 DEF Press, TypeOK
  <2>5. /\ presses' \in 0 .. MaxPresses
        /\ buttons' \in [Tabs -> {"hidden", "start", "stop"}]
    BY <2>1 DEF Press, TypeOK
  <2>6. UNCHANGED <<jvms, value, emitted, tab, zip, edt, broken, channel, responses,
                    agent, running, sampler, results>>
    BY <2>1 DEF Press, agents
  <2>7. QED  BY <2>2, <2>3, <2>4, <2>5, <2>6 DEF TypeOK, Unopened
<1>3. ASSUME NEW j \in Tabs, CloseTab(j)
      PROVE  TypeInv'
  <2>1. /\ tab' \in [Tabs -> {"new", "open", "closed"}]
        /\ channel' \in [Tabs -> {"none", "open", "closing", "closed"}]
        /\ Unopened'
    BY <1>3 DEF TypeOK, CloseTab, Unopened
  <2>2. QED  BY <1>3, <2>1 DEF TypeOK, CloseTab, agents, history
<1>4. ASSUME NEW j \in Tabs, ConnectStep(j)
      PROVE  TypeInv'
  <2>1. PICK from \in ZipSteps \ {"none", "done"}, to \in ZipSteps : Advance(j, from, to)
    BY <1>4 DEF ConnectStep, AttachVM, SubscribeChannel, CheckLifetime, AddClose, Connected,
                initSession, ZipSteps
  <2>2. UNCHANGED <<jvms, value, emitted, tab, edt, broken, channel, requests, responses,
                    running, sampler, presses, stops, results, early>>
    BY <1>4 DEF ConnectStep, AttachVM, SubscribeChannel, CheckLifetime, AddClose, Connected,
                initSession, wire, agents, history
  <2>3. /\ zip' \in [Tabs -> ZipSteps]
        /\ broken' \subseteq { k \in Tabs : zip'[k] = "done" }
    BY <2>1, <2>2, AdvanceType
  <2>4. Unopened'
    BY <2>1, <2>2 DEF Advance, TypeOK, Unopened
  <2>5. /\ buttons' \in [Tabs -> {"hidden", "start", "stop"}]
        /\ agent' \in [Tabs -> {"none", "loading", "failed", "reading", "done"}]
    BY <1>4, ZenonT(60) DEF TypeOK, ConnectStep, AttachVM, SubscribeChannel, CheckLifetime, AddClose,
                Connected, initSession, agents
  <2>6. QED  BY <2>2, <2>3, <2>4, <2>5 DEF TypeOK
<1>5. ASSUME NEW a \in Tabs, channelRead0(a)
      PROVE  TypeInv'
  BY <1>5, PostType DEF TypeOK, channelRead0, agents, history, Unopened
<1>6. ASSUME NEW a \in Tabs, CloseChannel(a)
      PROVE  TypeInv'
  <2>1. PICK n \in 0 .. Len(requests[a]) : requests' = [requests EXCEPT ![a] = SubSeq(@, 1, n)]
    BY <1>6 DEF CloseChannel
  <2>2. SubSeq(requests[a], 1, n) \in Seq({"START", "STOP"})
    BY Cut DEF TypeOK
  <2>3. requests' \in [Tabs -> Seq({"START", "STOP"})]
    BY <2>1, <2>2 DEF TypeOK
  <2>4. << >> \in Seq({"INIT", "PROF_INFO"})
    BY EmptySeq
  <2>5. QED  BY <1>6, <2>3, <2>4 DEF TypeOK, CloseChannel, ide, agents, history, Unopened
<1>7. ASSUME NEW a \in Tabs, LoadAgent(a)
      PROVE  TypeInv'
  <2>1. responses' \in [Tabs -> Seq({"INIT", "PROF_INFO"})]
    <3>1. responses' = responses \/ responses' = [responses EXCEPT ![a] = <<"INIT">>]
      BY <1>7 DEF LoadAgent
    <3>2. responses \in [Tabs -> Seq({"INIT", "PROF_INFO"})]
      BY DEF TypeOK
    <3>3. QED  BY <3>1, <3>2, ResponseType
  <2>2. /\ agent' \in [Tabs -> {"none", "loading", "failed", "reading", "done"}]
        /\ channel' \in [Tabs -> {"none", "open", "closing", "closed"}]
    <3>1. /\ agent' \in {[agent EXCEPT ![a] = "reading"], [agent EXCEPT ![a] = "failed"]}
          /\ channel' \in {[channel EXCEPT ![a] = "open"], channel}
      BY <1>7 DEF LoadAgent
    <3>2. /\ agent \in [Tabs -> {"none", "loading", "failed", "reading", "done"}]
          /\ channel \in [Tabs -> {"none", "open", "closing", "closed"}]
      BY DEF TypeOK
    <3>3. QED  BY <3>1, <3>2
  <2>3. QED  BY <1>7, <2>1, <2>2 DEF TypeOK, LoadAgent, ide, history, Unopened
<1>8. ASSUME NEW a \in Tabs, AgentStart(a)
      PROVE  TypeInv'
  <2>1. requests' \in [Tabs -> Seq({"START", "STOP"})]
    BY <1>8, RequestType DEF AgentStart
  <2>2. /\ running' \in [Tabs -> BOOLEAN]
        /\ sampler' \in [Pids -> Tabs \cup {None}]
    BY <1>8 DEF TypeOK, AgentStart
  <2>3. QED  BY <1>8, <2>1, <2>2 DEF TypeOK, AgentStart, ReadRequest, ide, history, Unopened
<1>9. ASSUME NEW a \in Tabs, AgentStop(a)
      PROVE  TypeInv'
  <2>1. requests' \in [Tabs -> Seq({"START", "STOP"})]
    BY <1>9, RequestType DEF AgentStop
  <2>2. /\ running' \in [Tabs -> BOOLEAN]
        /\ sampler' \in [Pids -> Tabs \cup {None}]
        /\ agent' \in [Tabs -> {"none", "loading", "failed", "reading", "done"}]
    BY <1>9 DEF TypeOK, AgentStop
  <2>3. responses' \in [Tabs -> Seq({"INIT", "PROF_INFO"})]
    <3>1. Append(responses[a], "PROF_INFO") \in Seq({"INIT", "PROF_INFO"})
      BY ResponseType
    <3>2. \/ responses' = [responses EXCEPT ![a] = Append(responses[a], "PROF_INFO")]
          \/ responses' = responses
      BY <1>9 DEF AgentStop
    <3>3. responses \in [Tabs -> Seq({"INIT", "PROF_INFO"})]
      BY DEF TypeOK
    <3>4. QED  BY <3>1, <3>2, <3>3
  <2>4. QED  BY <1>9, <2>1, <2>2, <2>3 DEF TypeOK, AgentStop, ReadRequest, ide, history, Unopened
<1>10. ASSUME NEW a \in Tabs, AgentLeaves(a)
       PROVE  TypeInv'
  BY <1>10 DEF TypeOK, AgentLeaves, ide, wire, history, Unopened
<1>11. ASSUME NEW a \in Tabs, setChan(a)
       PROVE  TypeInv'
  <2>1. Unopened'
    BY <1>11 DEF TypeOK, setChan, SetChan, Unopened
  <2>2. QED  BY <1>11, <2>1, SetChanType, DispatchedType
             DEF TypeOK, setChan, SetChan, wire, agents, history
<1>12. ASSUME NEW a \in Tabs, result(a)
       PROVE  TypeInv'
  <2>1. Result(a)
    BY <1>12 DEF result, Rejected
  <2>2. broken' \subseteq { k \in Tabs : zip[k] = "done" }
    BY <1>12 DEF result, Rejected, Viewers, Receivers, TypeOK
  <2>3. \A k \in Tabs : Append(results[k], a) \in Seq(Tabs)
    BY Sent DEF TypeOK
  <2>4. results' \in [Tabs -> Seq(Tabs)]
    <3>1. results \in [Tabs -> Seq(Tabs)]
      BY DEF TypeOK
    <3>2. \/ results' = [k \in Tabs |-> IF k \in Viewers(a) THEN Append(results[k], a) ELSE results[k]]
          \/ results' = results
      BY <1>12 DEF result, Rejected
    <3>3. QED  BY <2>3, <3>1, <3>2
  <2>5. QED  BY <2>1, <2>2, <2>4, DispatchedType DEF TypeOK, Result, wire, agents, Unopened
<1>13. ASSUME UNCHANGED vars
       PROVE  TypeInv'
  BY <1>13 DEF TypeOK, vars, ide, wire, agents, history, Unopened
<1>14. QED
  BY <1>1, <1>2, <1>3, <1>4, <1>5, <1>6, <1>7, <1>8, <1>9, <1>10, <1>11, <1>12, <1>13
  DEF Next, ServerStep, AgentStep, Dispatch

\* Session.TypeOK: every reachable state is well typed.
THEOREM TypeCorrect == Spec => []TypeOK
<1>1. TypeInv => TypeOK
  BY DEF TypeInv
<1>2. QED  BY <1>1, TypeInit, TypeStep, PTL DEF Spec
-----------------------------------------------------------------------------
(***************************************************************************)
(* Who samples a JVM.  One copy of the agent serves requests at a time, as *)
(* there is one attach listener, and a copy that was not loaded yet has    *)
(* never been the one that samples.                                        *)
(***************************************************************************)
Idle(a) == agent[a] \in {"none", "loading", "failed"}

OneReader ==
  \A a, b \in Tabs :
    agent[a] = "reading" /\ agent[b] = "reading" /\ PidOf[a] = PidOf[b] => a = b

IdleNotSampling ==
  \A a \in Tabs : Idle(a) => ~running[a] /\ sampler[PidOf[a]] # a

\* An agent is loaded only once its tab has attached to the JVM.
Unattached(j) == zip[j] \in {"none", "attaching", "failed"}

AttachedFirst == \A j \in Tabs : Unattached(j) => agent[j] = "none"

SampledInv == TypeInv /\ AttachedFirst /\ OneReader /\ IdleNotSampling /\ SessionIsSampled

LEMMA SampledInit == Init => SampledInv
<1> SUFFICES ASSUME Init PROVE SampledInv
  OBVIOUS
<1>1. TypeInv
  BY TypeInit
<1>2. AttachedFirst /\ OneReader /\ IdleNotSampling /\ SessionIsSampled
  BY SessionAssumption DEF Init, AttachedFirst, OneReader, IdleNotSampling, SessionIsSampled
<1>3. QED  BY <1>1, <1>2 DEF SampledInv

LEMMA AgentsStep ==
  ASSUME [Next]_vars
  PROVE  \/ UNCHANGED agents
         \/ \E a \in Tabs : AttachVM(a) \/ AgentStep(a)
BY DEF Next, vars, OpenTab, PressStart, PressStop, Press, CloseTab, ConnectStep, SubscribeChannel,
       CheckLifetime, AddClose, Connected, initSession, ServerStep, channelRead0, CloseChannel,
       Dispatch, setChan, result, Rejected, Result

LEMMA AttachVMAgents ==
  ASSUME TypeInv, NEW a \in Tabs, AttachVM(a)
  PROVE  /\ Unattached(a) /\ UNCHANGED <<running, sampler>>
         /\ agent' = [agent EXCEPT ![a] = "loading"] \/ UNCHANGED agent
BY DEF AttachVM, Advance, Unattached

LEMMA AttachedStep ==
  ASSUME TypeInv, AttachedFirst, [Next]_vars
  PROVE  AttachedFirst'
<1>0. /\ agent \in [Tabs -> {"none", "loading", "failed", "reading", "done"}]
      /\ zip \in [Tabs -> ZipSteps]
  BY DEF TypeInv, TypeOK
<1>1. ASSUME NEW j \in Tabs, OpenTab(j)
      PROVE  AttachedFirst'
  BY <1>0, <1>1 DEF OpenTab, TypeInv, Unopened, AttachedFirst, Unattached, agents
<1>2. ASSUME NEW j \in Tabs, AttachVM(j)
      PROVE  AttachedFirst'
  BY <1>0, <1>2 DEF AttachVM, Advance, AttachedFirst, Unattached
<1>3. ASSUME NEW j \in Tabs,
             SubscribeChannel(j) \/ CheckLifetime(j) \/ AddClose(j) \/ Connected(j) \/ initSession(j)
      PROVE  AttachedFirst'
  BY <1>0, <1>3 DEF SubscribeChannel, CheckLifetime, AddClose, Connected, initSession, Advance,
                    AttachedFirst, Unattached, agents
<1>4. ASSUME NEW a \in Tabs, AgentStep(a)
      PROVE  AttachedFirst'
  <2>1. zip' = zip /\ agent[a] # "none" /\ \A k \in Tabs \ {a} : agent'[k] = agent[k]
    BY <1>0, <1>4 DEF AgentStep, LoadAgent, AgentStart, AgentStop, AgentLeaves, ReadRequest, ide
  <2>2. QED  BY <2>1 DEF AttachedFirst, Unattached
<1>5. ASSUME NEW a \in Tabs, setChan(a)
      PROVE  AttachedFirst'
  <2>1. agent' = agent /\ \A k \in Tabs : zip'[k] # zip[k] => zip'[k] \in {"done", "rejected"}
    BY <1>0, <1>5 DEF setChan, SetChan, agents
  <2>2. QED  BY <2>1 DEF AttachedFirst, Unattached
<1>6. CASE UNCHANGED <<zip, agent>>
  BY <1>6 DEF AttachedFirst, Unattached
<1>7. ASSUME NEW j \in Tabs,
             \/ PressStart(j) \/ PressStop(j) \/ CloseTab(j)
             \/ ServerStep(j) \/ result(j)
      PROVE  UNCHANGED <<zip, agent>>
  BY <1>7 DEF PressStart, PressStop, Press, CloseTab, ServerStep, channelRead0, CloseChannel,
              result, Rejected, Result, agents, ide
<1>8. UNCHANGED vars => UNCHANGED <<zip, agent>>
  BY DEF vars, ide, agents
<1>9. QED  BY <1>1, <1>2, <1>3, <1>4, <1>5, <1>6, <1>7, <1>8 DEF Next, ConnectStep, Dispatch

LEMMA SampledStep ==
  ASSUME SampledInv, [Next]_vars
  PROVE  SampledInv'
<1> USE SessionAssumption DEF SampledInv
<1>0. /\ TypeInv' /\ AttachedFirst'
      /\ agent \in [Tabs -> {"none", "loading", "failed", "reading", "done"}]
      /\ running \in [Tabs -> BOOLEAN]
      /\ sampler \in [Pids -> Tabs \cup {None}]
  BY TypeStep, AttachedStep DEF TypeInv, TypeOK
<1>1. CASE UNCHANGED agents
  BY <1>0, <1>1 DEF agents, OneReader, IdleNotSampling, SessionIsSampled, Idle
<1>2. ASSUME NEW a \in Tabs, AttachVM(a)
      PROVE  SampledInv'
  <2>1. agent[a] = "none"
    BY <1>2, AttachVMAgents DEF AttachedFirst
  <2>2. QED
    BY <1>0, <1>2, <2>1, AttachVMAgents DEF OneReader, IdleNotSampling, SessionIsSampled, Idle
<1>3. ASSUME NEW a \in Tabs, LoadAgent(a)
      PROVE  SampledInv'
  <2>1. /\ agent[a] = "loading" /\ \A k \in Tabs : PidOf[k] = PidOf[a] => agent[k] # "reading"
        /\ agent' = [agent EXCEPT ![a] = "reading"] \/ agent' = [agent EXCEPT ![a] = "failed"]
        /\ UNCHANGED <<running, sampler>>
    BY <1>3 DEF LoadAgent
  <2>2. QED  BY <1>0, <2>1 DEF OneReader, IdleNotSampling, SessionIsSampled, Idle
<1>4. ASSUME NEW a \in Tabs, AgentStart(a)
      PROVE  SampledInv'
  <2>1. /\ agent[a] = "reading" /\ UNCHANGED agent
        /\ running' = [running EXCEPT ![a] = TRUE]
        /\ sampler' = IF running[a] THEN sampler ELSE [sampler EXCEPT ![PidOf[a]] = a]
    BY <1>4 DEF AgentStart, ReadRequest
  <2>2. OneReader' /\ IdleNotSampling'
    BY <1>0, <2>1 DEF OneReader, IdleNotSampling, Idle
  <2>3. SessionIsSampled'
    BY <1>0, <2>1 DEF OneReader, SessionIsSampled
  <2>4. QED  BY <1>0, <2>2, <2>3
<1>5. ASSUME NEW a \in Tabs, AgentStop(a)
      PROVE  SampledInv'
  <2>1. /\ agent[a] = "reading" /\ agent' \in {agent, [agent EXCEPT ![a] = "done"]}
        /\ running' = [running EXCEPT ![a] = FALSE]
        /\ sampler' = IF running[a] THEN [sampler EXCEPT ![PidOf[a]] = None] ELSE sampler
    BY <1>5 DEF AgentStop, ReadRequest
  <2>2. OneReader' /\ IdleNotSampling'
    BY <1>0, <2>1 DEF OneReader, IdleNotSampling, Idle
  <2>3. SessionIsSampled'
    BY <1>0, <2>1 DEF OneReader, SessionIsSampled
  <2>4. QED  BY <1>0, <2>2, <2>3
<1>6. ASSUME NEW a \in Tabs, AgentLeaves(a)
      PROVE  SampledInv'
  <2>1. agent' = [agent EXCEPT ![a] = "done"] /\ UNCHANGED <<running, sampler>>
    BY <1>6 DEF AgentLeaves
  <2>2. QED  BY <1>0, <2>1 DEF OneReader, IdleNotSampling, SessionIsSampled, Idle
<1>7. QED  BY <1>1, <1>2, <1>3, <1>4, <1>5, <1>6, AgentsStep DEF AgentStep

\* Session.SessionIsSampled: the handler and the timer of a JVM belong to the
\* copy of the agent whose session was started, however many copies are loaded.
THEOREM TimerIsOfTheSession == Spec => []SessionIsSampled
<1>1. SampledInv => SessionIsSampled
  BY DEF SampledInv
<1>2. QED  BY <1>1, SampledInit, SampledStep, PTL DEF Spec
-----------------------------------------------------------------------------
(***************************************************************************)
(* The registry: a pid leads to an open tab of its own, and the subject of *)
(* a tab completes, once, with a connection from that JVM.                 *)
(***************************************************************************)
Registered ==
  \A pid \in Pids : jvms[pid] # None => PidOf[jvms[pid]] = pid /\ tab[jvms[pid]] # "new"

OpenedIsKnown == \A j \in Tabs : tab[j] # "new" => jvms[PidOf[j]] # None

HasChannel(j) ==
  zip[j] \in {"arrived", "adding", "connecting", "binding", "listening", "done", "rejected"}

Subjects ==
  \A j \in Tabs :
    /\ tab[j] = "new" => emitted[j] = None
    /\ value[j] = None <=> emitted[j] = None
    /\ emitted[j] # None => PidOf[emitted[j]] = PidOf[j]
    /\ HasChannel(j) => emitted[j] # None

RegistryInv == SampledInv /\ Registered /\ OpenedIsKnown /\ Subjects

LEMMA RegistryInit == Init => RegistryInv
<1> SUFFICES ASSUME Init PROVE RegistryInv
  OBVIOUS
<1>1. SampledInv
  BY SampledInit
<1>2. Registered /\ OpenedIsKnown /\ Subjects
  BY SessionAssumption DEF Init, Registered, OpenedIsKnown, Subjects, HasChannel
<1>3. QED  BY <1>1, <1>2 DEF RegistryInv

LEMMA RegistryTypes ==
  ASSUME TypeInv
  PROVE  /\ jvms \in [Pids -> Tabs \cup {None}]
         /\ value \in [Tabs -> Tabs \cup {None}]
         /\ emitted \in [Tabs -> Tabs \cup {None}]
         /\ tab \in [Tabs -> {"new", "open", "closed"}]
         /\ zip \in [Tabs -> ZipSteps]
         /\ PidOf \in [Tabs -> Pids] /\ None \notin Tabs
BY SessionAssumption DEF TypeInv, TypeOK

LEMMA RegistryStep ==
  ASSUME RegistryInv, [Next]_vars
  PROVE  RegistryInv'
<1> USE DEF RegistryInv
<1>0. SampledInv' /\ TypeInv
  BY SampledStep DEF SampledInv
<1>1. ASSUME NEW j \in Tabs, OpenTab(j)
      PROVE  RegistryInv'
  <2>1. UNCHANGED <<value, emitted>>
    BY <1>1 DEF OpenTab
  <2>2. Registered' /\ OpenedIsKnown'
    BY <1>0, <1>1, RegistryTypes DEF OpenTab, Registered, OpenedIsKnown
  <2>3. Subjects'
    BY <1>0, <1>1, <2>1, RegistryTypes DEF OpenTab, Subjects, HasChannel
  <2>4. QED  BY <1>0, <2>2, <2>3
<1>2. ASSUME NEW j \in Tabs, CloseTab(j)
      PROVE  RegistryInv'
  <2>1. /\ tab[j] = "open" /\ tab' = [tab EXCEPT ![j] = "closed"]
        /\ UNCHANGED <<jvms, value, emitted, zip>>
    BY <1>2 DEF CloseTab
  <2>2. QED  BY <1>0, <2>1, RegistryTypes DEF Registered, OpenedIsKnown, Subjects, HasChannel
<1>3. ASSUME NEW j \in Tabs, ConnectStep(j)
      PROVE  RegistryInv'
  <2>1. UNCHANGED <<jvms, value, emitted, tab>>
    BY <1>3 DEF ConnectStep, AttachVM, SubscribeChannel, CheckLifetime, AddClose, Connected,
                initSession
  <2>2. ASSUME NEW k \in Tabs, HasChannel(k)'
        PROVE  emitted[k] # None
    BY <1>0, <1>3, <2>2, RegistryTypes DEF Subjects, HasChannel, ConnectStep, AttachVM,
       SubscribeChannel, CheckLifetime, AddClose, Connected, initSession, Advance
  <2>3. QED  BY <1>0, <2>1, <2>2 DEF Registered, OpenedIsKnown, Subjects
<1>4. ASSUME NEW a \in Tabs, setChan(a)
      PROVE  RegistryInv'
  <2> DEFINE j == jvms[PidOf[a]]
  <2>1. /\ UNCHANGED <<jvms, tab>>
        /\ value' = [value EXCEPT ![j] = a]
        /\ emitted' = [emitted EXCEPT ![j] = IF emitted[j] = None THEN a ELSE @]
        /\ zip' = zip \/ (emitted[j] = None /\ zip' = [zip EXCEPT ![j] = IF tab[j] = "open" THEN "done" ELSE "rejected"])
    BY <1>4 DEF setChan, SetChan
  <2>2. Registered' /\ OpenedIsKnown'
    BY <2>1 DEF Registered, OpenedIsKnown
  <2>3. j \in Tabs => PidOf[j] = PidOf[a] /\ tab[j] # "new"
    BY <1>0, RegistryTypes DEF Registered
  <2>4. Subjects'
    BY <1>0, <2>1, <2>3, RegistryTypes DEF Subjects, HasChannel
  <2>5. QED  BY <1>0, <2>2, <2>4
<1>5. CASE UNCHANGED <<jvms, value, emitted, tab, zip>>
  BY <1>0, <1>5 DEF Registered, OpenedIsKnown, Subjects, HasChannel
<1>6. ASSUME NEW j \in Tabs,
             PressStart(j) \/ PressStop(j) \/ ServerStep(j) \/ AgentStep(j) \/ result(j)
      PROVE  UNCHANGED <<jvms, value, emitted, tab, zip>>
  BY <1>6 DEF PressStart, PressStop, Press, ServerStep, channelRead0, CloseChannel, AgentStep,
              LoadAgent, AgentStart, AgentStop, AgentLeaves, ReadRequest, result, Rejected, Result, ide
<1>7. UNCHANGED vars => UNCHANGED <<jvms, value, emitted, tab, zip>>
  BY DEF vars, ide
<1>8. QED  BY <1>1, <1>2, <1>3, <1>4, <1>5, <1>6, <1>7 DEF Next, Dispatch
-----------------------------------------------------------------------------
(***************************************************************************)
(* The connections.  An agent sends INIT once and first, its channel is    *)
(* closed only by the tab that took it, and nobody can take it before its  *)
(* INIT was dispatched.                                                    *)
(***************************************************************************)
Posted(a) == \E i \in DOMAIN edt : edt[i].from = a

Emitted(a) == \E j \in Tabs : emitted[j] = a

Hello(a) == [type |-> "INIT", from |-> a]

IdleSilent ==
  \A a \in Tabs :
    Idle(a) => /\ channel[a] = "none" /\ requests[a] = << >> /\ responses[a] = << >>
               /\ ~Posted(a) /\ ~Emitted(a)

ClosedChannels ==
  \A a \in Tabs :
    /\ agent[a] = "reading" => channel[a] # "none"
    /\ agent[a] = "done" => channel[a] = "closed"
    /\ channel[a] = "closed" => responses[a] = << >>
    /\ channel[a] \in {"closing", "closed"} => \E j \in Tabs : emitted[j] = a /\ tab[j] = "closed"

InitIsFirstSent ==
  \A a \in Tabs : \A i \in DOMAIN responses[a] :
    responses[a][i] = "INIT" => i = 1 /\ ~Posted(a) /\ ~Emitted(a)

InitIsFirstPosted ==
  \A a \in Tabs : \A i \in DOMAIN edt :
    edt[i] = Hello(a) => ~Emitted(a) /\ \A k \in 1 .. i - 1 : edt[k].from # a

Wires == IdleSilent /\ ClosedChannels /\ InitIsFirstSent /\ InitIsFirstPosted /\ OneTabPerAgent

WireInv == RegistryInv /\ Wires

LEMMA WireInit == Init => WireInv
<1> SUFFICES ASSUME Init PROVE WireInv
  OBVIOUS
<1>1. RegistryInv
  BY RegistryInit
<1>2. /\ edt = << >> /\ DOMAIN edt = {}
      /\ \A a \in Tabs : ~Emitted(a) /\ ~Posted(a)
  BY SessionAssumption DEF Init, Emitted, Posted
<1>3. IdleSilent /\ ClosedChannels
  BY <1>2 DEF Init, IdleSilent, ClosedChannels
<1>4. InitIsFirstSent /\ InitIsFirstPosted /\ OneTabPerAgent
  BY <1>2 DEF Init, InitIsFirstSent, InitIsFirstPosted, OneTabPerAgent
<1>5. QED  BY <1>1, <1>3, <1>4 DEF WireInv, Wires

LEMMA WireTypes ==
  ASSUME TypeInv
  PROVE  /\ emitted \in [Tabs -> Tabs \cup {None}] /\ None \notin Tabs
         /\ tab \in [Tabs -> {"new", "open", "closed"}]
         /\ edt \in Seq(Messages)
         /\ channel \in [Tabs -> {"none", "open", "closing", "closed"}]
         /\ requests \in [Tabs -> Seq({"START", "STOP"})]
         /\ responses \in [Tabs -> Seq({"INIT", "PROF_INFO"})]
         /\ agent \in [Tabs -> {"none", "loading", "failed", "reading", "done"}]
BY SessionAssumption DEF TypeInv, TypeOK

LEMMA WireOpenTab ==
  ASSUME WireInv, NEW j \in Tabs, OpenTab(j)
  PROVE  Wires'
<1>1. UNCHANGED <<emitted, edt, channel, requests, responses, agent>>
  BY DEF OpenTab, wire, agents
<1>2. \A k \in Tabs : tab[k] = "closed" => tab'[k] = "closed"
  BY WireTypes DEF OpenTab, WireInv, RegistryInv, SampledInv
<1>3. ClosedChannels'
  BY <1>1, <1>2 DEF WireInv, Wires, ClosedChannels
<1>4. \A a \in Tabs : Emitted(a)' = Emitted(a) /\ Posted(a)' = Posted(a) /\ Idle(a)' = Idle(a)
  BY <1>1 DEF Emitted, Posted, Idle
<1>5. IdleSilent' /\ InitIsFirstSent' /\ InitIsFirstPosted' /\ OneTabPerAgent'
  BY <1>1, <1>4 DEF WireInv, Wires, IdleSilent, InitIsFirstSent, InitIsFirstPosted, OneTabPerAgent, Hello
<1>6. QED  BY <1>3, <1>5 DEF Wires

LEMMA WirePress ==
  ASSUME WireInv, NEW j \in Tabs, PressStart(j) \/ PressStop(j)
  PROVE  Wires'
<1>1. UNCHANGED <<emitted, tab, edt, channel, responses, agent>>
  BY DEF PressStart, PressStop, Press, agents
<1>2. \A a \in Tabs : Emitted(a)' = Emitted(a) /\ Posted(a)' = Posted(a) /\ Idle(a)' = Idle(a)
  BY <1>1 DEF Emitted, Posted, Idle
<1>3. ClosedChannels' /\ InitIsFirstSent' /\ InitIsFirstPosted' /\ OneTabPerAgent'
  BY <1>1, <1>2 DEF WireInv, Wires, ClosedChannels, InitIsFirstSent, InitIsFirstPosted, OneTabPerAgent, Hello
<1>4. PICK request : Send(j, request)
  BY DEF PressStart, PressStop, Press
<1>5. \A a \in Tabs : channel[a] # "open" => requests'[a] = requests[a]
  BY <1>4, WireTypes DEF Send, WireInv, RegistryInv, SampledInv
<1>6. IdleSilent'
  BY <1>1, <1>2, <1>5 DEF WireInv, Wires, IdleSilent
<1>7. QED  BY <1>3, <1>6 DEF Wires

LEMMA WireCloseTab ==
  ASSUME WireInv, NEW j \in Tabs, CloseTab(j)
  PROVE  Wires'
<1> DEFINE a == emitted[j]
<1>0. TypeInv
  BY DEF WireInv, RegistryInv, SampledInv
<1>1. UNCHANGED <<emitted, edt, requests, responses, agent>>
  BY DEF CloseTab, agents
<1>2. \A b \in Tabs : Emitted(b)' = Emitted(b) /\ Posted(b)' = Posted(b) /\ Idle(b)' = Idle(b)
  BY <1>1 DEF Emitted, Posted, Idle
<1>3. /\ tab[j] = "open" /\ tab' = [tab EXCEPT ![j] = "closed"]
      /\ channel' = IF HasSession(j) THEN [channel EXCEPT ![a] = "closing"] ELSE channel
  BY DEF CloseTab
<1>4. HasSession(j) => a \in Tabs /\ ~Idle(a) /\ channel[a] \notin {"closing", "closed"}
  <2> HAVE HasSession(j)
  <2>1. a \in Tabs
    BY <1>0, WireTypes DEF WireInv, RegistryInv, Subjects, HasSession, HasChannel
  <2>2. Emitted(a)
    BY DEF Emitted
  <2>3. ~Idle(a)
    BY <2>1, <2>2 DEF WireInv, Wires, IdleSilent
  <2>4. channel[a] \notin {"closing", "closed"}
    <3>1. ASSUME NEW k \in Tabs, emitted[k] = a
          PROVE  tab[k] # "closed"
      <4>1. k = j
        BY <1>0, <2>1, <3>1, WireTypes DEF WireInv, Wires, OneTabPerAgent
      <4>2. QED  BY <4>1, <1>3
    <3>2. QED  BY <2>1, <3>1 DEF WireInv, Wires, ClosedChannels
  <2>5. QED  BY <2>1, <2>3, <2>4
<1>5. InitIsFirstSent' /\ InitIsFirstPosted' /\ OneTabPerAgent'
  BY <1>1, <1>2 DEF WireInv, Wires, InitIsFirstSent, InitIsFirstPosted, OneTabPerAgent, Hello
<1>6. IdleSilent'
  BY <1>0, <1>1, <1>2, <1>3, <1>4, WireTypes DEF WireInv, Wires, IdleSilent
<1>7. ClosedChannels'
  <2>1. \A k \in Tabs : tab[k] = "closed" => tab'[k] = "closed"
    BY <1>0, <1>3, WireTypes
  <2>2. tab'[j] = "closed" /\ emitted'[j] = a
    BY <1>0, <1>1, <1>3, WireTypes
  <2>3. ASSUME NEW b \in Tabs, channel'[b] # channel[b]
        PROVE  b = a /\ channel'[b] = "closing" /\ agent[b] # "done"
    BY <1>0, <1>3, <1>4, <2>3, WireTypes DEF WireInv, Wires, ClosedChannels
  <2>4. QED  BY <1>1, <2>1, <2>2, <2>3 DEF WireInv, Wires, ClosedChannels
<1>8. QED  BY <1>5, <1>6, <1>7 DEF Wires

LEMMA WireConnectStep ==
  ASSUME WireInv, NEW j \in Tabs, ConnectStep(j)
  PROVE  Wires'
<1>1. UNCHANGED <<emitted, tab, edt, channel, requests, responses>>
  BY DEF ConnectStep, AttachVM, SubscribeChannel, CheckLifetime, AddClose, Connected, initSession, wire
<1>2. agent' = agent \/ (agent[j] = "none" /\ agent' = [agent EXCEPT ![j] = "loading"])
  <2>1. agent' = agent \/ AttachVM(j)
    BY DEF ConnectStep, SubscribeChannel, CheckLifetime, AddClose, Connected, initSession, agents
  <2>2. QED  BY <2>1, AttachVMAgents DEF WireInv, RegistryInv, SampledInv, AttachedFirst
<1>3. \A a \in Tabs : Emitted(a)' = Emitted(a) /\ Posted(a)' = Posted(a)
  BY <1>1 DEF Emitted, Posted
<1>4. InitIsFirstSent' /\ InitIsFirstPosted' /\ OneTabPerAgent'
  BY <1>1, <1>3 DEF WireInv, Wires, InitIsFirstSent, InitIsFirstPosted, OneTabPerAgent, Hello
<1>5. IdleSilent' /\ ClosedChannels'
  BY <1>1, <1>2, <1>3, WireTypes
  DEF WireInv, RegistryInv, SampledInv, Wires, IdleSilent, ClosedChannels, Idle
<1>6. QED  BY <1>4, <1>5 DEF Wires

LEMMA WireChannelRead ==
  ASSUME WireInv, NEW a \in Tabs, channelRead0(a)
  PROVE  Wires'
<1> DEFINE sent == [type |-> Head(responses[a]), from |-> a]
<1>0. TypeInv
  BY DEF WireInv, RegistryInv, SampledInv
<1>1. /\ UNCHANGED <<emitted, tab, channel, requests, agent>>
      /\ channel[a] \in {"open", "closing"} /\ responses[a] # << >>
      /\ responses' = [responses EXCEPT ![a] = Tail(@)]
      /\ edt' = Append(edt, sent)
  BY DEF channelRead0, agents
<1>2. \A b \in Tabs : Emitted(b)' = Emitted(b) /\ Idle(b)' = Idle(b)
  BY <1>1 DEF Emitted, Idle
<1>3. ~Idle(a)
  BY <1>1 DEF WireInv, Wires, IdleSilent
<1>4. /\ responses[a] \in Seq({"INIT", "PROF_INFO"})
      /\ sent \in Messages
      /\ Head(responses[a]) = responses[a][1] /\ 1 \in DOMAIN responses[a]
      /\ responses'[a] = Tail(responses[a])
      /\ \A i \in DOMAIN responses'[a] : i + 1 \in DOMAIN responses[a] /\ i + 1 # 1
                                            /\ responses'[a][i] = responses[a][i + 1]
      /\ \A b \in Tabs \ {a} : responses'[b] = responses[b]
  <2>1. responses[a] \in Seq({"INIT", "PROF_INFO"}) /\ responses'[a] = Tail(responses[a])
    BY <1>0, <1>1, WireTypes
  <2>2. sent \in Messages
    BY <1>1, <2>1, Read DEF Messages
  <2>3. \A b \in Tabs \ {a} : responses'[b] = responses[b]
    BY <1>0, <1>1, WireTypes
  <2>4. /\ Head(responses[a]) = responses[a][1] /\ 1 \in DOMAIN responses[a]
        /\ Len(responses[a]) \in Nat /\ DOMAIN responses[a] = 1 .. Len(responses[a])
        /\ DOMAIN responses'[a] = 1 .. Len(responses[a]) - 1
        /\ \A i \in 1 .. Len(responses[a]) - 1 : responses'[a][i] = responses[a][i + 1]
    <3> DEFINE old == responses[a]
    <3> HIDE DEF old
    <3>1. old \in Seq({"INIT", "PROF_INFO"}) /\ old # << >> /\ responses'[a] = Tail(old)
      BY <1>1, <2>1 DEF old
    <3>2. /\ Head(old) = old[1] /\ Len(old) \in Nat /\ Len(old) >= 1 /\ DOMAIN old = 1 .. Len(old)
          /\ DOMAIN Tail(old) = 1 .. Len(old) - 1
          /\ \A i \in 1 .. Len(old) - 1 : Tail(old)[i] = old[i + 1]
      BY <3>1, Read
    <3>3. /\ Head(old) = old[1] /\ 1 \in DOMAIN old
          /\ Len(old) \in Nat /\ DOMAIN old = 1 .. Len(old)
          /\ DOMAIN responses'[a] = 1 .. Len(old) - 1
          /\ \A i \in 1 .. Len(old) - 1 : responses'[a][i] = old[i + 1]
      BY <3>1, <3>2
    <3>4. QED  BY <3>3 DEF old
  <2>5. \A i \in DOMAIN responses'[a] : i + 1 \in DOMAIN responses[a] /\ i + 1 # 1
                                         /\ responses'[a][i] = responses[a][i + 1]
    BY <2>4
  <2>6. QED  BY <2>1, <2>2, <2>3, <2>4, <2>5
<1>5. /\ Len(edt) \in Nat /\ DOMAIN edt = 1 .. Len(edt) /\ DOMAIN edt' = 1 .. Len(edt) + 1
      /\ edt'[Len(edt) + 1] = sent
      /\ \A i \in DOMAIN edt : edt'[i] = edt[i]
  BY <1>0, <1>1, <1>4, Sent, WireTypes
<1>6. \A b \in Tabs \ {a} : Posted(b)' => Posted(b)
  BY <1>5 DEF Posted
<1>7. IdleSilent'
  BY <1>1, <1>2, <1>3, <1>4, <1>6 DEF WireInv, Wires, IdleSilent
<1>8. ClosedChannels'
  BY <1>1, <1>4 DEF WireInv, Wires, ClosedChannels
<1>9. InitIsFirstSent'
  <2>1. ASSUME NEW i \in DOMAIN responses'[a]
        PROVE  responses'[a][i] # "INIT"
    BY <1>4 DEF WireInv, Wires, InitIsFirstSent
  <2>2. ASSUME NEW b \in Tabs \ {a}, NEW i \in DOMAIN responses'[b], responses'[b][i] = "INIT"
        PROVE  i = 1 /\ ~Posted(b)' /\ ~Emitted(b)'
    BY <1>2, <1>4, <1>6, <2>2 DEF WireInv, Wires, InitIsFirstSent
  <2>3. QED  BY <2>1, <2>2 DEF InitIsFirstSent
<1>10. InitIsFirstPosted'
  <2>1. ASSUME NEW b \in Tabs, NEW i \in DOMAIN edt', edt'[i] = Hello(b)
        PROVE  ~Emitted(b) /\ \A k \in 1 .. i - 1 : edt'[k].from # b
    <3>1. CASE i \in DOMAIN edt
      BY <1>5, <2>1, <3>1 DEF WireInv, Wires, InitIsFirstPosted
    <3>2. CASE i = Len(edt) + 1
      <4>1. b = a /\ responses[a][1] = "INIT"
        BY <1>4, <1>5, <2>1, <3>2 DEF Hello
      <4>2. ~Emitted(a) /\ ~Posted(a)
        BY <1>4, <4>1 DEF WireInv, Wires, InitIsFirstSent
      <4>3. QED  BY <1>5, <3>2, <4>1, <4>2 DEF Posted
    <3>3. QED  BY <1>5, <3>1, <3>2
  <2>2. QED  BY <1>2, <2>1 DEF InitIsFirstPosted, Hello
<1>11. OneTabPerAgent'
  BY <1>1 DEF WireInv, Wires, OneTabPerAgent
<1>12. QED  BY <1>7, <1>8, <1>9, <1>10, <1>11 DEF Wires

LEMMA WireCloseChannel ==
  ASSUME WireInv, NEW a \in Tabs, CloseChannel(a)
  PROVE  Wires'
<1>0. TypeInv
  BY DEF WireInv, RegistryInv, SampledInv
<1>1. /\ UNCHANGED <<emitted, tab, edt, agent>>
      /\ channel[a] = "closing" /\ channel' = [channel EXCEPT ![a] = "closed"]
      /\ responses' = [responses EXCEPT ![a] = << >>]
      /\ \A b \in Tabs \ {a} : requests'[b] = requests[b]
  BY <1>0, WireTypes DEF CloseChannel, ide, agents
<1>2. \A b \in Tabs : Emitted(b)' = Emitted(b) /\ Posted(b)' = Posted(b) /\ Idle(b)' = Idle(b)
  BY <1>1 DEF Emitted, Posted, Idle
<1>3. ~Idle(a)
  BY <1>1 DEF WireInv, Wires, IdleSilent
<1>4. IdleSilent' /\ ClosedChannels'
  BY <1>0, <1>1, <1>2, <1>3, WireTypes DEF WireInv, Wires, IdleSilent, ClosedChannels
<1>5. InitIsFirstSent'
  <2>1. responses'[a] = << >> /\ \A b \in Tabs \ {a} : responses'[b] = responses[b]
    BY <1>0, <1>1, WireTypes
  <2>2. DOMAIN responses'[a] = {}
    BY <2>1
  <2>3. QED  BY <1>2, <2>1, <2>2 DEF WireInv, Wires, InitIsFirstSent
<1>6. InitIsFirstPosted' /\ OneTabPerAgent'
  BY <1>1, <1>2 DEF WireInv, Wires, InitIsFirstPosted, OneTabPerAgent, Hello
<1>7. QED  BY <1>4, <1>5, <1>6 DEF Wires

LEMMA WireLoadAgent ==
  ASSUME WireInv, NEW a \in Tabs, LoadAgent(a)
  PROVE  Wires'
<1>0. TypeInv
  BY DEF WireInv, RegistryInv, SampledInv
<1>1. /\ UNCHANGED <<emitted, tab, edt, requests>> /\ Idle(a)
      /\ \/ /\ agent' = [agent EXCEPT ![a] = "reading"]
            /\ channel' = [channel EXCEPT ![a] = "open"]
            /\ responses' = [responses EXCEPT ![a] = <<"INIT">>]
         \/ agent' = [agent EXCEPT ![a] = "failed"] /\ UNCHANGED <<channel, responses>>
  BY DEF LoadAgent, ide, Idle
<1>2. \A b \in Tabs : Emitted(b)' = Emitted(b) /\ Posted(b)' = Posted(b)
  BY <1>1 DEF Emitted, Posted
<1>3. ~Posted(a) /\ ~Emitted(a)
  BY <1>1 DEF WireInv, Wires, IdleSilent
<1>4. IdleSilent' /\ ClosedChannels'
  <2>1. CASE channel' = channel
    BY <1>0, <1>1, <1>2, <2>1, WireTypes DEF WireInv, Wires, IdleSilent, ClosedChannels, Idle
  <2>2. CASE /\ agent' = [agent EXCEPT ![a] = "reading"]
             /\ channel' = [channel EXCEPT ![a] = "open"]
             /\ responses' = [responses EXCEPT ![a] = <<"INIT">>]
    BY <1>0, <1>1, <1>2, <2>2, WireTypes DEF WireInv, Wires, IdleSilent, ClosedChannels, Idle
  <2>3. QED  BY <1>1, <2>1, <2>2
<1>5. InitIsFirstSent'
  <2>1. \A b \in Tabs : responses'[b] = responses[b] \/ (b = a /\ responses'[a] = <<"INIT">>)
    BY <1>0, <1>1, WireTypes
  <2>2. DOMAIN <<"INIT">> = {1}
    OBVIOUS
  <2>3. QED  BY <1>2, <1>3, <2>1, <2>2 DEF WireInv, Wires, InitIsFirstSent
<1>6. InitIsFirstPosted' /\ OneTabPerAgent'
  BY <1>1, <1>2 DEF WireInv, Wires, InitIsFirstPosted, OneTabPerAgent, Hello
<1>7. QED  BY <1>4, <1>5, <1>6 DEF Wires

\* What the request loop does to the connections.
LEMMA WireAgentLoop ==
  ASSUME WireInv, NEW a \in Tabs, AgentStart(a) \/ AgentStop(a) \/ AgentLeaves(a)
  PROVE  Wires'
<1>0. TypeInv
  BY DEF WireInv, RegistryInv, SampledInv
<1>1. /\ UNCHANGED <<emitted, tab, edt, channel>> /\ agent[a] = "reading"
      /\ agent' = agent \/ (channel[a] = "closed" /\ agent' = [agent EXCEPT ![a] = "done"])
      /\ \/ responses' = responses
         \/ channel[a] # "closed" /\ responses' = [responses EXCEPT ![a] = Append(@, "PROF_INFO")]
      /\ \A b \in Tabs \ {a} : requests'[b] = requests[b]
  BY <1>0, WireTypes DEF AgentStart, AgentStop, AgentLeaves, ReadRequest, ide, wire
<1>2. \A b \in Tabs : Emitted(b)' = Emitted(b) /\ Posted(b)' = Posted(b)
  BY <1>1 DEF Emitted, Posted
<1>3. /\ agent'[a] \in {"reading", "done"} /\ (agent'[a] = "done" => channel[a] = "closed")
      /\ \A b \in Tabs \ {a} : agent'[b] = agent[b] /\ responses'[b] = responses[b]
      /\ channel[a] = "closed" => responses'[a] = responses[a]
  BY <1>0, <1>1, WireTypes
<1>4. IdleSilent'
  BY <1>1, <1>2, <1>3 DEF WireInv, Wires, IdleSilent, Idle
<1>5. ClosedChannels'
  BY <1>1, <1>3 DEF WireInv, Wires, ClosedChannels
<1>6. InitIsFirstSent'
  <2>1. ASSUME NEW i \in DOMAIN responses'[a], responses'[a][i] = "INIT"
        PROVE  i \in DOMAIN responses[a] /\ responses[a][i] = "INIT"
    <3>1. CASE responses' = responses
      BY <2>1, <3>1
    <3>2. CASE responses'[a] = Append(responses[a], "PROF_INFO")
      BY <1>0, <2>1, <3>2, Sent, WireTypes
    <3>3. QED  BY <1>0, <1>1, <3>1, <3>2, WireTypes
  <2>2. QED  BY <1>2, <1>3, <2>1 DEF WireInv, Wires, InitIsFirstSent
<1>7. InitIsFirstPosted' /\ OneTabPerAgent'
  BY <1>1, <1>2 DEF WireInv, Wires, InitIsFirstPosted, OneTabPerAgent, Hello
<1>8. QED  BY <1>4, <1>5, <1>6, <1>7 DEF Wires

\* The UI thread takes the oldest message.
LEMMA Taken ==
  ASSUME TypeInv, edt # << >>, edt' = Tail(edt)
  PROVE  /\ Len(edt) \in Nat /\ DOMAIN edt = 1 .. Len(edt) /\ 1 \in DOMAIN edt /\ edt[1] = Head(edt)
         /\ DOMAIN edt' = 1 .. Len(edt) - 1
         /\ \A i \in DOMAIN edt' : i + 1 \in DOMAIN edt /\ edt'[i] = edt[i + 1]
         /\ \A a : Posted(a)' => Posted(a)
<1>1. /\ Len(edt) \in Nat /\ DOMAIN edt = 1 .. Len(edt) /\ 1 \in DOMAIN edt /\ edt[1] = Head(edt)
      /\ DOMAIN edt' = 1 .. Len(edt) - 1
      /\ \A i \in DOMAIN edt' : i + 1 \in DOMAIN edt /\ edt'[i] = edt[i + 1]
  BY WireTypes, Read
<1>2. QED  BY <1>1 DEF Posted

LEMMA WireSetChan ==
  ASSUME WireInv, NEW a \in Tabs, setChan(a)
  PROVE  Wires'
<1> DEFINE j == jvms[PidOf[a]]
<1>0. TypeInv
  BY DEF WireInv, RegistryInv, SampledInv
<1>1. /\ UNCHANGED <<tab, channel, requests, responses, agent>>
      /\ edt # << >> /\ Head(edt) = Hello(a) /\ edt' = Tail(edt)
      /\ emitted' = [emitted EXCEPT ![j] = IF emitted[j] = None THEN a ELSE @]
  BY DEF setChan, SetChan, wire, agents, Hello
<1>2. edt[1] = Hello(a) /\ edt[1].from = a /\ Posted(a)
  <2>1. edt[1] = Hello(a) /\ 1 \in DOMAIN edt
    BY <1>0, <1>1, Taken
  <2>2. Hello(a).from = a
    BY DEF Hello
  <2>3. QED  BY <2>1, <2>2 DEF Posted
<1>3. ~Emitted(a) /\ ~Idle(a)
  BY <1>0, <1>1, <1>2, Taken DEF WireInv, Wires, InitIsFirstPosted, IdleSilent
<1>4. /\ \A k \in Tabs : emitted'[k] = emitted[k] \/ (emitted'[k] = a /\ k = j)
      /\ \A k \in Tabs : emitted[k] # None => emitted'[k] = emitted[k]
  BY <1>0, <1>1, WireTypes
<1>5. \A b \in Tabs \ {a} : Emitted(b)' => Emitted(b)
  BY <1>4 DEF Emitted
<1>6. IdleSilent'
  BY <1>0, <1>1, <1>3, <1>5, Taken DEF WireInv, Wires, IdleSilent, Idle
<1>7. ClosedChannels'
  BY <1>0, <1>1, <1>4, WireTypes DEF WireInv, Wires, ClosedChannels
<1>8. InitIsFirstSent'
  <2>1. \A i \in DOMAIN responses[a] : responses[a][i] # "INIT"
    BY <1>2 DEF WireInv, Wires, InitIsFirstSent
  <2>2. QED  BY <1>0, <1>1, <1>5, <2>1, Taken DEF WireInv, Wires, InitIsFirstSent
<1>9. InitIsFirstPosted'
  <2>1. ASSUME NEW b \in Tabs, NEW i \in DOMAIN edt', edt'[i] = Hello(b)
        PROVE  ~Emitted(b)' /\ \A k \in 1 .. i - 1 : edt'[k].from # b
    <3>1. i \in Nat /\ i + 1 \in DOMAIN edt /\ edt[i + 1] = Hello(b)
      BY <1>0, <1>1, <2>1, Taken
    <3>2. ~Emitted(b) /\ \A k \in 1 .. i : edt[k].from # b
      BY <3>1 DEF WireInv, Wires, InitIsFirstPosted
    <3>3. b # a
      BY <1>0, <1>1, <1>2, <3>1, <3>2, Taken
    <3>4. ASSUME NEW k \in 1 .. i - 1
          PROVE  edt'[k].from # b
      <4>1. k \in DOMAIN edt' /\ k + 1 \in 1 .. i
        BY <1>0, <1>1, <3>1, Taken
      <4>2. QED  BY <1>0, <1>1, <3>2, <4>1, Taken
    <3>5. QED  BY <1>5, <3>2, <3>3, <3>4
  <2>2. QED  BY <2>1 DEF InitIsFirstPosted, Hello
<1>10. OneTabPerAgent'
  BY <1>0, <1>3, <1>4, WireTypes DEF WireInv, Wires, OneTabPerAgent, Emitted
<1>11. QED  BY <1>6, <1>7, <1>8, <1>9, <1>10 DEF Wires

LEMMA WireResult ==
  ASSUME WireInv, NEW a \in Tabs, result(a)
  PROVE  Wires'
<1>0. TypeInv
  BY DEF WireInv, RegistryInv, SampledInv
<1>1. /\ UNCHANGED <<emitted, tab, channel, requests, responses, agent>>
      /\ edt # << >> /\ edt' = Tail(edt)
  BY DEF result, Rejected, Result, wire, agents
<1>2. \A b \in Tabs : Emitted(b)' = Emitted(b) /\ Idle(b)' = Idle(b)
  BY <1>1 DEF Emitted, Idle
<1>3. IdleSilent' /\ ClosedChannels' /\ InitIsFirstSent' /\ OneTabPerAgent'
  BY <1>0, <1>1, <1>2, Taken
  DEF WireInv, Wires, IdleSilent, ClosedChannels, InitIsFirstSent, OneTabPerAgent
<1>4. InitIsFirstPosted'
  <2>1. ASSUME NEW b \in Tabs, NEW i \in DOMAIN edt', edt'[i] = Hello(b)
        PROVE  ~Emitted(b) /\ \A k \in 1 .. i - 1 : edt'[k].from # b
    <3>1. i \in Nat /\ i + 1 \in DOMAIN edt /\ edt[i + 1] = Hello(b)
      BY <1>0, <1>1, <2>1, Taken
    <3>2. ~Emitted(b) /\ \A k \in 1 .. i : edt[k].from # b
      BY <3>1 DEF WireInv, Wires, InitIsFirstPosted
    <3>3. ASSUME NEW k \in 1 .. i - 1
          PROVE  edt'[k].from # b
      <4>1. k \in DOMAIN edt' /\ k + 1 \in 1 .. i
        BY <1>0, <1>1, <3>1, Taken
      <4>2. QED  BY <1>0, <1>1, <3>2, <4>1, Taken
    <3>4. QED  BY <3>2, <3>3
  <2>2. QED  BY <1>2, <2>1 DEF InitIsFirstPosted, Hello
<1>5. QED  BY <1>3, <1>4 DEF Wires

LEMMA WireStep ==
  ASSUME WireInv, [Next]_vars
  PROVE  WireInv'
<1>1. RegistryInv'
  BY RegistryStep DEF WireInv
<1>2. CASE UNCHANGED vars
  <2>1. UNCHANGED <<emitted, tab, edt, channel, requests, responses, agent>>
    BY <1>2 DEF vars, ide, wire, agents
  <2>2. \A a \in Tabs : Emitted(a)' = Emitted(a) /\ Posted(a)' = Posted(a) /\ Idle(a)' = Idle(a)
    BY <2>1 DEF Emitted, Posted, Idle
  <2>3. QED
    BY <1>1, <2>1, <2>2 DEF WireInv, Wires, IdleSilent, ClosedChannels, InitIsFirstSent,
                            InitIsFirstPosted, OneTabPerAgent, Hello
<1>3. ASSUME Next
      PROVE  Wires'
  BY <1>3, WireOpenTab, WirePress, WireCloseTab, WireConnectStep, WireChannelRead, WireCloseChannel,
     WireLoadAgent, WireAgentLoop, WireSetChan, WireResult
  DEF Next, ServerStep, AgentStep, Dispatch
<1>4. QED  BY <1>1, <1>2, <1>3 DEF WireInv

\* Session.OneTabPerAgent: a connection is given to one tab and never to
\* another, although it is given to whichever tab the pid leads to when the
\* INIT is dispatched.
THEOREM AgentsAreNotShared == Spec => []OneTabPerAgent
<1>1. WireInv => OneTabPerAgent
  BY DEF WireInv, Wires
<1>2. QED  BY <1>1, WireInit, WireStep, PTL DEF Spec
-----------------------------------------------------------------------------
(***************************************************************************)
(* The route of a result: agent, connection, UI thread, pid, subject, tab. *)
(* Agents of one JVM follow each other, and the queue of the UI thread     *)
(* keeps their order; so between what one of them sent and what another    *)
(* sent lies the INIT that makes the pid lead to the other.                *)
(***************************************************************************)
Rivals(a, b) == a # b /\ PidOf[a] = PidOf[b]

Coming(a) == \E i \in DOMAIN responses[a] : responses[a][i] = "INIT"

ReaderFollows ==
  \A a, b \in Tabs : Rivals(a, b) /\ agent[b] = "reading" =>
    \A i \in DOMAIN edt : edt[i].from = a =>
      Coming(b) \/ \E m \in DOMAIN edt : i < m /\ edt[m] = Hello(b)

PostedInTurn ==
  \A a, b \in Tabs : Rivals(a, b) =>
    \A i, k \in DOMAIN edt : i < k /\ edt[i].from = a /\ edt[k].from = b =>
      \E m \in DOMAIN edt : i < m /\ m <= k /\ edt[m] = Hello(b)

\* The INIT of a was dispatched, and a or a message of it is still there.
Introduced(a) ==
  /\ agent[a] = "reading" \/ Posted(a)
  /\ ~Coming(a)
  /\ \A i \in DOMAIN edt : edt[i] # Hello(a)

Routed == \A a \in Tabs : Introduced(a) => value[jvms[PidOf[a]]] \in {None, a}

EmittedFirst == \A j \in Tabs : emitted[j] = None => results[j] = << >>

Routes == ReaderFollows /\ PostedInTurn /\ Routed /\ EmittedFirst /\ ResultsAreOwn

RouteInv == WireInv /\ Routes

LEMMA RouteInit == Init => RouteInv
<1> SUFFICES ASSUME Init PROVE RouteInv
  OBVIOUS
<1>1. WireInv
  BY WireInit
<1>2. edt = << >> /\ DOMAIN edt = {} /\ \A j \in Tabs : DOMAIN results[j] = {} /\ agent[j] = "none"
  BY DEF Init
<1>3. ReaderFollows /\ PostedInTurn /\ Routed
  BY <1>2 DEF ReaderFollows, PostedInTurn, Routed, Introduced, Posted
<1>4. EmittedFirst /\ ResultsAreOwn
  BY <1>2 DEF Init, EmittedFirst, ResultsAreOwn
<1>5. QED  BY <1>1, <1>3, <1>4 DEF RouteInv, Routes

\* A JVM with an agent that was loaded leads to a tab.
LEMMA LoadedIsKnown ==
  ASSUME WireInv, NEW a \in Tabs, ~Idle(a)
  PROVE  jvms[PidOf[a]] \in Tabs /\ PidOf[jvms[PidOf[a]]] = PidOf[a]
<1>1. TypeInv
  BY DEF WireInv, RegistryInv, SampledInv
<1>2. zip[a] # "none"
  BY DEF Idle, WireInv, RegistryInv, SampledInv, AttachedFirst, Unattached
<1>3. tab[a] # "new"
  BY <1>1, <1>2 DEF TypeInv, Unopened
<1>4. QED  BY <1>1, <1>3, RegistryTypes DEF WireInv, RegistryInv, OpenedIsKnown, Registered

LEMMA RouteFrame ==
  ASSUME RouteInv, UNCHANGED <<jvms, value, emitted, edt, responses, results>>,
         \A a \in Tabs : agent'[a] = "reading" => agent[a] = "reading"
  PROVE  Routes'
<1>1. \A a \in Tabs : /\ Posted(a)' = Posted(a) /\ Coming(a)' = Coming(a)
                      /\ Introduced(a)' => Introduced(a)
  BY DEF Posted, Coming, Introduced, Hello
<1>2. ReaderFollows' /\ PostedInTurn'
  BY <1>1 DEF RouteInv, Routes, ReaderFollows, PostedInTurn, Rivals, Hello
<1>3. Routed' /\ EmittedFirst' /\ ResultsAreOwn'
  BY <1>1 DEF RouteInv, Routes, Routed, EmittedFirst, ResultsAreOwn
<1>4. QED  BY <1>2, <1>3 DEF Routes

LEMMA RouteOpenTab ==
  ASSUME RouteInv, NEW j \in Tabs, OpenTab(j)
  PROVE  Routes'
<1>0. TypeInv
  BY DEF RouteInv, WireInv, RegistryInv, SampledInv
<1>1. /\ UNCHANGED <<value, emitted, edt, responses, agent, results>>
      /\ tab[j] = "new" /\ jvms' = [jvms EXCEPT ![PidOf[j]] = j]
  BY DEF OpenTab, wire, agents, history
<1>2. value[j] = None
  BY <1>1 DEF RouteInv, WireInv, RegistryInv, Subjects
<1>3. \A a \in Tabs : Posted(a)' = Posted(a) /\ Coming(a)' = Coming(a) /\ Introduced(a)' = Introduced(a)
  BY <1>1 DEF Posted, Coming, Introduced, Hello
<1>4. ReaderFollows' /\ PostedInTurn'
  BY <1>1, <1>3 DEF RouteInv, Routes, ReaderFollows, PostedInTurn, Rivals, Hello
<1>5. \A p \in Pids : jvms'[p] = jvms[p] \/ jvms'[p] = j
  BY <1>0, <1>1, RegistryTypes
<1>6. Routed'
  BY <1>0, <1>1, <1>2, <1>3, <1>5, RegistryTypes DEF RouteInv, Routes, Routed
<1>7. EmittedFirst' /\ ResultsAreOwn'
  BY <1>1 DEF RouteInv, Routes, EmittedFirst, ResultsAreOwn
<1>8. QED  BY <1>4, <1>6, <1>7 DEF Routes

LEMMA RouteCloseChannel ==
  ASSUME RouteInv, NEW a \in Tabs, CloseChannel(a)
  PROVE  Routes'
<1>0. TypeInv
  BY DEF RouteInv, WireInv, RegistryInv, SampledInv
<1>1. /\ UNCHANGED <<jvms, value, emitted, edt, agent, results>>
      /\ channel[a] = "closing" /\ responses' = [responses EXCEPT ![a] = << >>]
  BY DEF CloseChannel, ide, agents, history
<1>2. ~Coming(a)
  <2>1. Emitted(a)
    BY <1>1 DEF RouteInv, WireInv, Wires, ClosedChannels, Emitted
  <2>2. QED  BY <2>1 DEF RouteInv, WireInv, Wires, InitIsFirstSent, Coming
<1>3. /\ responses'[a] = << >> /\ DOMAIN responses'[a] = {}
      /\ \A b \in Tabs \ {a} : responses'[b] = responses[b]
  BY <1>0, <1>1, WireTypes
<1>4. \A b \in Tabs : Posted(b)' = Posted(b) /\ Coming(b)' = Coming(b) /\ Introduced(b)' = Introduced(b)
  BY <1>1, <1>2, <1>3 DEF Posted, Coming, Introduced, Hello
<1>5. ReaderFollows' /\ PostedInTurn'
  BY <1>1, <1>4 DEF RouteInv, Routes, ReaderFollows, PostedInTurn, Rivals, Hello
<1>6. Routed' /\ EmittedFirst' /\ ResultsAreOwn'
  BY <1>1, <1>4 DEF RouteInv, Routes, Routed, EmittedFirst, ResultsAreOwn
<1>7. QED  BY <1>5, <1>6 DEF Routes

\* An agent sends: the INIT when it is loaded, a result after that.
LEMMA RouteAgentSends ==
  ASSUME RouteInv, NEW a \in Tabs,
         UNCHANGED <<jvms, value, emitted, edt, results>>,
         \A b \in Tabs \ {a} : agent'[b] = agent[b] /\ responses'[b] = responses[b],
         Coming(a)' \/ (Coming(a)' = Coming(a) /\ (agent'[a] = "reading" => agent[a] = "reading"))
  PROVE  Routes'
<1>1. \A b \in Tabs : Posted(b)' = Posted(b)
  BY DEF Posted
<1>2. \A b \in Tabs \ {a} : Coming(b)' = Coming(b)
  BY DEF Coming
<1>3. \A b \in Tabs : Introduced(b)' => Introduced(b)
  BY <1>1, <1>2 DEF Introduced, Hello
<1>4. ReaderFollows' /\ PostedInTurn'
  BY <1>2 DEF RouteInv, Routes, ReaderFollows, PostedInTurn, Rivals, Hello
<1>5. Routed' /\ EmittedFirst' /\ ResultsAreOwn'
  BY <1>3 DEF RouteInv, Routes, Routed, EmittedFirst, ResultsAreOwn
<1>6. QED  BY <1>4, <1>5 DEF Routes

LEMMA RouteAgentStep ==
  ASSUME RouteInv, NEW a \in Tabs, AgentStep(a)
  PROVE  Routes'
<1>0. TypeInv
  BY DEF RouteInv, WireInv, RegistryInv, SampledInv
<1>1. UNCHANGED <<jvms, value, emitted, edt, results>>
  BY DEF AgentStep, LoadAgent, AgentStart, AgentStop, AgentLeaves, ReadRequest, ide, history
<1>2. CASE /\ agent' = [agent EXCEPT ![a] = "reading"]
           /\ responses' = [responses EXCEPT ![a] = <<"INIT">>]
  <2>1. /\ responses'[a] = <<"INIT">>
        /\ \A b \in Tabs \ {a} : agent'[b] = agent[b] /\ responses'[b] = responses[b]
    BY <1>0, <1>2, WireTypes
  <2>2. Coming(a)'
    BY <2>1 DEF Coming
  <2>3. QED  BY <1>1, <2>1, <2>2, RouteAgentSends
<1>3. CASE /\ agent[a] = "reading" /\ agent' = agent
           /\ responses' = [responses EXCEPT ![a] = Append(@, "PROF_INFO")]
  <2>1. /\ responses'[a] = Append(responses[a], "PROF_INFO")
        /\ \A b \in Tabs \ {a} : responses'[b] = responses[b]
    BY <1>0, <1>3, WireTypes
  <2>2. Coming(a)' = Coming(a)
    <3>1. /\ Len(responses[a]) \in Nat /\ DOMAIN responses[a] = 1 .. Len(responses[a])
          /\ DOMAIN responses'[a] = 1 .. Len(responses[a]) + 1
          /\ responses'[a][Len(responses[a]) + 1] = "PROF_INFO"
          /\ \A i \in 1 .. Len(responses[a]) : responses'[a][i] = responses[a][i]
      BY <1>0, <2>1, Sent, WireTypes
    <3>2. QED  BY <3>1 DEF Coming
  <2>3. QED  BY <1>1, <1>3, <2>1, <2>2, RouteAgentSends
<1>4. CASE /\ UNCHANGED responses
           /\ agent' \in {agent, [agent EXCEPT ![a] = "failed"], [agent EXCEPT ![a] = "done"]}
  <2>1. \A b \in Tabs : agent'[b] = "reading" => agent[b] = "reading"
    BY <1>0, <1>4, WireTypes
  <2>2. QED  BY <1>1, <1>4, <2>1, RouteFrame
<1>5. QED
  BY <1>2, <1>3, <1>4 DEF AgentStep, LoadAgent, AgentStart, AgentStop, AgentLeaves, ReadRequest, wire

LEMMA RouteChannelRead ==
  ASSUME RouteInv, NEW a \in Tabs, channelRead0(a)
  PROVE  Routes'
<1> DEFINE sent == [type |-> Head(responses[a]), from |-> a]
<1> DEFINE last == Len(edt) + 1
<1>0. TypeInv
  BY DEF RouteInv, WireInv, RegistryInv, SampledInv
<1>1. /\ UNCHANGED <<jvms, value, emitted, agent, results>>
      /\ channel[a] \in {"open", "closing"} /\ responses[a] # << >>
      /\ responses' = [responses EXCEPT ![a] = Tail(@)]
      /\ edt' = Append(edt, sent)
  BY DEF channelRead0, agents, history
<1>2. agent[a] = "reading"
  BY <1>0, <1>1, WireTypes DEF RouteInv, WireInv, Wires, IdleSilent, ClosedChannels, Idle
<1>3. /\ Head(responses[a]) \in {"INIT", "PROF_INFO"}
      /\ responses'[a] = Tail(responses[a])
      /\ \A b \in Tabs \ {a} : responses'[b] = responses[b]
  BY <1>0, <1>1, WireTypes, Read
<1>4. /\ Len(edt) \in Nat /\ DOMAIN edt = 1 .. Len(edt) /\ DOMAIN edt' = 1 .. last
      /\ edt'[last] = sent
      /\ \A i \in DOMAIN edt : edt'[i] = edt[i]
  <2>1. sent \in Messages
    BY <1>3 DEF Messages
  <2>2. QED  BY <1>0, <1>1, <2>1, Sent, WireTypes
<1>5. /\ ~Coming(a)'
      /\ Coming(a) => Head(responses[a]) = "INIT"
  <2> DEFINE old == responses[a]
  <2>1. \A i \in DOMAIN old : old[i] = "INIT" => i = 1
    BY DEF RouteInv, WireInv, Wires, InitIsFirstSent
  <2>2. old \in Seq({"INIT", "PROF_INFO"}) /\ old # << >>
    BY <1>0, <1>1, WireTypes
  <2> HIDE DEF old
  <2>3. /\ Head(old) = old[1] /\ Len(old) \in Nat /\ DOMAIN old = 1 .. Len(old)
        /\ DOMAIN Tail(old) = 1 .. Len(old) - 1
        /\ \A i \in 1 .. Len(old) - 1 : Tail(old)[i] = old[i + 1]
    BY <2>2, Read
  <2>4. \A i \in DOMAIN Tail(old) : Tail(old)[i] # "INIT"
    BY <2>1, <2>3
  <2>5. (\E i \in DOMAIN old : old[i] = "INIT") => Head(old) = "INIT"
    BY <2>1, <2>3
  <2>6. QED  BY <1>3, <2>4, <2>5 DEF Coming, old
<1>6. \A b \in Tabs \ {a} : Coming(b)' = Coming(b) /\ Posted(b)' = Posted(b)
  <2>1. ASSUME NEW b \in Tabs \ {a}
        PROVE  Coming(b)' = Coming(b)
    BY <1>3 DEF Coming
  <2>2. ASSUME NEW b \in Tabs \ {a}
        PROVE  Posted(b)' <=> Posted(b)
    BY <1>4 DEF Posted
  <2>3. QED  BY <2>1, <2>2 DEF Posted
<1>7. Coming(a) => edt'[last] = Hello(a)
  BY <1>4, <1>5 DEF Hello
<1>8. ReaderFollows'
  <2>1. ASSUME NEW c \in Tabs, NEW b \in Tabs, Rivals(c, b), agent[b] = "reading",
               NEW i \in DOMAIN edt', edt'[i].from = c
        PROVE  Coming(b)' \/ \E m \in DOMAIN edt' : i < m /\ edt'[m] = Hello(b)
    <3>1. i # last
      <4>1. i = last => c = a
        BY <1>4, <2>1
      <4>2. QED  BY <1>2, <2>1, <4>1 DEF Rivals, RouteInv, WireInv, RegistryInv, SampledInv, OneReader
    <3>2. i \in DOMAIN edt /\ edt[i].from = c
      BY <1>4, <2>1, <3>1
    <3>3. Coming(b) \/ \E m \in DOMAIN edt : i < m /\ edt[m] = Hello(b)
      BY <2>1, <3>2 DEF RouteInv, Routes, ReaderFollows
    <3>4. CASE Coming(b) /\ b # a
      BY <1>6, <3>4
    <3>5. CASE Coming(b) /\ b = a
      BY <1>4, <1>7, <3>2, <3>5
    <3>6. CASE \E m \in DOMAIN edt : i < m /\ edt[m] = Hello(b)
      BY <1>4, <3>6
    <3>7. QED  BY <3>3, <3>4, <3>5, <3>6
  <2>2. QED  BY <1>1, <2>1 DEF ReaderFollows, Rivals, Hello
<1>9. PostedInTurn'
  <2>1. ASSUME NEW c \in Tabs, NEW b \in Tabs, Rivals(c, b), NEW i \in DOMAIN edt', NEW k \in DOMAIN edt',
               i < k, edt'[i].from = c, edt'[k].from = b
        PROVE  \E m \in DOMAIN edt' : i < m /\ m <= k /\ edt'[m] = Hello(b)
    <3>1. i \in DOMAIN edt /\ edt[i].from = c
      BY <1>4, <2>1
    <3>2. CASE k \in DOMAIN edt
      <4>1. \E m \in DOMAIN edt : i < m /\ m <= k /\ edt[m] = Hello(b)
        BY <1>4, <2>1, <3>1, <3>2 DEF RouteInv, Routes, PostedInTurn
      <4>2. QED  BY <1>4, <4>1
    <3>3. CASE k = last
      <4>1. b = a
        BY <1>4, <2>1, <3>3
      <4>2. Coming(a) \/ \E m \in DOMAIN edt : i < m /\ edt[m] = Hello(a)
        BY <1>2, <2>1, <3>1, <4>1 DEF RouteInv, Routes, ReaderFollows
      <4>3. QED  BY <1>4, <1>7, <2>1, <3>3, <4>1, <4>2
    <3>4. QED  BY <1>4, <3>2, <3>3
  <2>2. QED  BY <2>1 DEF PostedInTurn, Rivals, Hello
<1>10. \A b \in Tabs : Introduced(b)' => Introduced(b)
  <2>1. ASSUME NEW b \in Tabs, \A i \in DOMAIN edt' : edt'[i] # Hello(b)
        PROVE  \A i \in DOMAIN edt : edt[i] # Hello(b)
    BY <1>4, <2>1
  <2>2. ASSUME NEW b \in Tabs \ {a}, Introduced(b)'
        PROVE  Introduced(b)
    BY <1>1, <1>6, <2>1, <2>2 DEF Introduced, Hello
  <2>3. Introduced(a)' => Introduced(a)
    BY <1>2, <1>4, <1>7, <2>1 DEF Introduced, Hello
  <2>4. QED  BY <2>2, <2>3
<1>11. Routed' /\ EmittedFirst' /\ ResultsAreOwn'
  BY <1>1, <1>10 DEF RouteInv, Routes, Routed, EmittedFirst, ResultsAreOwn
<1>12. QED  BY <1>8, <1>9, <1>11 DEF Routes

LEMMA RouteTaken ==
  ASSUME RouteInv, edt # << >>, edt' = Tail(edt), UNCHANGED <<responses, agent>>
  PROVE  /\ ReaderFollows' /\ PostedInTurn'
         /\ \A b \in Tabs : edt[1] # Hello(b) /\ Introduced(b)' => Introduced(b)
<1>0. TypeInv
  BY DEF RouteInv, WireInv, RegistryInv, SampledInv
<1>1. /\ Len(edt) \in Nat /\ DOMAIN edt = 1 .. Len(edt) /\ 1 \in DOMAIN edt
      /\ DOMAIN edt' = 1 .. Len(edt) - 1
      /\ \A i \in DOMAIN edt' : i + 1 \in DOMAIN edt /\ edt'[i] = edt[i + 1]
      /\ \A b : Posted(b)' => Posted(b)
  BY <1>0, Taken
<1>2. \A m \in DOMAIN edt : m # 1 => m - 1 \in DOMAIN edt' /\ edt'[m - 1] = edt[m]
  BY <1>1
<1>3. ReaderFollows'
  <2>1. ASSUME NEW a \in Tabs, NEW b \in Tabs, Rivals(a, b), agent[b] = "reading",
               NEW i \in DOMAIN edt', edt'[i].from = a
        PROVE  Coming(b) \/ \E m \in DOMAIN edt' : i < m /\ edt'[m] = Hello(b)
    <3>1. i \in Nat /\ i >= 1 /\ i + 1 \in DOMAIN edt /\ edt[i + 1].from = a
      BY <1>1, <2>1
    <3>2. Coming(b) \/ \E m \in DOMAIN edt : i + 1 < m /\ edt[m] = Hello(b)
      BY <2>1, <3>1 DEF RouteInv, Routes, ReaderFollows
    <3>3. ASSUME NEW m \in DOMAIN edt, i + 1 < m, edt[m] = Hello(b)
          PROVE  m - 1 \in DOMAIN edt' /\ i < m - 1 /\ edt'[m - 1] = Hello(b)
      BY <1>1, <1>2, <3>1, <3>3
    <3>4. QED  BY <3>2, <3>3
  <2>2. QED  BY <2>1 DEF ReaderFollows, Rivals, Hello, Coming
<1>4. PostedInTurn'
  <2>1. ASSUME NEW a \in Tabs, NEW b \in Tabs, Rivals(a, b), NEW i \in DOMAIN edt', NEW k \in DOMAIN edt',
               i < k, edt'[i].from = a, edt'[k].from = b
        PROVE  \E m \in DOMAIN edt' : i < m /\ m <= k /\ edt'[m] = Hello(b)
    <3>1. /\ i \in Nat /\ i >= 1 /\ i + 1 \in DOMAIN edt /\ edt[i + 1].from = a
          /\ k \in Nat /\ k + 1 \in DOMAIN edt /\ edt[k + 1].from = b /\ i + 1 < k + 1
      BY <1>1, <2>1
    <3>2. PICK m \in DOMAIN edt : i + 1 < m /\ m <= k + 1 /\ edt[m] = Hello(b)
      BY <2>1, <3>1 DEF RouteInv, Routes, PostedInTurn
    <3>3. m - 1 \in DOMAIN edt' /\ i < m - 1 /\ m - 1 <= k /\ edt'[m - 1] = Hello(b)
      BY <1>1, <1>2, <3>1, <3>2
    <3>4. QED  BY <3>3
  <2>2. QED  BY <2>1 DEF PostedInTurn, Rivals, Hello
<1>5. ASSUME NEW b \in Tabs, edt[1] # Hello(b), Introduced(b)'
      PROVE  Introduced(b)
  <2>1. /\ agent[b] = "reading" \/ Posted(b)
        /\ ~Coming(b)
        /\ \A i \in DOMAIN edt' : edt'[i] # Hello(b)
    BY <1>1, <1>5 DEF Introduced, Coming, Hello
  <2>2. \A i \in DOMAIN edt : edt[i] # Hello(b)
    BY <1>2, <1>5, <2>1
  <2>3. QED  BY <2>1, <2>2 DEF Introduced
<1>6. QED  BY <1>3, <1>4, <1>5

LEMMA RouteSetChan ==
  ASSUME RouteInv, NEW a \in Tabs, setChan(a)
  PROVE  Routes'
<1> DEFINE j == jvms[PidOf[a]]
<1>0. TypeInv
  BY DEF RouteInv, WireInv, RegistryInv, SampledInv
<1>1. /\ UNCHANGED <<jvms, responses, agent, results>>
      /\ edt # << >> /\ Head(edt) = Hello(a) /\ edt' = Tail(edt)
      /\ value' = [value EXCEPT ![j] = a]
      /\ emitted' = [emitted EXCEPT ![j] = IF emitted[j] = None THEN a ELSE @]
  BY DEF setChan, SetChan, wire, agents, history, Hello
<1>2. /\ 1 \in DOMAIN edt /\ edt[1] = Hello(a) /\ edt[1].from = a
      /\ \A b \in Tabs : Hello(b) = Hello(a) => b = a
  <2>1. 1 \in DOMAIN edt /\ edt[1] = Hello(a)
    BY <1>0, <1>1, Taken
  <2>2. \A b : Hello(b).from = b
    BY DEF Hello
  <2>3. QED  BY <2>1, <2>2
<1>3. Len(edt) \in Nat /\ \A m \in DOMAIN edt : m > 1 => m - 1 \in DOMAIN edt' /\ edt'[m - 1] = edt[m]
  BY <1>0, <1>1, Taken
<1>4. \A b \in Tabs : Introduced(b) \/ Introduced(b)' \/ b = a => ~Idle(b)
  <2>1. \A b \in Tabs : Posted(b) => ~Idle(b)
    BY DEF RouteInv, WireInv, Wires, IdleSilent
  <2>2. \A b \in Tabs : Posted(b)' => Posted(b)
    BY <1>0, <1>1, Taken
  <2>3. Posted(a)
    BY <1>2 DEF Posted
  <2>4. QED  BY <1>1, <2>1, <2>2, <2>3 DEF Introduced, Idle
<1>5. j \in Tabs /\ PidOf[j] = PidOf[a]
  BY <1>4, LoadedIsKnown DEF RouteInv
<1>6. ASSUME NEW b \in Tabs, Introduced(b)'
      PROVE  value'[jvms[PidOf[b]]] \in {None, b}
  <2>1. jvms[PidOf[b]] \in Tabs /\ PidOf[jvms[PidOf[b]]] = PidOf[b]
    BY <1>4, <1>6, LoadedIsKnown DEF RouteInv
  <2>2. CASE b = a
    BY <1>0, <1>1, <1>5, <2>2, RegistryTypes
  <2>3. CASE PidOf[b] # PidOf[a]
    <3>1. Introduced(b)
      BY <1>1, <1>2, <1>6, <2>3, RouteTaken
    <3>2. value[jvms[PidOf[b]]] \in {None, b}
      BY <3>1 DEF RouteInv, Routes, Routed
    <3>3. QED  BY <1>0, <1>1, <1>5, <2>1, <2>3, <3>2, RegistryTypes
  <2>4. CASE b # a /\ PidOf[b] = PidOf[a]
    <3>1. Rivals(a, b) /\ \A m \in DOMAIN edt : m > 1 => edt[m] # Hello(b)
      BY <1>3, <1>6, <2>4 DEF Rivals, Introduced, Hello
    <3>2. agent[b] # "reading"
      BY <1>1, <1>2, <1>6, <3>1 DEF RouteInv, Routes, ReaderFollows, Introduced, Coming
    <3>3. PICK i \in DOMAIN edt' : edt'[i].from = b
      BY <1>1, <1>6, <3>2 DEF Introduced, Posted
    <3>4. i + 1 \in DOMAIN edt /\ edt[i + 1].from = b /\ 1 < i + 1
      BY <1>0, <1>1, <3>3, Taken
    <3>5. QED  BY <1>2, <3>1, <3>4 DEF RouteInv, Routes, PostedInTurn
  <2>5. QED  BY <2>2, <2>3, <2>4
<1>7. ReaderFollows' /\ PostedInTurn'
  BY <1>1, RouteTaken
<1>8. Routed'
  BY <1>1, <1>6 DEF Routed
<1>9. \A k \in Tabs : emitted[k] # None => emitted'[k] = emitted[k]
  BY <1>0, <1>1, RegistryTypes
<1>10. EmittedFirst'
  BY <1>1, <1>9 DEF RouteInv, Routes, EmittedFirst
<1>11. ResultsAreOwn'
  <2>1. \A k \in Tabs : emitted[k] = None => DOMAIN results[k] = {}
    BY DEF RouteInv, Routes, EmittedFirst
  <2>2. QED  BY <1>1, <1>9, <2>1 DEF RouteInv, Routes, ResultsAreOwn
<1>12. QED  BY <1>7, <1>8, <1>10, <1>11 DEF Routes

Reply(a) == [type |-> "PROF_INFO", from |-> a]

\* Whoever is subscribed to the connection that the pid leads to when a result
\* is dispatched is the tab that controls the agent.
LEMMA ReceiversAreOwn ==
  ASSUME RouteInv, NEW a \in Tabs, edt # << >>, Head(edt) = Reply(a)
  PROVE  /\ \A k \in Receivers(a) : k \in Tabs /\ emitted[k] = a
         /\ Posted(a) /\ Introduced(a)
<1>0. TypeInv
  BY DEF RouteInv, WireInv, RegistryInv, SampledInv
<1>1. /\ Len(edt) \in Nat /\ DOMAIN edt = 1 .. Len(edt) /\ 1 \in DOMAIN edt /\ edt[1] = Reply(a)
      /\ edt[1].from = a /\ edt[1] # Hello(a)
  <2>1. /\ Len(edt) \in Nat /\ DOMAIN edt = 1 .. Len(edt) /\ Len(edt) >= 1 /\ edt[1] = Reply(a)
    BY <1>0, Read, WireTypes
  <2>2. Reply(a).from = a /\ Reply(a).type # Hello(a).type
    BY DEF Reply, Hello
  <2>3. QED  BY <2>1, <2>2
<1>2. Posted(a)
  BY <1>1 DEF Posted
<1>3. ~Coming(a)
  BY <1>2 DEF RouteInv, WireInv, Wires, InitIsFirstSent, Coming
<1>4. \A i \in DOMAIN edt : edt[i] # Hello(a)
  <2>1. ASSUME NEW i \in DOMAIN edt, edt[i] = Hello(a)
        PROVE  FALSE
    <3>1. \A k \in 1 .. i - 1 : edt[k].from # a
      BY <2>1 DEF RouteInv, WireInv, Wires, InitIsFirstPosted
    <3>2. QED  BY <1>1, <2>1, <3>1
  <2>2. QED  BY <2>1
<1>5. Introduced(a)
  BY <1>2, <1>3, <1>4 DEF Introduced
<1>6. value[jvms[PidOf[a]]] \in {None, a}
  BY <1>5 DEF RouteInv, Routes, Routed
<1>7. ASSUME NEW k \in Receivers(a)
      PROVE  k \in Tabs /\ emitted[k] = a
  <2>1. k \in Tabs /\ zip[k] = "done" /\ emitted[k] = value[jvms[PidOf[a]]]
    BY DEF Receivers
  <2>2. emitted[k] # None
    BY <2>1 DEF RouteInv, WireInv, RegistryInv, Subjects, HasChannel
  <2>3. QED  BY <1>6, <2>1, <2>2
<1>8. QED  BY <1>2, <1>5, <1>7

LEMMA RouteResult ==
  ASSUME RouteInv, NEW a \in Tabs, result(a)
  PROVE  Routes'
<1>0. TypeInv
  BY DEF RouteInv, WireInv, RegistryInv, SampledInv
<1>1. /\ UNCHANGED <<jvms, value, emitted, responses, agent>>
      /\ edt # << >> /\ Head(edt) = Reply(a) /\ edt' = Tail(edt)
  BY DEF result, Rejected, Result, wire, agents, Reply
<1>2. \A b \in Tabs : edt[1] # Hello(b)
  <2>1. edt[1] = Reply(a)
    BY <1>0, <1>1, Taken
  <2>2. \A b : Reply(a).type # Hello(b).type
    BY DEF Reply, Hello
  <2>3. QED  BY <2>1, <2>2
<1>3. ReaderFollows' /\ PostedInTurn'
  BY <1>1, RouteTaken
<1>4. Routed'
  BY <1>1, <1>2, RouteTaken DEF RouteInv, Routes, Routed
<1>5. \A k \in Tabs : results'[k] = results[k] \/ (emitted[k] = a /\ results'[k] = Append(results[k], a))
  <2>1. \A k \in Viewers(a) : emitted[k] = a
    BY <1>1, ReceiversAreOwn DEF Viewers
  <2>2. CASE results' = results
    BY <2>2
  <2>3. CASE results' = [k \in Tabs |-> IF k \in Viewers(a) THEN Append(results[k], a) ELSE results[k]]
    BY <2>1, <2>3
  <2>4. QED  BY <2>2, <2>3 DEF result, Rejected
<1>6. EmittedFirst'
  BY <1>0, <1>1, <1>5, RegistryTypes DEF RouteInv, Routes, EmittedFirst
<1>7. ResultsAreOwn'
  <2>1. ASSUME NEW k \in Tabs, NEW i \in DOMAIN results'[k]
        PROVE  results'[k][i] = emitted[k]
    <3>1. CASE results'[k] = results[k]
      BY <2>1, <3>1 DEF RouteInv, Routes, ResultsAreOwn
    <3>2. CASE emitted[k] = a /\ results'[k] = Append(results[k], a)
      <4>1. results[k] \in Seq(Tabs)
        BY <1>0 DEF TypeInv, TypeOK
      <4>2. /\ Len(results[k]) \in Nat /\ DOMAIN results[k] = 1 .. Len(results[k])
            /\ DOMAIN results'[k] = 1 .. Len(results[k]) + 1
            /\ results'[k][Len(results[k]) + 1] = a
            /\ \A n \in 1 .. Len(results[k]) : results'[k][n] = results[k][n]
        BY <3>2, <4>1, Sent
      <4>3. QED  BY <3>2, <4>2 DEF RouteInv, Routes, ResultsAreOwn
    <3>3. QED  BY <1>5, <3>1, <3>2
  <2>2. QED  BY <1>1, <2>1 DEF ResultsAreOwn
<1>8. QED  BY <1>3, <1>4, <1>6, <1>7 DEF Routes

LEMMA RouteStep ==
  ASSUME RouteInv, [Next]_vars
  PROVE  RouteInv'
<1>1. WireInv'
  BY WireStep DEF RouteInv
<1>2. ASSUME NEW j \in Tabs, PressStart(j) \/ PressStop(j) \/ CloseTab(j) \/ ConnectStep(j)
      PROVE  Routes'
  <2>1. UNCHANGED <<jvms, value, emitted, edt, responses, results>>
    BY <1>2 DEF PressStart, PressStop, Press, CloseTab, ConnectStep, AttachVM, SubscribeChannel,
                CheckLifetime, AddClose, Connected, initSession, wire, history
  <2>2. agent' = agent \/ agent' = [agent EXCEPT ![j] = "loading"]
    BY <1>2 DEF PressStart, PressStop, Press, CloseTab, ConnectStep, AttachVM, SubscribeChannel,
                CheckLifetime, AddClose, Connected, initSession, agents
  <2>3. \A a \in Tabs : agent'[a] = "reading" => agent[a] = "reading"
    BY <2>2, WireTypes DEF RouteInv, WireInv, RegistryInv, SampledInv
  <2>4. QED  BY <2>1, <2>3, RouteFrame
<1>3. CASE UNCHANGED vars
  <2>1. UNCHANGED <<jvms, value, emitted, edt, responses, results, agent>>
    BY <1>3 DEF vars, ide, wire, agents, history
  <2>2. QED  BY <1>1, <2>1, RouteFrame DEF RouteInv
<1>4. ASSUME Next
      PROVE  Routes'
  BY <1>2, <1>4, RouteOpenTab, RouteChannelRead, RouteCloseChannel, RouteAgentStep, RouteSetChan,
     RouteResult
  DEF Next, ServerStep, Dispatch
<1>5. QED  BY <1>1, <1>3, <1>4 DEF RouteInv

\* Session.ResultsAreOwn: a tab shows only what its own agent sent.
THEOREM ResultsReachTheirTab == Spec => []ResultsAreOwn
<1>1. RouteInv => ResultsAreOwn
  BY DEF RouteInv, Routes
<1>2. QED  BY <1>1, RouteInit, RouteStep, PTL DEF Spec
-----------------------------------------------------------------------------
(***************************************************************************)
(* The buttons.  Until a tab has subscribed its session to the buttons     *)
(* without an early press, its agent is as it was loaded; after that every *)
(* press of the tab reaches the agent that the tab alone controls.         *)
(***************************************************************************)
Quiet(a) == requests[a] = << >> /\ ~running[a]

Untouched ==
  \A a \in Tabs :
    /\ ~Emitted(a) => Quiet(a)
    /\ \A j \in Tabs : emitted[j] = a /\ ~early[j] /\ zip[j] # "done" => Quiet(a)

StartIsFirst ==
  \A j \in Tabs : ~early[j] /\ zip[j] \in {"binding", "listening"} => buttons[j] = "start"

Buttons == Untouched /\ StartIsFirst /\ ButtonsTrackAgent

ButtonInv == WireInv /\ Buttons

LEMMA ButtonInit == Init => ButtonInv
<1> SUFFICES ASSUME Init PROVE ButtonInv
  OBVIOUS
<1>1. WireInv
  BY WireInit
<1>2. Untouched /\ StartIsFirst /\ ButtonsTrackAgent
  BY DEF Init, Untouched, StartIsFirst, ButtonsTrackAgent, Quiet
<1>3. QED  BY <1>1, <1>2 DEF ButtonInv, Buttons

LEMMA ButtonTypes ==
  ASSUME WireInv
  PROVE  /\ emitted \in [Tabs -> Tabs \cup {None}] /\ None \notin Tabs
         /\ tab \in [Tabs -> {"new", "open", "closed"}]
         /\ zip \in [Tabs -> ZipSteps]
         /\ buttons \in [Tabs -> {"hidden", "start", "stop"}]
         /\ requests \in [Tabs -> Seq({"START", "STOP"})]
         /\ running \in [Tabs -> BOOLEAN]
         /\ early \in [Tabs -> BOOLEAN]
BY SessionAssumption DEF WireInv, RegistryInv, SampledInv, TypeInv, TypeOK

\* An open tab has an open channel, as only the tab itself closes it.
LEMMA OpenTabTalks ==
  ASSUME WireInv, NEW j \in Tabs, tab[j] = "open", emitted[j] # None
  PROVE  emitted[j] \in Tabs /\ channel[emitted[j]] = "open"
<1>1. emitted[j] \in Tabs
  BY ButtonTypes
<1>2. channel \in [Tabs -> {"none", "open", "closing", "closed"}]
      /\ agent \in [Tabs -> {"none", "loading", "failed", "reading", "done"}]
  BY WireTypes DEF WireInv, RegistryInv, SampledInv
<1>3. channel[emitted[j]] \notin {"closing", "closed"}
  <2>1. ASSUME NEW k \in Tabs, emitted[k] = emitted[j]
        PROVE  tab[k] # "closed"
    <3>1. k = j
      BY <2>1 DEF WireInv, Wires, OneTabPerAgent
    <3>2. QED  BY <3>1
  <2>2. QED  BY <1>1, <2>1 DEF WireInv, Wires, ClosedChannels
<1>4. channel[emitted[j]] # "none"
  <2>1. ~Idle(emitted[j])
    BY <1>1 DEF WireInv, Wires, IdleSilent, Emitted
  <2>2. QED  BY <1>1, <1>2, <2>1 DEF WireInv, Wires, ClosedChannels, Idle
<1>5. QED  BY <1>1, <1>2, <1>3, <1>4

\* Where a press goes.
LEMMA PressSends ==
  ASSUME WireInv, NEW j \in Tabs, NEW from, NEW to, NEW request \in {"START", "STOP"},
         Press(j, from, to, request)
  PROVE  /\ ~Bound(j) => requests' = requests
         /\ Bound(j) => /\ emitted[j] \in Tabs
                        /\ requests' = [requests EXCEPT ![emitted[j]] = Append(requests[emitted[j]], request)]
<1>1. CASE ~Bound(j)
  BY <1>1 DEF Press, Send
<1>2. CASE Bound(j)
  <2>1. emitted[j] # None
    BY <1>2 DEF Bound, HasChannel, WireInv, RegistryInv, Subjects
  <2>2. QED  BY <1>2, <2>1, OpenTabTalks DEF Press, Send
<1>3. QED  BY <1>1, <1>2

LEMMA ButtonPress ==
  ASSUME ButtonInv, NEW j \in Tabs, PressStart(j) \/ PressStop(j)
  PROVE  Buttons'
<1> DEFINE a == emitted[j]
<1>0. WireInv
  BY DEF ButtonInv
<1>1. PICK to \in {"start", "stop"}, request \in {"START", "STOP"} :
        (\E from : Press(j, from, to, request)) /\ (to = "stop" <=> request = "START")
  BY DEF PressStart, PressStop
<1>2. /\ UNCHANGED <<emitted, tab, zip, running>>
      /\ buttons' = [buttons EXCEPT ![j] = to]
      /\ early'[j] \/ (zip[j] = "done" /\ early'[j] = early[j])
      /\ \A k \in Tabs \ {j} : early'[k] = early[k]
  BY <1>0, <1>1, ButtonTypes DEF Press, agents
<1>3. \A b \in Tabs : Emitted(b)' = Emitted(b)
  BY <1>2 DEF Emitted
<1>4. /\ Bound(j) => a \in Tabs /\ requests'[a] = Append(requests[a], request)
      /\ \A b \in Tabs : (Bound(j) => b # a) => requests'[b] = requests[b]
  BY <1>0, <1>1, PressSends, ButtonTypes
<1>5. \A k \in Tabs \ {j} : Bound(j) /\ emitted[k] # None => emitted[k] # a
  BY <1>0 DEF WireInv, Wires, OneTabPerAgent
<1>6. Untouched'
  <2>1. ASSUME NEW b \in Tabs, ~Emitted(b)
        PROVE  Quiet(b)'
    BY <1>2, <1>4, <2>1 DEF ButtonInv, Buttons, Untouched, Quiet, Emitted
  <2>2. ASSUME NEW k \in Tabs, emitted[k] \in Tabs, ~early'[k], zip[k] # "done"
        PROVE  Quiet(emitted[k])'
    <3>1. k # j
      BY <1>2, <2>2
    <3>2. Quiet(emitted[k])
      BY <1>2, <2>2, <3>1 DEF ButtonInv, Buttons, Untouched
    <3>3. requests'[emitted[k]] = requests[emitted[k]]
      BY <1>0, <1>4, <1>5, <2>2, <3>1, ButtonTypes
    <3>4. QED  BY <1>2, <3>2, <3>3 DEF Quiet
  <2>3. QED  BY <1>2, <1>3, <2>1, <2>2 DEF Untouched
<1>7. StartIsFirst'
  BY <1>0, <1>2, ButtonTypes DEF ButtonInv, Buttons, StartIsFirst
<1>8. ButtonsTrackAgent'
  <2>1. ASSUME NEW k \in Tabs, tab[k] = "open", zip[k] = "done", ~early'[k]
        PROVE  buttons'[k] = "stop" <=> IF requests'[emitted[k]] = << >>
                                          THEN running[emitted[k]]
                                          ELSE Last(requests'[emitted[k]]) = "START"
    <3>1. CASE k = j
      <4>1. Bound(j)
        BY <2>1, <3>1 DEF Bound
      <4>2. requests[a] \in Seq({"START", "STOP"})
        BY <1>0, <1>4, <4>1, ButtonTypes
      <4>3. requests'[a] # << >> /\ Last(requests'[a]) = request
        <5>1. Append(requests[a], request) # << >> /\ Last(Append(requests[a], request)) = request
          BY <1>1, <4>2, Sent
        <5>2. QED  BY <1>4, <4>1, <5>1
      <4>4. buttons'[j] = to
        BY <1>0, <1>2, ButtonTypes
      <4>5. QED  BY <1>1, <3>1, <4>3, <4>4
    <3>2. CASE k # j
      <4>1. emitted[k] \in Tabs
        BY <1>0, <2>1, ButtonTypes DEF WireInv, RegistryInv, Subjects, HasChannel
      <4>2. requests'[emitted[k]] = requests[emitted[k]] /\ early'[k] = early[k] /\ buttons'[k] = buttons[k]
        BY <1>0, <1>2, <1>4, <1>5, <3>2, <4>1, ButtonTypes
      <4>3. QED  BY <2>1, <4>2 DEF ButtonInv, Buttons, ButtonsTrackAgent
    <3>3. QED  BY <3>1, <3>2
  <2>2. QED  BY <1>2, <2>1 DEF ButtonsTrackAgent
<1>9. QED  BY <1>6, <1>7, <1>8 DEF Buttons

\* Opening and closing tabs, reading from the connections and dispatching a
\* result leave buttons, requests and agents alone.
LEMMA ButtonFrame ==
  ASSUME ButtonInv, UNCHANGED <<emitted, buttons, requests, running, early>>,
         \A j \in Tabs : \/ UNCHANGED zip[j]
                         \/ zip[j] \notin {"binding", "listening", "done"}
                            /\ zip'[j] \notin {"binding", "listening", "done"},
         \A j \in Tabs : tab'[j] = "open" => tab[j] = "open" \/ zip'[j] # "done"
  PROVE  Buttons'
<1>1. \A a \in Tabs : Emitted(a)' = Emitted(a) /\ Quiet(a)' = Quiet(a)
  BY DEF Emitted, Quiet
<1>2. Untouched'
  BY <1>1 DEF ButtonInv, Buttons, Untouched
<1>3. StartIsFirst' /\ ButtonsTrackAgent'
  BY DEF ButtonInv, Buttons, StartIsFirst, ButtonsTrackAgent
<1>4. QED  BY <1>2, <1>3 DEF Buttons

LEMMA ButtonConnectStep ==
  ASSUME ButtonInv, NEW j \in Tabs, ConnectStep(j)
  PROVE  Buttons'
<1>0. WireInv
  BY DEF ButtonInv
<1>1. UNCHANGED <<emitted, tab, requests, running, early>>
  BY DEF ConnectStep, AttachVM, SubscribeChannel, CheckLifetime, AddClose, Connected, initSession,
         wire, agents, history
<1>2. CASE AttachVM(j) \/ SubscribeChannel(j) \/ CheckLifetime(j) \/ AddClose(j)
  <2>1. /\ UNCHANGED buttons
        /\ \E to \in ZipSteps \ {"binding", "listening", "done"} :
             zip' = [zip EXCEPT ![j] = to] /\ zip[j] \notin {"binding", "listening", "done"}
    BY <1>2 DEF AttachVM, SubscribeChannel, CheckLifetime, AddClose, Advance, ZipSteps
  <2>2. \A k \in Tabs : \/ UNCHANGED zip[k]
                        \/ zip[k] \notin {"binding", "listening", "done"}
                           /\ zip'[k] \notin {"binding", "listening", "done"}
    BY <1>0, <2>1, ButtonTypes
  <2>3. QED  BY <1>1, <2>1, <2>2, ButtonFrame
<1>3. CASE Connected(j) \/ initSession(j)
  <2>1. /\ zip[j] \in {"connecting", "binding", "listening"} /\ zip'[j] \in {"binding", "listening", "done"}
        /\ \A k \in Tabs \ {j} : zip'[k] = zip[k] /\ buttons'[k] = buttons[k]
        /\ zip[j] = "connecting" => buttons'[j] = "start" /\ zip'[j] = "binding"
        /\ zip[j] # "connecting" => buttons'[j] = buttons[j]
    BY <1>0, <1>3, ButtonTypes DEF Connected, initSession, Advance
  <2>2. \A a \in Tabs : Emitted(a)' = Emitted(a) /\ Quiet(a)' = Quiet(a)
    BY <1>1 DEF Emitted, Quiet
  <2>3. Untouched'
    BY <1>1, <2>1, <2>2 DEF ButtonInv, Buttons, Untouched
  <2>4. StartIsFirst'
    BY <1>1, <2>1 DEF ButtonInv, Buttons, StartIsFirst
  <2>5. ASSUME ~early[j]
        PROVE  buttons'[j] = "start" /\ emitted[j] \in Tabs /\ Quiet(emitted[j])
    <3>1. buttons'[j] = "start"
      BY <2>1, <2>5 DEF ButtonInv, Buttons, StartIsFirst
    <3>2. emitted[j] \in Tabs
      BY <1>0, <2>1, ButtonTypes DEF WireInv, RegistryInv, Subjects, HasChannel
    <3>3. QED  BY <2>1, <2>5, <3>1, <3>2 DEF ButtonInv, Buttons, Untouched
  <2>6. ButtonsTrackAgent'
    BY <1>1, <2>1, <2>5 DEF ButtonInv, Buttons, ButtonsTrackAgent, Quiet
  <2>7. QED  BY <2>3, <2>4, <2>6 DEF Buttons
<1>4. QED  BY <1>2, <1>3 DEF ConnectStep

LEMMA ButtonCloseChannel ==
  ASSUME ButtonInv, NEW a \in Tabs, CloseChannel(a)
  PROVE  Buttons'
<1>0. WireInv
  BY DEF ButtonInv
<1>1. UNCHANGED <<emitted, tab, zip, buttons, running, early>> /\ channel[a] = "closing"
  BY DEF CloseChannel, ide, agents, history
<1>2. PICK n \in 0 .. Len(requests[a]) : requests' = [requests EXCEPT ![a] = SubSeq(@, 1, n)]
  BY DEF CloseChannel
<1>3. /\ requests[a] = << >> => requests'[a] = << >>
      /\ \A b \in Tabs \ {a} : requests'[b] = requests[b]
  <2>1. requests[a] = << >> => SubSeq(requests[a], 1, n) = << >>
    BY <1>0, <1>2, ButtonTypes, Cut
  <2>2. QED  BY <1>0, <1>2, <2>1, ButtonTypes
<1>4. \A j \in Tabs : tab[j] = "open" => emitted[j] # a
  BY <1>0, <1>1, OpenTabTalks, ButtonTypes
<1>5. \A b \in Tabs : Emitted(b)' = Emitted(b) /\ (Quiet(b) => Quiet(b)')
  BY <1>1, <1>3 DEF Emitted, Quiet
<1>6. Untouched' /\ StartIsFirst'
  BY <1>1, <1>5 DEF ButtonInv, Buttons, Untouched, StartIsFirst
<1>7. ButtonsTrackAgent'
  <2>1. \A j \in Tabs : zip[j] = "done" => emitted[j] \in Tabs
    BY <1>0, ButtonTypes DEF WireInv, RegistryInv, Subjects, HasChannel
  <2>2. \A j \in Tabs : tab[j] = "open" /\ zip[j] = "done" => requests'[emitted[j]] = requests[emitted[j]]
    BY <1>3, <1>4, <2>1
  <2>3. QED  BY <1>1, <2>2 DEF ButtonInv, Buttons, ButtonsTrackAgent
<1>8. QED  BY <1>6, <1>7 DEF Buttons

LEMMA ButtonAgentReads ==
  ASSUME ButtonInv, NEW a \in Tabs, AgentStart(a) \/ AgentStop(a)
  PROVE  Buttons'
<1>0. WireInv
  BY DEF ButtonInv
<1>1. PICK request \in {"START", "STOP"} :
        /\ ReadRequest(a, request)
        /\ running' = [running EXCEPT ![a] = (request = "START")]
  BY DEF AgentStart, AgentStop
<1>2. /\ UNCHANGED <<emitted, tab, zip, buttons, early>>
      /\ requests[a] # << >> /\ Head(requests[a]) = request
      /\ requests'[a] = Tail(requests[a]) /\ running'[a] = (request = "START")
      /\ \A b \in Tabs \ {a} : requests'[b] = requests[b] /\ running'[b] = running[b]
  BY <1>0, <1>1, ButtonTypes DEF ReadRequest, ide, history
<1>3. \A b \in Tabs : Emitted(b)' = Emitted(b) /\ (Quiet(b) => b # a /\ Quiet(b)')
  BY <1>2 DEF Emitted, Quiet
<1>4. Untouched' /\ StartIsFirst'
  BY <1>2, <1>3 DEF ButtonInv, Buttons, Untouched, StartIsFirst
<1>5. ButtonsTrackAgent'
  <2>1. /\ requests'[a] # << >> => Last(requests'[a]) = Last(requests[a])
        /\ requests'[a] = << >> => Last(requests[a]) = request
    BY <1>0, <1>2, Read, ButtonTypes
  <2>2. ASSUME NEW j \in Tabs, tab[j] = "open", zip[j] = "done", ~early[j]
        PROVE  buttons[j] = "stop" <=> IF requests'[emitted[j]] = << >>
                                         THEN running'[emitted[j]]
                                         ELSE Last(requests'[emitted[j]]) = "START"
    <3>1. buttons[j] = "stop" <=> IF requests[emitted[j]] = << >>
                                    THEN running[emitted[j]]
                                    ELSE Last(requests[emitted[j]]) = "START"
      BY <2>2 DEF ButtonInv, Buttons, ButtonsTrackAgent
    <3>2. emitted[j] \in Tabs
      BY <1>0, <2>2, ButtonTypes DEF WireInv, RegistryInv, Subjects, HasChannel
    <3>3. CASE emitted[j] = a
      BY <1>2, <2>1, <3>1, <3>3
    <3>4. CASE emitted[j] # a
      BY <1>2, <3>1, <3>2, <3>4
    <3>5. QED  BY <3>3, <3>4
  <2>3. QED  BY <1>2, <2>2 DEF ButtonsTrackAgent
<1>6. QED  BY <1>4, <1>5 DEF Buttons

\* The INIT of an agent is dispatched before any tab has its connection.
LEMMA GivenOnce ==
  ASSUME WireInv, NEW a \in Tabs, setChan(a)
  PROVE  ~Emitted(a) /\ Posted(a)
<1>1. edt # << >> /\ Head(edt) = Hello(a) /\ edt' = Tail(edt)
  BY DEF setChan, Hello
<1>2. 1 \in DOMAIN edt /\ edt[1] = Hello(a)
  BY <1>1, Taken DEF WireInv, RegistryInv, SampledInv
<1>3. Hello(a).from = a
  BY DEF Hello
<1>4. QED  BY <1>2, <1>3 DEF WireInv, Wires, InitIsFirstPosted, Posted

LEMMA ButtonSetChan ==
  ASSUME ButtonInv, NEW a \in Tabs, setChan(a)
  PROVE  Buttons'
<1> DEFINE j == jvms[PidOf[a]]
<1>0. WireInv
  BY DEF ButtonInv
<1>1. UNCHANGED <<tab, requests, running, early>>
  BY DEF setChan, SetChan, wire, agents, history
<1>2. Quiet(a)
  BY <1>0, GivenOnce DEF ButtonInv, Buttons, Untouched
<1>3. ASSUME NEW k \in Tabs
      PROVE  /\ emitted'[k] = emitted[k] \/ emitted'[k] = a
             /\ \/ zip'[k] = zip[k] /\ buttons'[k] = buttons[k]
                \/ /\ zip[k] = "waiting" /\ zip'[k] \in {"done", "rejected"} /\ emitted'[k] = a
                   /\ zip'[k] = "done" => buttons'[k] = "start"
             /\ emitted[k] # None => emitted'[k] = emitted[k]
  <2>1. /\ emitted' = [emitted EXCEPT ![j] = IF emitted[j] = None THEN a ELSE emitted[j]]
        /\ \/ UNCHANGED <<zip, buttons>>
           \/ /\ emitted[j] = None /\ zip[j] = "waiting"
              /\ zip' = [zip EXCEPT ![j] = IF tab[j] = "open" THEN "done" ELSE "rejected"]
              /\ buttons' = [buttons EXCEPT ![j] = IF tab[j] = "open" THEN "start" ELSE buttons[j]]
    BY DEF setChan, SetChan
  <2>2. CASE k # j
    BY <1>0, <2>1, <2>2, ButtonTypes
  <2>3. CASE k = j
    BY <1>0, <2>1, <2>3, ButtonTypes
  <2>4. QED  BY <2>2, <2>3
<1>4. Untouched'
  <2>1. \A b \in Tabs : Quiet(b)' = Quiet(b)
    BY <1>1 DEF Quiet
  <2>2. \A b \in Tabs : Emitted(b) => Emitted(b)'
    BY <1>0, <1>3, ButtonTypes DEF Emitted
  <2>3. ASSUME NEW k \in Tabs, emitted'[k] \in Tabs, ~early[k], zip'[k] # "done"
        PROVE  Quiet(emitted'[k])
    BY <1>2, <1>3, <2>3 DEF ButtonInv, Buttons, Untouched
  <2>4. QED  BY <1>1, <2>1, <2>2, <2>3 DEF ButtonInv, Buttons, Untouched
<1>5. StartIsFirst'
  BY <1>1, <1>3 DEF ButtonInv, Buttons, StartIsFirst
<1>6. ButtonsTrackAgent'
  <2>1. ASSUME NEW k \in Tabs, tab[k] = "open", zip'[k] = "done", ~early[k]
        PROVE  buttons'[k] = "stop" <=> IF requests[emitted'[k]] = << >>
                                          THEN running[emitted'[k]]
                                          ELSE Last(requests[emitted'[k]]) = "START"
    <3>1. CASE zip[k] = "done"
      <4>1. emitted[k] # None
        BY <1>0, <3>1 DEF WireInv, RegistryInv, Subjects, HasChannel
      <4>2. emitted'[k] = emitted[k] /\ buttons'[k] = buttons[k]
        BY <1>3, <3>1, <4>1
      <4>3. QED  BY <2>1, <3>1, <4>2 DEF ButtonInv, Buttons, ButtonsTrackAgent
    <3>2. CASE zip[k] # "done"
      <4>1. emitted'[k] = a /\ buttons'[k] = "start"
        BY <1>3, <2>1, <3>2
      <4>2. QED  BY <1>2, <4>1 DEF Quiet
    <3>3. QED  BY <3>1, <3>2
  <2>2. QED  BY <1>1, <2>1 DEF ButtonsTrackAgent
<1>7. QED  BY <1>4, <1>5, <1>6 DEF Buttons

LEMMA ButtonStep ==
  ASSUME ButtonInv, [Next]_vars
  PROVE  ButtonInv'
<1>0. WireInv /\ WireInv'
  BY WireStep DEF ButtonInv
<1>1. ASSUME NEW j \in Tabs, OpenTab(j)
      PROVE  Buttons'
  <2>1. /\ UNCHANGED <<emitted, buttons, requests, running, early>>
        /\ zip' = [zip EXCEPT ![j] = "attaching"] /\ tab' = [tab EXCEPT ![j] = "open"]
        /\ tab[j] = "new"
    BY <1>1 DEF OpenTab, wire, agents, history
  <2>2. zip[j] = "none"
    BY <1>0, <2>1 DEF WireInv, RegistryInv, SampledInv, TypeInv, Unopened
  <2>3. QED  BY <1>0, <2>1, <2>2, ButtonFrame, ButtonTypes
<1>2. ASSUME NEW j \in Tabs, CloseTab(j)
      PROVE  Buttons'
  <2>1. /\ UNCHANGED <<emitted, zip, buttons, requests, running, early>>
        /\ tab' = [tab EXCEPT ![j] = "closed"]
    BY <1>2 DEF CloseTab, agents, history
  <2>2. QED  BY <1>0, <2>1, ButtonFrame, ButtonTypes
<1>3. ASSUME NEW a \in Tabs, channelRead0(a) \/ LoadAgent(a) \/ AgentLeaves(a) \/ result(a)
      PROVE  Buttons'
  <2>1. UNCHANGED <<emitted, tab, zip, buttons, requests, running, early>>
    BY <1>3 DEF channelRead0, LoadAgent, AgentLeaves, result, Rejected, Result, ide, wire, agents, history
  <2>2. QED  BY <2>1, ButtonFrame
<1>4. CASE UNCHANGED vars
  <2>1. UNCHANGED <<emitted, tab, zip, buttons, requests, running, early>>
    BY <1>4 DEF vars, ide, wire, agents, history
  <2>2. QED  BY <1>0, <2>1, ButtonFrame DEF ButtonInv
<1>5. ASSUME Next
      PROVE  Buttons'
  BY <1>1, <1>2, <1>3, <1>5, ButtonPress, ButtonConnectStep, ButtonCloseChannel, ButtonAgentReads,
     ButtonSetChan
  DEF Next, ServerStep, AgentStep, Dispatch
<1>6. QED  BY <1>0, <1>4, <1>5 DEF ButtonInv

\* Session.ButtonsTrackAgent: the enabled button of a tab and the agent agree,
\* counting the requests on their way, unless it was pressed too early.
THEOREM ButtonsAreTrue == Spec => []ButtonsTrackAgent
<1>1. ButtonInv => ButtonsTrackAgent
  BY DEF ButtonInv, Buttons
<1>2. QED  BY <1>1, ButtonInit, ButtonStep, PTL DEF Spec
-----------------------------------------------------------------------------
(***************************************************************************)
(* Counting the entries of a queue.                                        *)
(***************************************************************************)
Places(s, x) == { i \in DOMAIN s : s[i] = x }

Count(s, x) == Cardinality(Places(s, x))

LEMMA CountType ==
  ASSUME NEW S, NEW s \in Seq(S), NEW x
  PROVE  /\ IsFiniteSet(Places(s, x)) /\ Count(s, x) \in Nat
         /\ (\A i \in DOMAIN s : s[i] # x) => Count(s, x) = 0
         /\ (\E i \in DOMAIN s : s[i] = x) => Count(s, x) >= 1
<1>1. Len(s) \in Nat /\ DOMAIN s = 1 .. Len(s)
  BY LenProperties
<1>2. IsFiniteSet(1 .. Len(s)) /\ Places(s, x) \in SUBSET (1 .. Len(s))
  BY <1>1, FS_Interval DEF Places
<1>3. IsFiniteSet(Places(s, x))
  BY <1>2, FS_Subset
<1>4. Count(s, x) \in Nat
  BY <1>3, FS_CardinalityType DEF Count
<1>5. Count(s, x) = 0 <=> Places(s, x) = {}
  BY <1>3, FS_EmptySet DEF Count
<1>6. (\A i \in DOMAIN s : s[i] # x) => Count(s, x) = 0
  BY <1>5 DEF Places
<1>7. (\E i \in DOMAIN s : s[i] = x) => Count(s, x) >= 1
  BY <1>4, <1>5 DEF Places
<1>8. QED  BY <1>3, <1>4, <1>6, <1>7

LEMMA CountEmpty == \A x : Count(<< >>, x) = 0
<1>1. \A x : Places(<< >>, x) = {}
  BY DEF Places
<1>2. QED  BY <1>1, FS_EmptySet DEF Count

LEMMA CountSent ==
  ASSUME NEW S, NEW s \in Seq(S), NEW y \in S, NEW x
  PROVE  Count(Append(s, y), x) = IF y = x THEN Count(s, x) + 1 ELSE Count(s, x)
<1> DEFINE t == Append(s, y)
<1> DEFINE last == Len(s) + 1
<1>1. /\ Len(s) \in Nat /\ DOMAIN s = 1 .. Len(s)
      /\ DOMAIN t = 1 .. last /\ t[last] = y
      /\ \A i \in 1 .. Len(s) : t[i] = s[i]
  BY Sent
<1> HIDE DEF t
<1>2. last \notin Places(s, x)
  BY <1>1 DEF Places
<1>3. CASE y = x
  <2>1. Places(t, x) = Places(s, x) \cup {last}
    BY <1>1, <1>3 DEF Places
  <2>2. QED  BY <1>2, <1>3, <2>1, CountType, FS_AddElement DEF Count, t
<1>4. CASE y # x
  <2>1. Places(t, x) = Places(s, x)
    BY <1>1, <1>4 DEF Places
  <2>2. QED  BY <1>4, <2>1 DEF Count, t
<1>5. QED  BY <1>3, <1>4

LEMMA CountRead ==
  ASSUME NEW S, NEW s \in Seq(S), s # << >>, NEW x
  PROVE  Count(s, x) = IF Head(s) = x THEN Count(Tail(s), x) + 1 ELSE Count(Tail(s), x)
<1> DEFINE t == Tail(s)
<1>1. /\ Len(s) \in Nat /\ Len(s) >= 1 /\ DOMAIN s = 1 .. Len(s) /\ Head(s) = s[1]
      /\ t \in Seq(S) /\ DOMAIN t = 1 .. Len(s) - 1
      /\ \A i \in 1 .. Len(s) - 1 : t[i] = s[i + 1]
  BY Read
<1> HIDE DEF t
<1> DEFINE rest == Places(s, x) \ {1}
<1>2. IsFiniteSet(rest) /\ Cardinality(rest) = Count(t, x)
  <2> DEFINE f == [i \in Places(t, x) |-> i + 1]
  <2>1. f \in [Places(t, x) -> rest]
    BY <1>1 DEF Places
  <2>2. \A i, k \in Places(t, x) : f[i] = f[k] => i = k
    BY <1>1 DEF Places
  <2>3. \A m \in rest : \E i \in Places(t, x) : f[i] = m
    <3>1. ASSUME NEW m \in rest
          PROVE  m - 1 \in Places(t, x) /\ f[m - 1] = m
      BY <1>1 DEF Places
    <3>2. QED  BY <3>1
  <2>4. f \in Bijection(Places(t, x), rest)
    BY <2>1, <2>2, <2>3 DEF Bijection, Injection, IsInjective, Surjection
  <2>5. ExistsBijection(Places(t, x), rest)
    BY <2>4 DEF ExistsBijection
  <2>6. IsFiniteSet(Places(t, x))
    BY <1>1, CountType
  <2>7. QED  BY <2>5, <2>6, FS_Bijection DEF Count
<1>3. CASE Head(s) = x
  <2>1. 1 \in Places(s, x)
    BY <1>1, <1>3 DEF Places
  <2>2. Places(s, x) = rest \cup {1} /\ 1 \notin rest
    BY <2>1
  <2>3. Count(s, x) = Count(t, x) + 1
    BY <1>2, <2>2, FS_AddElement DEF Count
  <2>4. QED  BY <1>3, <2>3 DEF t
<1>4. CASE Head(s) # x
  <2>1. Places(s, x) = rest
    BY <1>1, <1>4 DEF Places
  <2>2. Count(s, x) = Count(t, x)
    BY <1>2, <2>1 DEF Count
  <2>3. QED  BY <1>4, <2>2 DEF t
<1>5. QED  BY <1>3, <1>4

LEMMA CountCut ==
  ASSUME NEW S, NEW s \in Seq(S), NEW n \in 0 .. Len(s), NEW x
  PROVE  Count(SubSeq(s, 1, n), x) \in Nat /\ Count(SubSeq(s, 1, n), x) <= Count(s, x)
<1>1. /\ SubSeq(s, 1, n) \in Seq(S) /\ DOMAIN SubSeq(s, 1, n) = 1 .. n
      /\ \A i \in 1 .. n : SubSeq(s, 1, n)[i] = s[i]
  BY Cut
<1>2. Len(s) \in Nat /\ DOMAIN s = 1 .. Len(s)
  BY LenProperties
<1>3. Places(SubSeq(s, 1, n), x) \in SUBSET Places(s, x)
  BY <1>1, <1>2 DEF Places
<1>4. QED  BY <1>1, <1>3, CountType, FS_Subset DEF Count
-----------------------------------------------------------------------------
(***************************************************************************)
(* No result is lost.  A STOP is counted where it is: as a request, as a   *)
(* response, as a message, and at last as a result of the tab.             *)
(***************************************************************************)
Due(a) == Count(edt, Reply(a)) + Count(responses[a], "PROF_INFO") + Count(requests[a], "STOP")

NoneDue ==
  /\ \A a \in Tabs : ~Emitted(a) => Due(a) = 0
  /\ \A j \in Tabs : emitted[j] # None /\ ~early[j] /\ zip[j] # "done" => Due(emitted[j]) = 0

StopsAreLater ==
  \A j \in Tabs : ~Bound(j) \/ (~early[j] /\ zip[j] # "done") => stops[j] = 0

Counted ==
  \A j \in Tabs : emitted[j] # None =>
    /\ Len(results[j]) + Due(emitted[j]) <= stops[j]
    /\ tab[j] = "open" /\ ~early[j] /\ jvms[PidOf[j]] = j /\ j \notin broken =>
         Len(results[j]) + Due(emitted[j]) = stops[j]

Counts == NoneDue /\ StopsAreLater /\ Counted

CountInv == RouteInv /\ Counts

LEMMA CountTypes ==
  ASSUME RouteInv
  PROVE  /\ edt \in Seq(Messages) /\ PidOf \in [Tabs -> Pids]
         /\ requests \in [Tabs -> Seq({"START", "STOP"})]
         /\ responses \in [Tabs -> Seq({"INIT", "PROF_INFO"})]
         /\ jvms \in [Pids -> Tabs \cup {None}]
         /\ stops \in [Tabs -> Nat]
         /\ results \in [Tabs -> Seq(Tabs)]
         /\ early \in [Tabs -> BOOLEAN]
         /\ emitted \in [Tabs -> Tabs \cup {None}] /\ None \notin Tabs
         /\ tab \in [Tabs -> {"new", "open", "closed"}]
         /\ zip \in [Tabs -> ZipSteps]
         /\ WireInv
BY SessionAssumption DEF RouteInv, WireInv, RegistryInv, SampledInv, TypeInv, TypeOK

LEMMA DueType ==
  ASSUME RouteInv, NEW a \in Tabs
  PROVE  /\ Count(edt, Reply(a)) \in Nat
         /\ Count(responses[a], "PROF_INFO") \in Nat
         /\ Count(requests[a], "STOP") \in Nat
         /\ Due(a) \in Nat
<1>1. Count(edt, Reply(a)) \in Nat
  BY CountTypes, CountType
<1>2. Count(responses[a], "PROF_INFO") \in Nat
  <2>1. responses[a] \in Seq({"INIT", "PROF_INFO"})
    BY CountTypes
  <2>2. QED  BY <2>1, CountType
<1>3. Count(requests[a], "STOP") \in Nat
  <2>1. requests[a] \in Seq({"START", "STOP"})
    BY CountTypes
  <2>2. QED  BY <2>1, CountType
<1>4. QED  BY <1>1, <1>2, <1>3 DEF Due

LEMMA ReplyNames ==
  ASSUME NEW a, NEW b
  PROVE  /\ Reply(a) = Reply(b) => a = b
         /\ Reply(a) # Hello(b)
<1>1. Reply(a).from = a /\ Reply(b).from = b /\ Reply(a).type # Hello(b).type
  BY DEF Reply, Hello
<1>2. QED  BY <1>1

LEMMA CountInit == Init => CountInv
<1> SUFFICES ASSUME Init PROVE CountInv
  OBVIOUS
<1>1. RouteInv
  BY RouteInit
<1>2. \A a \in Tabs : Due(a) = 0
  BY CountEmpty DEF Init, Due
<1>3. Counts
  BY <1>2 DEF Init, Counts, NoneDue, StopsAreLater, Counted
<1>4. QED  BY <1>1, <1>3 DEF CountInv

(***************************************************************************)
(* What each step does to the number of results that are due.              *)
(***************************************************************************)
LEMMA DueNext ==
  ASSUME NEW a \in Tabs
  PROVE  Due(a)' = Count(edt', Reply(a)) + Count(responses'[a], "PROF_INFO") + Count(requests'[a], "STOP")
BY DEF Due, Count, Places, Reply

LEMMA DuePress ==
  ASSUME RouteInv, NEW j \in Tabs, NEW from, NEW to, NEW request \in {"START", "STOP"},
         Press(j, from, to, request), NEW a \in Tabs
  PROVE  Due(a)' = IF Bound(j) /\ emitted[j] = a /\ request = "STOP" THEN Due(a) + 1 ELSE Due(a)
<1>1. /\ UNCHANGED <<edt, responses>>
      /\ ~Bound(j) => requests' = requests
      /\ Bound(j) => requests' = [requests EXCEPT ![emitted[j]] = Append(requests[emitted[j]], request)]
  BY PressSends, CountTypes DEF Press
<1>2. CASE Bound(j) /\ emitted[j] = a
  <2>1. requests'[a] = Append(requests[a], request) /\ requests[a] \in Seq({"START", "STOP"})
    BY <1>1, <1>2, CountTypes
  <2>2. Count(requests'[a], "STOP") = IF request = "STOP" THEN Count(requests[a], "STOP") + 1
                                                          ELSE Count(requests[a], "STOP")
    BY <2>1, CountSent
  <2>3. QED  BY <1>1, <1>2, <2>2, DueNext, DueType DEF Due
<1>3. CASE Bound(j) => emitted[j] # a
  <2>1. requests'[a] = requests[a]
    BY <1>1, <1>3, CountTypes
  <2>2. QED  BY <1>1, <1>3, <2>1, DueNext DEF Due
<1>4. QED  BY <1>2, <1>3

LEMMA DueChannelRead ==
  ASSUME RouteInv, NEW b \in Tabs, channelRead0(b), NEW a \in Tabs
  PROVE  Due(a)' = Due(a)
<1> DEFINE sent == [type |-> Head(responses[b]), from |-> b]
<1>1. /\ responses[b] \in Seq({"INIT", "PROF_INFO"}) /\ responses[b] # << >>
      /\ responses'[b] = Tail(responses[b]) /\ (a # b => responses'[a] = responses[a])
      /\ requests' = requests /\ edt' = Append(edt, sent)
  BY CountTypes DEF channelRead0
<1>2. Head(responses[b]) \in {"INIT", "PROF_INFO"}
  BY <1>1, Read
<1>3. sent \in Messages
  BY <1>2 DEF Messages
<1>4. sent = Reply(a) <=> a = b /\ Head(responses[b]) = "PROF_INFO"
  <2>1. /\ sent.from = b /\ sent.type = Head(responses[b])
        /\ Reply(a).from = a /\ Reply(a).type = "PROF_INFO"
    BY DEF Reply
  <2>2. sent = Reply(a) => a = b /\ Head(responses[b]) = "PROF_INFO"
    BY <2>1
  <2>3. a = b /\ Head(responses[b]) = "PROF_INFO" => sent = Reply(a)
    BY DEF Reply
  <2>4. QED  BY <2>2, <2>3
<1> HIDE DEF sent
<1>5. Count(edt', Reply(a)) = IF sent = Reply(a) THEN Count(edt, Reply(a)) + 1 ELSE Count(edt, Reply(a))
  BY <1>1, <1>3, CountSent, CountTypes
<1>6. CASE a = b
  <2>1. Count(responses[b], "PROF_INFO") =
          IF Head(responses[b]) = "PROF_INFO" THEN Count(Tail(responses[b]), "PROF_INFO") + 1
                                              ELSE Count(Tail(responses[b]), "PROF_INFO")
    BY <1>1, CountRead
  <2>2. Count(Tail(responses[b]), "PROF_INFO") \in Nat
    BY <1>1, Read, CountType
  <2>3. QED  BY <1>1, <1>4, <1>5, <1>6, <2>1, <2>2, DueNext, DueType DEF Due
<1>7. CASE a # b
  BY <1>1, <1>4, <1>5, <1>7, DueNext DEF Due
<1>8. QED  BY <1>6, <1>7

LEMMA DueCloseChannel ==
  ASSUME RouteInv, NEW b \in Tabs, CloseChannel(b), NEW a \in Tabs
  PROVE  Due(a)' <= Due(a) /\ Due(a)' \in Nat /\ (a # b => Due(a)' = Due(a))
<1>1. edt' = edt /\ responses' = [responses EXCEPT ![b] = << >>]
  BY DEF CloseChannel, ide
<1>2. PICK n \in 0 .. Len(requests[b]) : requests' = [requests EXCEPT ![b] = SubSeq(@, 1, n)]
  BY DEF CloseChannel
<1>3. CASE a = b
  <2>1. requests'[a] = SubSeq(requests[a], 1, n) /\ responses'[a] = << >>
    BY <1>1, <1>2, <1>3, CountTypes
  <2>2. Count(requests'[a], "STOP") \in Nat /\ Count(requests'[a], "STOP") <= Count(requests[a], "STOP")
    <3>1. requests[a] \in Seq({"START", "STOP"}) /\ n \in 0 .. Len(requests[a])
      BY <1>2, <1>3, CountTypes
    <3>2. QED  BY <2>1, <3>1, CountCut
  <2>3. Count(responses'[a], "PROF_INFO") = 0
    BY <2>1, CountEmpty
  <2>4. QED  BY <1>1, <1>3, <2>2, <2>3, DueNext, DueType DEF Due
<1>4. CASE a # b
  <2>1. requests'[a] = requests[a] /\ responses'[a] = responses[a]
    BY <1>1, <1>2, <1>4, CountTypes
  <2>2. QED  BY <1>1, <1>4, <2>1, DueNext, DueType DEF Due
<1>5. QED  BY <1>3, <1>4

LEMMA DueAgentStep ==
  ASSUME RouteInv, NEW b \in Tabs, AgentStep(b), NEW a \in Tabs
  PROVE  Due(a)' <= Due(a) /\ Due(a)' \in Nat /\ (channel[a] # "closed" => Due(a)' = Due(a))
<1>0. edt' = edt
  BY DEF AgentStep, LoadAgent, AgentStart, AgentStop, AgentLeaves, ReadRequest, ide
<1>1. CASE requests'[a] = requests[a] /\ responses'[a] = responses[a]
  BY <1>0, <1>1, DueNext, DueType DEF Due
<1>2. CASE a # b
  <2>1. requests'[a] = requests[a] /\ responses'[a] = responses[a]
    BY <1>2, CountTypes DEF AgentStep, LoadAgent, AgentStart, AgentStop, AgentLeaves, ReadRequest, wire
  <2>2. QED  BY <2>1, <1>1
<1>3. CASE a = b /\ LoadAgent(b)
  <2>1. responses[b] = << >>
    BY <1>3, CountTypes DEF LoadAgent, WireInv, Wires, IdleSilent, Idle
  <2>2. CASE responses' = [responses EXCEPT ![b] = <<"INIT">>]
    <3>1. Places(<<"INIT">>, "PROF_INFO") = {}
      BY DEF Places
    <3>2. Count(<<"INIT">>, "PROF_INFO") = 0
      BY <3>1, FS_EmptySet DEF Count
    <3>3. Count(responses'[a], "PROF_INFO") = Count(responses[a], "PROF_INFO")
      BY <1>3, <2>1, <2>2, <3>2, CountEmpty, CountTypes
    <3>4. requests' = requests
      BY <1>3 DEF LoadAgent
    <3>5. QED  BY <1>0, <3>3, <3>4, DueNext, DueType DEF Due
  <2>3. CASE responses' = responses
    BY <1>1, <1>3, <2>3 DEF LoadAgent
  <2>4. QED  BY <1>3, <2>2, <2>3 DEF LoadAgent
<1>4. ASSUME NEW request, ReadRequest(b, request), a = b
      PROVE  /\ Count(requests'[a], "STOP") \in Nat
             /\ Count(requests[a], "STOP") = IF request = "STOP" THEN Count(requests'[a], "STOP") + 1
                                                                 ELSE Count(requests'[a], "STOP")
  <2>1. /\ requests[a] \in Seq({"START", "STOP"}) /\ requests[a] # << >> /\ Head(requests[a]) = request
        /\ requests'[a] = Tail(requests[a])
    BY <1>4, CountTypes DEF ReadRequest
  <2>2. Tail(requests[a]) \in Seq({"START", "STOP"})
    BY <2>1, Read
  <2>3. Count(Tail(requests[a]), "STOP") \in Nat
    BY <2>2, CountType
  <2>4. QED  BY <2>1, <2>3, CountRead
<1>5. CASE a = b /\ AgentStart(b)
  <2>1. ReadRequest(b, "START") /\ responses' = responses
    BY <1>5 DEF AgentStart
  <2>2. Count(requests[a], "STOP") = Count(requests'[a], "STOP")
    BY <1>4, <1>5, <2>1
  <2>3. QED  BY <1>0, <2>1, <2>2, DueNext, DueType DEF Due
<1>6. CASE a = b /\ AgentStop(b)
  <2>1. ReadRequest(b, "STOP")
    BY <1>6 DEF AgentStop
  <2>2. Count(requests'[a], "STOP") \in Nat /\ Count(requests[a], "STOP") = Count(requests'[a], "STOP") + 1
    BY <1>4, <1>6, <2>1
  <2>3. CASE responses' = [responses EXCEPT ![b] = Append(@, "PROF_INFO")]
    <3>1. responses'[a] = Append(responses[a], "PROF_INFO") /\ responses[a] \in Seq({"INIT", "PROF_INFO"})
      BY <1>6, <2>3, CountTypes
    <3>2. Count(responses'[a], "PROF_INFO") = Count(responses[a], "PROF_INFO") + 1
      BY <3>1, CountSent
    <3>3. QED  BY <1>0, <2>2, <3>2, DueNext, DueType DEF Due
  <2>4. CASE channel[b] = "closed" /\ responses' = responses
    BY <1>0, <1>6, <2>2, <2>4, DueNext, DueType DEF Due
  <2>5. QED  BY <1>6, <2>3, <2>4 DEF AgentStop
<1>7. CASE AgentLeaves(b)
  BY <1>1, <1>7 DEF AgentLeaves, wire
<1>8. QED  BY <1>2, <1>3, <1>5, <1>6, <1>7 DEF AgentStep

LEMMA DueDispatch ==
  ASSUME RouteInv, edt # << >>, edt' = Tail(edt), UNCHANGED <<requests, responses>>, NEW a \in Tabs
  PROVE  /\ Due(a)' \in Nat
         /\ Due(a) = IF Head(edt) = Reply(a) THEN Due(a)' + 1 ELSE Due(a)'
<1>1. edt \in Seq(Messages) /\ Tail(edt) \in Seq(Messages)
  BY CountTypes, Read
<1>2. Count(edt', Reply(a)) \in Nat
  BY <1>1, CountType
<1>3. Count(edt, Reply(a)) = IF Head(edt) = Reply(a) THEN Count(edt', Reply(a)) + 1
                                                     ELSE Count(edt', Reply(a))
  BY <1>1, CountRead
<1>4. QED  BY <1>2, <1>3, DueNext, DueType DEF Due

(***************************************************************************)
(* The steps.                                                              *)
(***************************************************************************)
LEMMA CountPress ==
  ASSUME CountInv, NEW j \in Tabs, PressStart(j) \/ PressStop(j)
  PROVE  Counts'
<1>0. RouteInv
  BY DEF CountInv
<1>1. PICK request \in {"START", "STOP"} :
        /\ \E from, to : Press(j, from, to, request)
        /\ stops' = IF request = "STOP" /\ Bound(j) THEN [stops EXCEPT ![j] = @ + 1] ELSE stops
  BY <1>0, CountTypes DEF PressStart, PressStop
<1>2. /\ UNCHANGED <<jvms, emitted, tab, zip, broken, results>>
      /\ early'[j] \/ (zip[j] = "done" /\ early'[j] = early[j])
      /\ \A k \in Tabs \ {j} : early'[k] = early[k]
  BY <1>0, <1>1, CountTypes DEF Press
<1>3. \A k \in Tabs : (early[k] => early'[k]) /\ (zip[k] # "done" /\ ~early'[k] => k # j)
  BY <1>2
<1>4. /\ \A k \in Tabs : stops'[k] = IF request = "STOP" /\ Bound(j) /\ k = j THEN stops[k] + 1 ELSE stops[k]
      /\ \A k \in Tabs : Bound(k)' = Bound(k)
  BY <1>0, <1>1, <1>2, CountTypes DEF Bound
<1>5. \A a \in Tabs : Due(a)' = IF Bound(j) /\ emitted[j] = a /\ request = "STOP" THEN Due(a) + 1 ELSE Due(a)
  BY <1>0, <1>1, DuePress
<1>6. \A k \in Tabs : emitted[k] # None /\ emitted[k] = emitted[j] => k = j
  BY <1>0, CountTypes DEF WireInv, Wires, OneTabPerAgent
<1>7. \A k \in Tabs : emitted[k] # None => emitted[k] \in Tabs /\ Due(emitted[k]) \in Nat
  BY <1>0, CountTypes, DueType
<1>8. ASSUME NEW k \in Tabs, emitted[k] # None
      PROVE  LET a == emitted[k]
             IN  Due(a)' = IF Bound(j) /\ k = j /\ request = "STOP" THEN Due(a) + 1 ELSE Due(a)
  <2>1. PICK a \in Tabs : a = emitted[k]
    BY <1>7, <1>8
  <2>2. Due(a)' = IF Bound(j) /\ k = j /\ request = "STOP" THEN Due(a) + 1 ELSE Due(a)
    BY <1>5, <1>6, <1>8, <2>1
  <2>3. Due(emitted[k])' = Due(a)'
    BY <1>2, <2>1
  <2>4. QED  BY <2>1, <2>2, <2>3
<1>9. NoneDue'
  <2>1. ASSUME NEW a \in Tabs, ~Emitted(a)'
        PROVE  Due(a)' = 0
    BY <1>2, <1>5, <2>1 DEF CountInv, Counts, NoneDue, Emitted
  <2>2. ASSUME NEW k \in Tabs, emitted[k] # None, ~early'[k], zip[k] # "done"
        PROVE  Due(emitted[k])' = 0
    BY <1>2, <1>3, <1>8, <2>2 DEF CountInv, Counts, NoneDue
  <2>3. QED  BY <1>2, <2>1, <2>2 DEF NoneDue
<1>10. StopsAreLater'
  BY <1>2, <1>3, <1>4 DEF CountInv, Counts, StopsAreLater
<1>11. Counted'
  <2>1. ASSUME NEW k \in Tabs, emitted[k] # None
        PROVE  /\ Len(results[k]) + Due(emitted[k])' <= stops'[k]
               /\ tab[k] = "open" /\ ~early'[k] /\ jvms[PidOf[k]] = k /\ k \notin broken =>
                    Len(results[k]) + Due(emitted[k])' = stops'[k]
    <3>1. /\ Len(results[k]) + Due(emitted[k]) <= stops[k]
          /\ tab[k] = "open" /\ ~early'[k] /\ jvms[PidOf[k]] = k /\ k \notin broken =>
               Len(results[k]) + Due(emitted[k]) = stops[k]
      BY <1>3, <2>1 DEF CountInv, Counts, Counted
    <3>2. Len(results[k]) \in Nat /\ Due(emitted[k]) \in Nat /\ stops[k] \in Nat
      BY <1>0, <1>7, <2>1, CountTypes, LenProperties
    <3>3. QED  BY <1>4, <1>8, <2>1, <3>1, <3>2
  <2>2. QED  BY <1>2, <2>1 DEF Counted
<1>12. QED  BY <1>9, <1>10, <1>11 DEF Counts

\* Steps that show no result and send no STOP.
LEMMA CountFrame ==
  ASSUME CountInv, UNCHANGED <<emitted, stops, results, early>>,
         broken \subseteq broken',
         \A j \in Tabs : zip[j] = "done" => zip'[j] = "done",
         \A j \in Tabs : Bound(j) => Bound(j)',
         \A j \in Tabs : emitted[j] # None =>
           /\ tab'[j] = "open" => tab[j] = "open"
           /\ jvms'[PidOf[j]] = j => jvms[PidOf[j]] = j,
         \A a \in Tabs : Due(a)' \in Nat /\ Due(a)' <= Due(a),
         \A j, a \in Tabs : tab[j] = "open" /\ emitted[j] = a => Due(a)' = Due(a)
  PROVE  Counts'
<1>0. RouteInv
  BY DEF CountInv
<1>1. \A j \in Tabs : emitted[j] # None => emitted[j] \in Tabs /\ Due(emitted[j]) \in Nat
  BY <1>0, CountTypes, DueType
<1>2. ASSUME NEW j \in Tabs, emitted[j] # None
      PROVE  /\ Due(emitted[j])' \in Nat /\ Due(emitted[j])' <= Due(emitted[j])
             /\ tab[j] = "open" => Due(emitted[j])' = Due(emitted[j])
  <2>1. PICK a \in Tabs : a = emitted[j]
    BY <1>1, <1>2
  <2>2. Due(emitted[j])' = Due(a)'
    BY <2>1
  <2>3. QED  BY <2>1, <2>2
<1>3. NoneDue'
  <2>1. ASSUME NEW a \in Tabs, ~Emitted(a)'
        PROVE  Due(a)' = 0
    <3>1. Due(a) = 0
      BY <2>1 DEF CountInv, Counts, NoneDue, Emitted
    <3>2. Due(a)' \in Nat /\ Due(a)' <= Due(a)
      OBVIOUS
    <3>3. QED  BY <3>1, <3>2
  <2>2. ASSUME NEW j \in Tabs, emitted[j] # None, ~early[j], zip'[j] # "done"
        PROVE  Due(emitted[j])' = 0
    <3>1. Due(emitted[j]) = 0
      BY <2>2 DEF CountInv, Counts, NoneDue
    <3>2. Due(emitted[j])' \in Nat /\ Due(emitted[j])' <= Due(emitted[j])
      BY <1>2, <2>2
    <3>3. QED  BY <3>1, <3>2
  <2>3. QED  BY <2>1, <2>2 DEF NoneDue
<1>4. StopsAreLater'
  BY DEF CountInv, Counts, StopsAreLater
<1>5. Counted'
  <2>1. ASSUME NEW j \in Tabs, emitted[j] # None
        PROVE  /\ Len(results[j]) + Due(emitted[j])' <= stops[j]
               /\ tab'[j] = "open" /\ ~early[j] /\ jvms'[PidOf[j]] = j /\ j \notin broken' =>
                    Len(results[j]) + Due(emitted[j])' = stops[j]
    <3>1. /\ Len(results[j]) + Due(emitted[j]) <= stops[j]
          /\ tab[j] = "open" /\ ~early[j] /\ jvms[PidOf[j]] = j /\ j \notin broken =>
               Len(results[j]) + Due(emitted[j]) = stops[j]
      BY <2>1 DEF CountInv, Counts, Counted
    <3>2. /\ Len(results[j]) \in Nat /\ stops[j] \in Nat /\ Due(emitted[j]) \in Nat
          /\ Due(emitted[j])' \in Nat /\ Due(emitted[j])' <= Due(emitted[j])
          /\ tab[j] = "open" => Due(emitted[j])' = Due(emitted[j])
      BY <1>0, <1>1, <1>2, <2>1, CountTypes, LenProperties
    <3>3. Len(results[j]) + Due(emitted[j])' <= stops[j]
      BY <3>1, <3>2
    <3>4. QED  BY <2>1, <3>1, <3>2, <3>3
  <2>2. QED  BY <2>1 DEF Counted
<1>6. QED  BY <1>3, <1>4, <1>5 DEF Counts

LEMMA CountSetChan ==
  ASSUME CountInv, NEW b \in Tabs, setChan(b)
  PROVE  Counts'
<1> DEFINE j == jvms[PidOf[b]]
<1>0. RouteInv
  BY DEF CountInv
<1>1. /\ UNCHANGED <<jvms, tab, broken, requests, responses, stops, results, early>>
      /\ edt # << >> /\ Head(edt) = Hello(b) /\ edt' = Tail(edt)
      /\ emitted' = [emitted EXCEPT ![j] = IF emitted[j] = None THEN b ELSE @]
      /\ \/ zip' = zip
         \/ zip[j] = "waiting" /\ zip' = [zip EXCEPT ![j] = IF tab[j] = "open" THEN "done" ELSE "rejected"]
  BY DEF setChan, SetChan, wire, agents, history, Hello
<1>2. \A a \in Tabs : Due(a)' = Due(a)
  BY <1>0, <1>1, DueDispatch, DueType, ReplyNames
<1>3. ASSUME NEW k \in Tabs
      PROVE  /\ emitted[k] # None => emitted'[k] = emitted[k]
             /\ emitted[k] = None => emitted'[k] \in {None, b}
             /\ zip'[k] # "done" => zip[k] # "done"
             /\ ~Bound(k)' => ~Bound(k)
  BY <1>0, <1>1, CountTypes DEF Bound
<1>4. ASSUME NEW k \in Tabs
      PROVE  Due(emitted'[k]) = Due(emitted[k]) \/ emitted[k] = None
  BY <1>3
<1>5. ASSUME NEW k \in Tabs, emitted'[k] # None
      PROVE  emitted'[k] \in Tabs /\ Due(emitted[k])' = Due(emitted'[k])
  <2>1. emitted'[k] \in Tabs
    BY <1>0, <1>3, <1>5, CountTypes
  <2>2. PICK a \in Tabs : a = emitted'[k]
    BY <2>1
  <2>3. Due(emitted[k])' = Due(a)'
    BY <2>2
  <2>4. QED  BY <1>2, <2>1, <2>2, <2>3
<1>6. Due(b) = 0
  BY <1>0, GivenOnce, CountTypes DEF CountInv, Counts, NoneDue
<1>7. NoneDue'
  <2>1. ASSUME NEW a \in Tabs, ~Emitted(a)'
        PROVE  Due(a)' = 0
    <3>1. ~Emitted(a)
      BY <1>0, <1>3, <2>1, CountTypes DEF Emitted
    <3>2. QED  BY <1>2, <3>1 DEF CountInv, Counts, NoneDue
  <2>2. ASSUME NEW k \in Tabs, emitted'[k] # None, ~early[k], zip'[k] # "done"
        PROVE  Due(emitted[k])' = 0
    BY <1>3, <1>5, <1>6, <2>2 DEF CountInv, Counts, NoneDue
  <2>3. QED  BY <1>1, <2>1, <2>2 DEF NoneDue
<1>8. StopsAreLater'
  BY <1>1, <1>3 DEF CountInv, Counts, StopsAreLater
<1>9. Counted'
  <2>1. ASSUME NEW k \in Tabs, emitted'[k] # None
        PROVE  /\ Len(results[k]) + Due(emitted[k])' <= stops[k]
               /\ tab[k] = "open" /\ ~early[k] /\ jvms[PidOf[k]] = k /\ k \notin broken =>
                    Len(results[k]) + Due(emitted[k])' = stops[k]
    <3>1. CASE emitted[k] # None
      BY <1>3, <1>5, <2>1, <3>1 DEF CountInv, Counts, Counted
    <3>2. CASE emitted[k] = None
      <4>1. ~Bound(k)
        BY <1>0, <3>2, CountTypes DEF Bound, HasChannel, WireInv, RegistryInv, Subjects
      <4>2. stops[k] = 0
        BY <4>1 DEF CountInv, Counts, StopsAreLater
      <4>3. results[k] = << >> /\ Len(results[k]) = 0
        BY <1>0, <3>2, EmptySeq DEF RouteInv, Routes, EmittedFirst
      <4>4. Due(emitted[k])' = 0
        BY <1>3, <1>5, <1>6, <2>1, <3>2
      <4>5. QED  BY <4>2, <4>3, <4>4
    <3>3. QED  BY <3>1, <3>2
  <2>2. QED  BY <1>1, <2>1 DEF Counted
<1>10. QED  BY <1>7, <1>8, <1>9 DEF Counts

\* A result that is dispatched is shown, unless the pid leads to another tab
\* or the view of the tab has failed.
LEMMA CountResult ==
  ASSUME CountInv, NEW b \in Tabs, result(b)
  PROVE  Counts'
<1>0. RouteInv
  BY DEF CountInv
<1>1. /\ UNCHANGED <<jvms, value, emitted, tab, zip, requests, responses, stops, early>>
      /\ edt # << >> /\ Head(edt) = Reply(b) /\ edt' = Tail(edt)
  BY DEF result, Rejected, Result, wire, agents, Reply
<1>2. /\ \A k \in Receivers(b) : k \in Tabs /\ emitted[k] = b
      /\ Introduced(b)
  BY <1>0, <1>1, ReceiversAreOwn
<1>3. \A a \in Tabs : Due(a)' \in Nat /\ Due(a) = IF a = b THEN Due(a)' + 1 ELSE Due(a)'
  BY <1>0, <1>1, DueDispatch, ReplyNames
<1>4. ASSUME NEW k \in Tabs, emitted[k] # None
      PROVE  /\ emitted[k] \in Tabs
             /\ Due(emitted[k])' \in Nat
             /\ Due(emitted[k]) = IF emitted[k] = b THEN Due(emitted[k])' + 1 ELSE Due(emitted[k])'
  <2>1. PICK a \in Tabs : a = emitted[k]
    BY <1>0, <1>4, CountTypes
  <2>2. Due(emitted[k])' = Due(a)'
    BY <1>1, <2>1
  <2>3. QED  BY <1>3, <2>1, <2>2
<1>5. NoneDue'
  <2>1. ASSUME NEW a \in Tabs, ~Emitted(a)'
        PROVE  Due(a)' = 0
    BY <1>1, <1>3, <2>1 DEF CountInv, Counts, NoneDue, Emitted
  <2>2. ASSUME NEW k \in Tabs, emitted[k] # None, ~early[k], zip[k] # "done"
        PROVE  Due(emitted[k])' = 0
    BY <1>4, <2>2 DEF CountInv, Counts, NoneDue
  <2>3. QED  BY <1>1, <2>1, <2>2 DEF NoneDue
<1>6. StopsAreLater'
  BY <1>1 DEF CountInv, Counts, StopsAreLater, Bound
<1>7. ASSUME NEW k \in Tabs
      PROVE  \/ UNCHANGED results[k]
             \/ emitted[k] = b /\ results'[k] = Append(results[k], b)
  BY <1>2 DEF result, Rejected, Viewers
<1>8. ASSUME NEW k \in Tabs, emitted[k] = b, tab[k] = "open", ~early[k], jvms[PidOf[k]] = k, k \notin broken'
      PROVE  results'[k] = Append(results[k], b) /\ k \notin broken
  <2>1. zip[k] = "done"
    <3>1. emitted[k] # None
      BY <1>0, <1>8, CountTypes
    <3>2. Due(emitted[k]) # 0
      BY <1>4, <1>8, <3>1
    <3>3. QED  BY <1>8, <3>1, <3>2 DEF CountInv, Counts, NoneDue
  <2>2. emitted[k] = value[k] /\ PidOf[b] = PidOf[k]
    <3>1. PidOf[b] = PidOf[k] /\ value[k] # None
      BY <1>0, <1>8, CountTypes DEF WireInv, RegistryInv, Subjects
    <3>2. value[jvms[PidOf[b]]] \in {None, b}
      BY <1>0, <1>2 DEF RouteInv, Routes, Routed
    <3>3. QED  BY <1>8, <3>1, <3>2
  <2>3. k \in Receivers(b)
    BY <1>8, <2>1, <2>2 DEF Receivers
  <2>4. k \notin broken
    BY <1>8 DEF result, Rejected
  <2>5. k \in Viewers(b)
    BY <1>8, <2>3, <2>4 DEF Viewers
  <2>6. ~Rejected(b)
    BY <1>8, <2>5 DEF Rejected
  <2>7. QED  BY <2>4, <2>5, <2>6 DEF result
<1>9. Counted'
  <2>1. ASSUME NEW k \in Tabs, emitted[k] # None
        PROVE  /\ Len(results'[k]) + Due(emitted[k])' <= stops[k]
               /\ tab[k] = "open" /\ ~early[k] /\ jvms[PidOf[k]] = k /\ k \notin broken' =>
                    Len(results'[k]) + Due(emitted[k])' = stops[k]
    <3>1. /\ Len(results[k]) + Due(emitted[k]) <= stops[k]
          /\ tab[k] = "open" /\ ~early[k] /\ jvms[PidOf[k]] = k /\ k \notin broken =>
               Len(results[k]) + Due(emitted[k]) = stops[k]
      BY <2>1 DEF CountInv, Counts, Counted
    <3>2. results[k] \in Seq(Tabs) /\ Len(results[k]) \in Nat /\ stops[k] \in Nat
      BY <1>0, CountTypes, LenProperties
    <3>3. Len(Append(results[k], b)) = Len(results[k]) + 1
      BY <3>2
    <3>4. CASE emitted[k] # b
      <4>1. UNCHANGED results[k] /\ Due(emitted[k])' = Due(emitted[k])
        BY <1>4, <1>7, <2>1, <3>4
      <4>2. k \notin broken' => k \notin broken
        BY DEF result, Rejected
      <4>3. QED  BY <3>1, <4>1, <4>2
    <3>5. CASE emitted[k] = b
      <4>1. Due(emitted[k])' \in Nat /\ Due(emitted[k]) = Due(emitted[k])' + 1
        BY <1>4, <2>1, <3>5
      <4>2. Len(results'[k]) \in {Len(results[k]), Len(results[k]) + 1}
        BY <1>7, <3>3
      <4>3. Len(results'[k]) + Due(emitted[k])' <= stops[k]
        BY <3>1, <3>2, <4>1, <4>2
      <4>4. ASSUME tab[k] = "open", ~early[k], jvms[PidOf[k]] = k, k \notin broken'
            PROVE  Len(results'[k]) + Due(emitted[k])' = stops[k]
        <5>1. results'[k] = Append(results[k], b) /\ k \notin broken
          BY <1>8, <3>5, <4>4
        <5>2. Len(results[k]) + Due(emitted[k]) = stops[k]
          BY <3>1, <4>4, <5>1
        <5>3. Len(results'[k]) = Len(results[k]) + 1
          BY <3>3, <5>1
        <5>4. QED  BY <3>2, <4>1, <5>2, <5>3
      <4>5. QED  BY <4>3, <4>4
    <3>6. QED  BY <3>4, <3>5
  <2>2. QED  BY <1>1, <2>1 DEF Counted
<1>10. QED  BY <1>5, <1>6, <1>9 DEF Counts

LEMMA CountStep ==
  ASSUME CountInv, [Next]_vars
  PROVE  CountInv'
<1>0. RouteInv /\ RouteInv'
  BY RouteStep DEF CountInv
<1>1. ASSUME NEW j \in Tabs, OpenTab(j) \/ CloseTab(j) \/ ConnectStep(j)
      PROVE  Counts'
  <2>1. UNCHANGED <<emitted, stops, results, early, broken, edt, requests, responses>>
    BY <1>1 DEF OpenTab, CloseTab, ConnectStep, AttachVM, SubscribeChannel, CheckLifetime, AddClose,
                Connected, initSession, wire, history
  <2>2. \A a \in Tabs : Due(a)' = Due(a) /\ Due(a) \in Nat
    BY <1>0, <2>1, DueNext, DueType DEF Due
  <2>3. \/ UNCHANGED zip
        \/ OpenTab(j) /\ zip' = [zip EXCEPT ![j] = "attaching"]
        \/ \E from \in {"attaching", "attached", "arrived", "adding", "connecting"}, to \in ZipSteps :
             Advance(j, from, to)
        \/ Advance(j, "binding", "listening") \/ Advance(j, "listening", "done")
    BY <1>1 DEF OpenTab, CloseTab, ConnectStep, AttachVM, SubscribeChannel, CheckLifetime, AddClose,
                Connected, initSession, ZipSteps, Advance
  <2>4. OpenTab(j) => zip[j] = "none"
    BY <1>0, CountTypes DEF OpenTab, WireInv, RegistryInv, SampledInv, TypeInv, Unopened
  <2>5. \A k \in Tabs : (zip[k] = "done" => zip'[k] = "done") /\ (Bound(k) => Bound(k)')
    BY <1>0, <2>3, <2>4, CountTypes DEF Bound, Advance
  <2>6. ASSUME NEW k \in Tabs, emitted[k] # None
        PROVE  /\ tab'[k] = "open" => tab[k] = "open"
               /\ jvms'[PidOf[k]] = k => jvms[PidOf[k]] = k
    <3>1. CASE OpenTab(j)
      <4>1. k # j
        BY <1>0, <2>6, <3>1, CountTypes DEF OpenTab, WireInv, RegistryInv, Subjects
      <4>2. QED  BY <1>0, <3>1, <4>1, CountTypes DEF OpenTab
    <3>2. CASE CloseTab(j) \/ ConnectStep(j)
      <4>1. UNCHANGED jvms /\ (UNCHANGED tab \/ tab' = [tab EXCEPT ![j] = "closed"])
        BY <3>2 DEF CloseTab, ConnectStep, AttachVM, SubscribeChannel, CheckLifetime, AddClose,
                    Connected, initSession
      <4>2. QED  BY <1>0, <4>1, CountTypes
    <3>3. QED  BY <1>1, <3>1, <3>2
  <2>7. QED  BY <2>1, <2>2, <2>5, <2>6, CountFrame
<1>2. ASSUME NEW b \in Tabs, channelRead0(b) \/ CloseChannel(b) \/ AgentStep(b)
      PROVE  Counts'
  <2>1. UNCHANGED <<jvms, emitted, tab, zip, broken, stops, results, early>>
    BY <1>2 DEF channelRead0, CloseChannel, AgentStep, LoadAgent, AgentStart, AgentStop, AgentLeaves,
                ReadRequest, ide, history
  <2>2. ASSUME NEW a \in Tabs
        PROVE  Due(a)' \in Nat /\ Due(a)' <= Due(a) /\ (channel[a] = "open" => Due(a)' = Due(a))
    <3>1. CASE channelRead0(b)
      BY <1>0, <3>1, DueChannelRead, DueType
    <3>2. CASE CloseChannel(b)
      <4>1. channel[b] = "closing"
        BY <3>2 DEF CloseChannel
      <4>2. QED  BY <1>0, <3>2, <4>1, DueCloseChannel
    <3>3. CASE AgentStep(b)
      BY <1>0, <3>3, DueAgentStep
    <3>4. QED  BY <1>2, <3>1, <3>2, <3>3
  <2>3. \A j, a \in Tabs : tab[j] = "open" /\ emitted[j] = a => channel[a] = "open"
    BY <1>0, OpenTabTalks, CountTypes
  <2>4. QED  BY <2>1, <2>2, <2>3, CountFrame DEF Bound
<1>3. CASE UNCHANGED vars
  <2>1. UNCHANGED <<jvms, emitted, tab, zip, broken, stops, results, early, edt, requests, responses>>
    BY <1>3 DEF vars, ide, wire, history
  <2>2. \A a \in Tabs : Due(a)' = Due(a) /\ Due(a) \in Nat
    BY <1>0, <2>1, DueNext, DueType DEF Due
  <2>3. Counts'
    BY <2>1, <2>2, CountFrame DEF Bound
  <2>4. QED  BY <1>0, <2>3 DEF CountInv
<1>4. ASSUME Next
      PROVE  Counts'
  BY <1>1, <1>2, <1>4, CountPress, CountSetChan, CountResult DEF Next, ServerStep, Dispatch
<1>5. QED  BY <1>0, <1>3, <1>4 DEF CountInv

\* Session.NoResultLost: every STOP of a tab is answered by at most one result
\* in that tab, and by exactly one if nothing replaced or broke the tab.
THEOREM EveryStopIsAnswered == Spec => []NoResultLost
<1>1. ASSUME CountInv
      PROVE  NoResultLost
  <2>0. RouteInv
    BY <1>1 DEF CountInv
  <2>1. ASSUME NEW j \in Tabs
        PROVE  Len(results[j]) \in Nat /\ stops[j] \in Nat
               /\ (emitted[j] # None => emitted[j] \in Tabs /\ Due(emitted[j]) \in Nat)
    BY <2>0, <2>1, CountTypes, LenProperties, DueType
  <2>2. ASSUME NEW j \in Tabs
        PROVE  Len(results[j]) <= stops[j]
    <3>1. CASE emitted[j] = None
      <4>1. Len(results[j]) = 0
        BY <2>0, <3>1, EmptySeq DEF RouteInv, Routes, EmittedFirst
      <4>2. QED  BY <2>1, <4>1
    <3>2. CASE emitted[j] # None
      BY <1>1, <2>1, <3>2 DEF CountInv, Counts, Counted
    <3>3. QED  BY <3>1, <3>2
  <2>3. ASSUME NEW j \in Tabs, tab[j] = "open", zip[j] = "done", ~early[j],
               jvms[PidOf[j]] = j, ~InFlight(emitted[j]), j \notin broken
        PROVE  Len(results[j]) = stops[j]
    <3>1. emitted[j] # None
      BY <2>0, <2>3, CountTypes DEF WireInv, RegistryInv, Subjects, HasChannel
    <3>2. PICK a \in Tabs : a = emitted[j]
      BY <2>1, <3>1
    <3>3. requests[a] = << >> /\ responses[a] = << >> /\ \A i \in DOMAIN edt : edt[i].from # a
      BY <2>3, <3>2 DEF InFlight
    <3>4. \A i \in DOMAIN edt : edt[i] # Reply(a)
      BY <3>3 DEF Reply
    <3>5. Due(a) = 0
      BY <2>0, <3>3, <3>4, CountTypes, CountType, CountEmpty DEF Due
    <3>6. QED  BY <1>1, <2>1, <2>3, <3>1, <3>2, <3>5 DEF CountInv, Counts, Counted
  <2>4. QED  BY <2>2, <2>3 DEF NoResultLost
<1>2. QED  BY <1>1, CountInit, CountStep, PTL DEF Spec
=============================================================================
