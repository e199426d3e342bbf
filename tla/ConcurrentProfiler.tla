-------------------------- MODULE ConcurrentProfiler --------------------------
(***************************************************************************)
(* The native agent with the interleavings of a multi-threaded process.    *)
(* SIGPROF is sent to the process and taken by any thread that is not      *)
(* already handling it, so handlers of different threads overlap, and one  *)
(* may still be running while the attach thread starts, stops, sorts and   *)
(* copies.  Nothing in the code excludes any of this: every load and store *)
(* of a shared field is a step of its own.  A memset, a qsort, and the     *)
(* copy of the frames of one trace are one step.                           *)
(*                                                                         *)
(* The agent is connected in the initial state; see Profiler.tla for the   *)
(* way there.                                                              *)
(***************************************************************************)
EXTENDS SampleTables

CONSTANTS
  Threads,       \* the threads of the process
  AttachThread,  \* the one that runs handleRequestLoop
  Produced,      \* the outcomes AsyncGetCallTrace produces in this process
  MaxSignals     \* bound: signals generated in a behaviour

ASSUME ThreadsAssumption ==
  /\ AttachThread \in Threads
  /\ Produced \subseteq Outcomes
  /\ MaxSignals \in Nat

VARIABLES
  sigaction,  \* disposition of SIGPROF: "default" ends the process
  itimer,     \* ITIMER_PROF is armed
  pending,    \* a SIGPROF is generated and not yet delivered
  alive,      \* the process has not been ended by a signal or a crash
  calls, hashes, traces, methods,  \* as in Profiler.tla
  pc,         \* pc[h]: where the handler on thread h is, or "idle"
  sample,     \* sample[h]: the outcome it records
  slot,       \* slot[h]: the variable i of the two probe loops
  reg,        \* reg[h]: a count read by ++ and not yet written back
  running,    \* _running
  ap,         \* where the attach thread is
  info,       \* the ProfilingInfo under construction
  taken,      \* history: handlers entered since START, by outcome
  entered,    \* history: handlers entered in the whole behaviour
  overlap     \* history: since START, a handler ran together with another
              \* handler, or with the attach thread at work on the tables

signal  == <<sigaction, itimer, pending>>
tables  == <<hashes, traces, methods>>
attach  == <<running, ap, info>>
history == <<taken, entered, overlap>>
locals  == <<sample, slot, reg>>
vars    == <<signal, alive, calls, tables, pc, locals, attach, history>>

NoInfo == [calls |-> NoCalls, methods |-> << >>, samples |-> << >>]

StartSteps == {"start_calls", "start_hashes", "start_traces", "start_methods",
               "start_sigaction", "start_itimer"}
StopSteps  == {"stop_sigaction", "stop_itimer", "save_calls", "sort_methods",
               "save_methods", "sort_traces", "save_traces", "save_ids", "send"}

StoreTraceSteps  == {"probe_hash", "probe_count", "probe_empty", "count_load",
                     "count_store", "claim", "assign_count", "assign_frames"}
StoreMethodSteps == {"method_probe", "method_empty", "method_load", "method_store",
                     "method_count", "method_id"}
CounterSteps     == {"total_load", "total_store", "kind_load", "kind_store"}

\* Every variable has its type.
TypeOK ==
  /\ sigaction \in {"default", "handler"}
  /\ itimer \in BOOLEAN
  /\ pending \in BOOLEAN
  /\ alive \in BOOLEAN
  /\ calls \in [Counters -> Nat]
  /\ hashes \in [Slots -> Nat]
  /\ traces \in [Slots -> TraceSlot]
  /\ methods \in [Slots -> MethodSlot]
  /\ pc \in [Threads -> {"idle"} \cup CounterSteps \cup StoreTraceSteps
                                 \cup StoreMethodSteps]
  /\ sample \in [Threads -> Outcomes \cup {NULL}]
  /\ slot \in [Threads -> Slots]
  /\ reg \in [Threads -> Nat]
  /\ running \in BOOLEAN
  /\ ap \in {"reading", "done"} \cup StartSteps \cup StopSteps
  /\ info.calls \in [Counters -> Nat]
  /\ info.methods \in Seq(MethodSlot)
  /\ info.samples \in Seq(TraceSlot)
  /\ taken \in [Outcomes -> Nat]
  /\ entered \in Nat
  /\ overlap \in BOOLEAN

Init ==
  /\ sigaction = "default"
  /\ itimer = FALSE
  /\ pending = FALSE
  /\ alive = TRUE
  /\ calls = NoCalls
  /\ hashes = NoHashes
  /\ traces = NoTraces
  /\ methods = NoMethods
  /\ pc = [h \in Threads |-> "idle"]
  /\ sample = [h \in Threads |-> NULL]
  /\ slot = [h \in Threads |-> 0]
  /\ reg = [h \in Threads |-> 0]
  /\ running = FALSE
  /\ ap = "reading"
  /\ info = NoInfo
  /\ taken = [o \in Outcomes |-> 0]
  /\ entered = 0
  /\ overlap = FALSE

Handling == { h \in Threads : pc[h] # "idle" }
-----------------------------------------------------------------------------
(***************************************************************************)
(* Signals.  A standard signal is pending at most once.                    *)
(***************************************************************************)
Expire ==
  /\ alive /\ itimer /\ ~pending
  /\ entered < MaxSignals
  /\ pending' = TRUE
  /\ UNCHANGED <<sigaction, itimer, alive, calls, tables, pc, locals, attach, history>>

\* The handler starts on a thread that does not have SIGPROF blocked by its
\* own handler; what it will sample is decided by where the thread was.
sigprofHandler(h, o) ==
  /\ alive /\ pending /\ sigaction = "handler"
  /\ pc[h] = "idle"
  /\ pending' = FALSE
  /\ pc' = [pc EXCEPT ![h] = "total_load"]
  /\ sample' = [sample EXCEPT ![h] = o]
  /\ taken' = [taken EXCEPT ![o] = @ + 1]
  /\ entered' = entered + 1
  /\ overlap' = (overlap \/ Handling # {})
  /\ UNCHANGED <<sigaction, itimer, alive, calls, tables, slot, reg, attach>>

\* The default action of SIGPROF ends the process.
Terminate ==
  /\ alive /\ pending /\ sigaction = "default"
  /\ alive' = FALSE
  /\ UNCHANGED <<signal, calls, tables, pc, locals, attach, history>>
-----------------------------------------------------------------------------
(***************************************************************************)
(* recordSample on thread h.                                               *)
(***************************************************************************)
Goto(h, from, to) ==
  /\ alive
  /\ pc[h] = from
  /\ pc' = [pc EXCEPT ![h] = to]
  /\ UNCHANGED <<signal, alive, attach, history>>

\* The end of the handler; its locals are gone.
Return(h, from) ==
  /\ Goto(h, from, "idle")
  /\ sample' = [sample EXCEPT ![h] = NULL]
  /\ slot' = [slot EXCEPT ![h] = 0]
  /\ reg' = [reg EXCEPT ![h] = 0]

Load(h, n) == reg' = [reg EXCEPT ![h] = n]

SetSlot(h, i) == slot' = [slot EXCEPT ![h] = i]

NextSlot(i) == IF i + 1 = MAX_CALLTRACES THEN 0 ELSE i + 1

LoadTotal(h) ==
  /\ Goto(h, "total_load", "total_store")
  /\ Load(h, calls["total"])
  /\ UNCHANGED <<calls, tables, sample, slot>>

StoreTotal(h) ==
  /\ calls' = [calls EXCEPT !["total"] = reg[h] + 1]
  /\ \/ /\ sample[h] \in Kinds
        /\ Goto(h, "total_store", "kind_load")
        /\ UNCHANGED slot
     \/ /\ sample[h] \in Traces
        /\ Goto(h, "total_store", "probe_hash")
        /\ SetSlot(h, Bucket(hashCallTrace(sample[h])))
  /\ UNCHANGED <<tables, sample, reg>>

LoadKind(h) ==
  /\ Goto(h, "kind_load", "kind_store")
  /\ Load(h, calls[sample[h]])
  /\ UNCHANGED <<calls, tables, sample, slot>>

StoreKind(h) ==
  /\ Return(h, "kind_store")
  /\ calls' = [calls EXCEPT ![sample[h]] = reg[h] + 1]
  /\ UNCHANGED tables

(***************************************************************************)
(* storeCallTrace.                                                         *)
(***************************************************************************)
ProbeHash(h) ==
  /\ Goto(h, "probe_hash",
          IF hashes[slot[h]] = hashCallTrace(sample[h]) THEN "probe_count"
                                                        ELSE "probe_empty")
  /\ UNCHANGED <<calls, tables, locals>>

ProbeCount(h) ==
  /\ Goto(h, "probe_count",
          IF traces[slot[h]].count > 0 THEN "count_load" ELSE "probe_empty")
  /\ UNCHANGED <<calls, tables, locals>>

\* Mutant: the probe does not end where it began.
ProbeEmptyForever(h) ==
  /\ \/ /\ hashes[slot[h]] = 0
        /\ Goto(h, "probe_empty", "claim")
        /\ UNCHANGED slot
     \/ /\ hashes[slot[h]] # 0
        /\ SetSlot(h, NextSlot(slot[h]))
        /\ Goto(h, "probe_empty", "probe_hash")
  /\ UNCHANGED <<calls, tables, sample, reg>>

\* An empty slot is taken, and so is the bucket when all slots were visited.
ProbeEmpty(h) ==
  /\ \/ /\ hashes[slot[h]] = 0
        /\ Goto(h, "probe_empty", "claim")
        /\ UNCHANGED slot
     \/ /\ hashes[slot[h]] # 0
        /\ SetSlot(h, NextSlot(slot[h]))
        /\ Goto(h, "probe_empty",
                IF NextSlot(slot[h]) = Bucket(hashCallTrace(sample[h]))
                  THEN "claim" ELSE "probe_hash")
  /\ UNCHANGED <<calls, tables, sample, reg>>

LoadCount(h) ==
  /\ Goto(h, "count_load", "count_store")
  /\ Load(h, traces[slot[h]].count)
  /\ UNCHANGED <<calls, tables, sample, slot>>

\* storeMethod begins with the bucket of the top frame's method.
EnterStoreMethod(h) == SetSlot(h, Bucket(hashMethod(TopMethod(sample[h]))))

StoreCount(h) ==
  /\ Goto(h, "count_store", "method_probe")
  /\ traces' = [traces EXCEPT ![slot[h]].count = reg[h] + 1]
  /\ EnterStoreMethod(h)
  /\ UNCHANGED <<calls, hashes, methods, sample, reg>>

Claim(h) ==
  /\ Goto(h, "claim", "assign_count")
  /\ hashes' = [hashes EXCEPT ![slot[h]] = hashCallTrace(sample[h])]
  /\ UNCHANGED <<calls, traces, methods, locals>>

\* Mutant: the first sample of a trace is not counted.
AssignNoCount(h) ==
  /\ Goto(h, "assign_count", "assign_frames")
  /\ traces' = [traces EXCEPT ![slot[h]].count = 0]
  /\ UNCHANGED <<calls, hashes, methods, locals>>

\* Mutant: the number of frames is stored as the count.
AssignNumFrames(h) ==
  /\ Goto(h, "assign_count", "assign_frames")
  /\ traces' = [traces EXCEPT ![slot[h]].count = Len(Frames[sample[h]])]
  /\ UNCHANGED <<calls, hashes, methods, locals>>

AssignCount(h) ==
  /\ Goto(h, "assign_count", "assign_frames")
  /\ traces' = [traces EXCEPT ![slot[h]].count = 1]
  /\ UNCHANGED <<calls, hashes, methods, locals>>

AssignFrames(h) ==
  /\ Goto(h, "assign_frames", "method_probe")
  /\ traces' = [traces EXCEPT ![slot[h]].trace = sample[h]]
  /\ EnterStoreMethod(h)
  /\ UNCHANGED <<calls, hashes, methods, sample, reg>>

(***************************************************************************)
(* storeMethod.                                                            *)
(***************************************************************************)
ProbeMethod(h) ==
  /\ Goto(h, "method_probe",
          IF methods[slot[h]].method = TopMethod(sample[h]) THEN "method_load"
                                                            ELSE "method_empty")
  /\ UNCHANGED <<calls, tables, locals>>

\* Mutant: the probe does not end where it began.
ProbeNoMethodForever(h) ==
  /\ \/ /\ methods[slot[h]].method = NULL
        /\ Goto(h, "method_empty", "method_count")
        /\ UNCHANGED slot
     \/ /\ methods[slot[h]].method # NULL
        /\ SetSlot(h, NextSlot(slot[h]))
        /\ Goto(h, "method_empty", "method_probe")
  /\ UNCHANGED <<calls, tables, sample, reg>>

ProbeNoMethod(h) ==
  /\ \/ /\ methods[slot[h]].method = NULL
        /\ Goto(h, "method_empty", "method_count")
        /\ UNCHANGED slot
     \/ /\ methods[slot[h]].method # NULL
        /\ SetSlot(h, NextSlot(slot[h]))
        /\ Goto(h, "method_empty",
                IF NextSlot(slot[h]) = Bucket(hashMethod(TopMethod(sample[h])))
                  THEN "method_count" ELSE "method_probe")
  /\ UNCHANGED <<calls, tables, sample, reg>>

LoadMethodCount(h) ==
  /\ Goto(h, "method_load", "method_store")
  /\ Load(h, methods[slot[h]].count)
  /\ UNCHANGED <<calls, tables, sample, slot>>

StoreMethodCount(h) ==
  /\ Return(h, "method_store")
  /\ methods' = [methods EXCEPT ![slot[h]].count = reg[h] + 1]
  /\ UNCHANGED <<calls, hashes, traces>>

AssignMethodCount(h) ==
  /\ Goto(h, "method_count", "method_id")
  /\ methods' = [methods EXCEPT ![slot[h]].count = 1]
  /\ UNCHANGED <<calls, hashes, traces, locals>>

\* Mutant: the method of a new slot is not stored.
AssignNoMethod(h) ==
  /\ Return(h, "method_id")
  /\ UNCHANGED <<calls, tables>>

AssignMethod(h) ==
  /\ Return(h, "method_id")
  /\ methods' = [methods EXCEPT ![slot[h]].method = TopMethod(sample[h])]
  /\ UNCHANGED <<calls, hashes, traces>>

storeCallTrace(h) ==
  \/ ProbeHash(h) \/ ProbeCount(h) \/ ProbeEmpty(h) \/ LoadCount(h)
  \/ StoreCount(h) \/ Claim(h) \/ AssignCount(h) \/ AssignFrames(h)

storeMethod(h) ==
  \/ ProbeMethod(h) \/ ProbeNoMethod(h) \/ LoadMethodCount(h)
  \/ StoreMethodCount(h) \/ AssignMethodCount(h) \/ AssignMethod(h)

recordSample(h) ==
  \/ LoadTotal(h) \/ StoreTotal(h) \/ LoadKind(h) \/ StoreKind(h)
  \/ storeCallTrace(h)
  \/ storeMethod(h)
-----------------------------------------------------------------------------
(***************************************************************************)
(* The attach thread, interrupted while it handles a signal itself.        *)
(***************************************************************************)
Attach(from, to) ==
  /\ alive
  /\ pc[AttachThread] = "idle"
  /\ ap = from
  /\ ap' = to
  /\ UNCHANGED <<pending, pc, locals, entered>>

\* A step that works on the tables.
AttachOnTables(from, to) ==
  /\ Attach(from, to)
  /\ overlap' = (overlap \/ Handling # {})
  /\ UNCHANGED <<sigaction, itimer, running, taken>>

(***************************************************************************)
(* setTimer.  sa_handler and sa_sigaction share their storage on Linux, so *)
(* the second assignment replaces SIG_IGN by NULL, which is SIG_DFL.       *)
(***************************************************************************)
setSigaction(enabled) == sigaction' = IF enabled THEN "handler" ELSE "default"

\* Mutant: the timer is set before the handler.
setTimerFirst(enabled, first, second, after) ==
  /\ \/ /\ Attach(first, second)
        /\ itimer' = enabled
        /\ UNCHANGED sigaction
     \/ /\ Attach(second, after)
        /\ setSigaction(enabled)
        /\ UNCHANGED itimer
  /\ UNCHANGED <<alive, calls, tables, running, info, taken, overlap>>

setTimer(enabled, first, second, after) ==
  /\ \/ /\ Attach(first, second)
        /\ setSigaction(enabled)
        /\ UNCHANGED itimer
     \/ /\ Attach(second, after)
        /\ itimer' = enabled
        /\ UNCHANGED sigaction
  /\ UNCHANGED <<alive, calls, tables, running, info, taken, overlap>>

StartProfiling ==
  /\ Attach("reading", IF running THEN "reading" ELSE "start_calls")
  /\ running' = TRUE
  /\ UNCHANGED <<sigaction, itimer, alive, calls, tables, info, taken, overlap>>

start ==
  \/ /\ Attach("start_calls", "start_hashes")
     /\ calls' = NoCalls
     /\ taken' = [o \in Outcomes |-> 0]
     /\ overlap' = (Handling # {})
     /\ UNCHANGED <<sigaction, itimer, running, alive, tables, info>>
  \/ /\ AttachOnTables("start_hashes", "start_traces")
     /\ hashes' = NoHashes
     /\ UNCHANGED <<alive, calls, traces, methods, info>>
  \/ /\ AttachOnTables("start_traces", "start_methods")
     /\ traces' = NoTraces
     /\ UNCHANGED <<alive, calls, hashes, methods, info>>
  \/ /\ AttachOnTables("start_methods", "start_sigaction")
     /\ methods' = NoMethods
     /\ UNCHANGED <<alive, calls, hashes, traces, info>>
  \/ setTimer(TRUE, "start_sigaction", "start_itimer", "reading")

StopProfiling ==
  /\ Attach("reading", IF running THEN "stop_sigaction" ELSE "save_calls")
  /\ running' = FALSE
  /\ UNCHANGED <<sigaction, itimer, alive, calls, tables, info, taken, overlap>>

stop == setTimer(FALSE, "stop_sigaction", "stop_itimer", "save_calls")

saveCalls ==
  /\ AttachOnTables("save_calls", "sort_methods")
  /\ info' = [info EXCEPT !.calls = calls]
  /\ UNCHANGED <<alive, calls, tables>>

saveMethods ==
  \/ /\ AttachOnTables("sort_methods", "save_methods")
     /\ methods' \in QSort(methods)
     /\ UNCHANGED <<alive, calls, hashes, traces, info>>
  \/ LET i == Len(info.methods)
     IN  \/ /\ i < MAX_CALLTRACES /\ methods[i].count # 0
            /\ AttachOnTables("save_methods", "save_methods")
            /\ info' = [info EXCEPT !.methods = Append(@, methods[i])]
            /\ UNCHANGED <<alive, calls, tables>>
         \/ /\ i < MAX_CALLTRACES => methods[i].count = 0
            /\ AttachOnTables("save_methods", "sort_traces")
            /\ UNCHANGED <<alive, calls, tables, info>>

saveCallTraces ==
  \/ /\ AttachOnTables("sort_traces", "save_traces")
     /\ traces' \in QSort(traces)
     /\ UNCHANGED <<alive, calls, hashes, methods, info>>
  \/ LET i == Len(info.samples)
     IN  \/ /\ i < MAX_CALLTRACES /\ traces[i].count # 0
            /\ AttachOnTables("save_traces", "save_traces")
            /\ info' = [info EXCEPT !.samples = Append(@, traces[i])]
            /\ UNCHANGED <<alive, calls, tables>>
         \/ /\ i < MAX_CALLTRACES => traces[i].count = 0
            /\ AttachOnTables("save_traces", "save_ids")
            /\ UNCHANGED <<alive, calls, tables, info>>

(***************************************************************************)
(* Looking up the name of a null method id is undefined: the process may   *)
(* crash or go on with an unspecified name.                                *)
(***************************************************************************)
MethodIdsOf(i) == MethodsOfMethods(i.methods) \cup MethodsOfTraces(i.samples)

saveMethodIds ==
  /\ AttachOnTables("save_ids", "send")
  /\ alive' \in IF NULL \in MethodIdsOf(info) THEN BOOLEAN ELSE {TRUE}
  /\ UNCHANGED <<calls, tables, info>>

\* An error is noticed, and then ends the loop, only when the message does not
\* fit one buffer.
sendResponse ==
  /\ \E to \in {"reading", "done"} : Attach("send", to)
  /\ info' = NoInfo
  /\ UNCHANGED <<sigaction, itimer, running, alive, calls, tables, taken, overlap>>

writeResult ==
  saveCalls \/ saveMethods \/ saveCallTraces \/ saveMethodIds \/ sendResponse

\* DETACH, an end of file and a parse error leave the timer as it is.
LeaveLoop ==
  /\ Attach("reading", "done")
  /\ UNCHANGED <<sigaction, itimer, running, alive, calls, tables, info, taken, overlap>>

Serve == start \/ stop \/ writeResult

Next ==
  \/ Expire
  \/ Terminate
  \/ \E h \in Threads :
       \/ \E o \in Produced : sigprofHandler(h, o)
       \/ recordSample(h)
  \/ StartProfiling
  \/ StopProfiling
  \/ LeaveLoop
  \/ Serve

Spec == Init /\ [][Next]_vars

(***************************************************************************)
(* The operating system runs every runnable thread; no request is owed.    *)
(***************************************************************************)
Fairness ==
  /\ \A h \in Threads : WF_vars(recordSample(h))
  /\ WF_vars(Serve)
  /\ WF_vars(Terminate)

FairSpec == Spec /\ Fairness
-----------------------------------------------------------------------------
(***************************************************************************)
(* Properties.                                                             *)
(***************************************************************************)

\* The timer is armed only under an installed handler, except between the two
\* system calls with which stop() turns both off (setTimer: sigaction first).
TimerNeedsHandler == itimer => sigaction = "handler" \/ ap = "stop_itimer"

\* Lost updates only lose: a counter, a slot of either table and a stale
\* register never exceed the number of handlers that were entered, however
\* handlers, sorts and resets interleave (the unsynchronised ++ of
\* recordSample, storeCallTrace and storeMethod).
NeverInvented ==
  /\ \A c \in Counters : calls[c] <= entered
  /\ \A i \in Slots : traces[i].count <= entered /\ methods[i].count <= entered

Plus(x, y) == x + y

TracesFit == Cardinality({ t \in Traces : taken[t] > 0 }) <= MAX_CALLTRACES

\* A result built while no two handlers overlapped, and none overlapped the
\* attach thread's work on the tables, is exact: each sampled trace is listed
\* once, with the number of its samples, and so is the total.
SerialResultExact ==
  ap = "send" /\ ~overlap =>
    /\ info.calls["total"] = FoldFunction(Plus, 0, taken)
    /\ \A k \in Kinds : info.calls[k] = taken[k]
    /\ HashNonZero /\ TracesFit =>
         \A t \in Traces :
           { info.samples[i].count : i \in { j \in DOMAIN info.samples :
                                              info.samples[j].trace = t } }
             = IF taken[t] > 0 THEN {taken[t]} ELSE {}

\* Only an overlap makes the agent look up a null method id, as long as every
\* sampled top frame has an id (saveMethods reads a slot whose count is
\* written and whose method is not).
CrashNeedsOverlap ==
  (\A t \in Traces : TopMethod(t) # NULL) /\ ap \in {"save_ids", "send"}
     /\ NULL \in MethodIdsOf(info) => overlap

\* A handler always returns: both probe loops end, also on a full table and
\* when other threads claim slots behind it (storeCallTrace, storeMethod).
HandlerReturns == \A h \in Threads : pc[h] # "idle" ~> pc[h] = "idle" \/ ~alive

\* A STOP request is served to the end unless the process ends.
StopServed == ap = "stop_sigaction" ~> ap \in {"reading", "done"} \/ ~alive

(***************************************************************************)
(* Properties that the interleavings break.                                *)
(***************************************************************************)

\* "Is truthful": no trace is reported more often than it was sampled.
Truthful ==
  ap = "send" =>
    \A i \in DOMAIN info.samples :
      info.samples[i].trace # NULL =>
        info.samples[i].count <= taken[info.samples[i].trace]

\* What the flame tree's validate() asserts of every sample it is given.
SamplesHaveFrames ==
  ap = "send" =>
    \A i \in DOMAIN info.samples : FrameMethods(info.samples[i].trace) # {}

\* Profiling ends with a result, not with the end of the profiled process.
SurvivesStop == alive
=============================================================================
