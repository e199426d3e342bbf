------------------------------- MODULE Profiler -------------------------------
(***************************************************************************)
(* One copy of the native agent (profiler.cpp), from Agent_OnAttach to the *)
(* end of its request loop, with the SIGPROF handler run to completion     *)
(* each time it is delivered.  This is the behaviour the tables were       *)
(* written for; ConcurrentProfiler.tla drops the "to completion".          *)
(*                                                                         *)
(* The IDE's requests are the environment: every request is possible       *)
(* whenever the loop is reading, and so are an end of file, a message that *)
(* does not parse and a response that cannot be written.                   *)
(***************************************************************************)
EXTENDS SampleTables

CONSTANT
  MaxCalls  \* bound: SIGPROFs taken between two resets of the counters

ASSUME MaxCallsAssumption == MaxCalls \in Nat

VARIABLES
  running,    \* _running
  calls,      \* _calls_total, _calls_non_java, _calls_gc, _calls_deopt, _calls_unknown
  hashes,     \* _hashes
  traces,     \* _traces
  methods,    \* _methods
  timer,      \* setTimer: the handler is installed and ITIMER_PROF is armed
  loop,       \* where the attach thread is
  response,   \* the last PROF_INFO written to the socket, if any: at most one
  recorded,   \* history: samples of each trace since the tables were cleared
  topped      \* history: samples of each top method since then

tables == <<calls, hashes, traces, methods>>
ghosts == <<recorded, topped>>
vars   == <<running, tables, timer, loop, response, ghosts>>

IsResponse(r) ==
  /\ r.calls \in [Counters -> Nat]
  /\ \E S \in SUBSET Slots : r.methods \in [S -> MethodSlot]
  /\ \E S \in SUBSET Slots : r.samples \in [S -> TraceSlot]
  /\ r.methodInfos \subseteq MethodIds

\* Every variable has its type.
TypeOK ==
  /\ running \in BOOLEAN
  /\ calls \in [Counters -> Nat]
  /\ hashes \in [Slots -> Nat]
  /\ traces \in [Slots -> TraceSlot]
  /\ methods \in [Slots -> MethodSlot]
  /\ timer \in BOOLEAN
  /\ loop \in {"unloaded", "reading", "done", "crashed"}
  /\ \A r \in response : IsResponse(r)
  /\ recorded \in [Traces -> Nat]
  /\ topped \in [MethodIds -> Nat]

Init ==
  /\ running = FALSE
  /\ calls = NoCalls
  /\ hashes = NoHashes
  /\ traces = NoTraces
  /\ methods = NoMethods
  /\ timer = FALSE
  /\ loop = "unloaded"
  /\ response = {}
  /\ recorded = [t \in Traces |-> 0]
  /\ topped = [m \in MethodIds |-> 0]
-----------------------------------------------------------------------------
(***************************************************************************)
(* Recording a sample.                                                     *)
(***************************************************************************)

\* Mutant: the comparison with the stored hash is missing.
EmptyStops(hash) == { i \in Slots : hashes[i] = 0 }

\* The slots that stop the probe for hash: those that hold it, and empty ones.
TraceStops(hash) ==
  { i \in Slots : (hashes[i] = hash /\ traces[i].count > 0) \/ hashes[i] = 0 }

storeCallTrace(t) ==
  LET hash == hashCallTrace(t)
  IN  \E s \in Slots :
        /\ ProbeEndsAt(Bucket(hash), s, TraceStops(hash))
        /\ IF hashes[s] = hash /\ traces[s].count > 0
             THEN /\ traces' = [traces EXCEPT ![s].count = @ + 1]
                  /\ UNCHANGED hashes
             ELSE /\ hashes' = [hashes EXCEPT ![s] = hash]
                  /\ traces' = [traces EXCEPT ![s] = [count |-> 1, trace |-> t]]

\* Methods are compared by id; an unused slot has a null id.
MethodStops(m) == { i \in Slots : methods[i].method = m \/ methods[i].method = NULL }

storeMethod(m) ==
  \E s \in Slots :
    /\ ProbeEndsAt(Bucket(hashMethod(m)), s, MethodStops(m))
    /\ methods' =
         IF methods[s].method = m
           THEN [methods EXCEPT ![s].count = @ + 1]
           ELSE [methods EXCEPT ![s] = [count |-> 1, method |-> m]]

(***************************************************************************)
(* The whole handler.  GetEnv and AsyncGetCallTrace decide the outcome.    *)
(***************************************************************************)
recordSample(o) ==
  /\ timer
  /\ loop # "crashed"
  /\ calls["total"] < MaxCalls
  /\ \/ /\ o \in Kinds
        /\ calls' = [calls EXCEPT !["total"] = @ + 1, ![o] = @ + 1]
        /\ UNCHANGED <<hashes, traces, methods, ghosts>>
     \/ /\ o \in Traces
        /\ calls' = [calls EXCEPT !["total"] = @ + 1]
        /\ storeCallTrace(o)
        /\ storeMethod(TopMethod(o))
        /\ recorded' = [recorded EXCEPT ![o] = @ + 1]
        /\ topped' = [topped EXCEPT ![TopMethod(o)] = @ + 1]
  /\ UNCHANGED <<running, timer, loop, response>>
-----------------------------------------------------------------------------
(***************************************************************************)
(* The attach thread.                                                      *)
(***************************************************************************)

(***************************************************************************)
(* Agent_OnAttach up to the INIT response.  It gives up when the socket,   *)
(* the connection, FindClass or the INIT response fails.                   *)
(***************************************************************************)
OnAttach ==
  /\ loop = "unloaded"
  /\ loop' \in {"reading", "done"}
  /\ UNCHANGED <<running, tables, timer, response, ghosts>>

\* sigaction and setitimer, which ConcurrentProfiler.tla takes apart.
setTimer(enabled) == timer' = enabled

start ==
  \/ /\ running
     /\ UNCHANGED <<running, tables, timer, ghosts>>
  \/ /\ ~running
     /\ running' = TRUE
     /\ calls' = NoCalls
     /\ hashes' = NoHashes
     /\ traces' = NoTraces
     /\ methods' = NoMethods
     /\ setTimer(TRUE)
     /\ recorded' = [t \in Traces |-> 0]
     /\ topped' = [m \in MethodIds |-> 0]

stop ==
  \/ /\ running
     /\ running' = FALSE
     /\ setTimer(FALSE)
  \/ /\ ~running
     /\ UNCHANGED <<running, timer>>

StartProfiling ==
  /\ loop = "reading"
  /\ start
  /\ UNCHANGED <<loop, response>>

(***************************************************************************)
(* The slots the save loops copy: they stop at the first zero count.       *)
(***************************************************************************)
Saved(table) == { i \in Slots : \A j \in 0 .. i : table[j].count # 0 }

saveMethods(table) == [i \in Saved(table) |-> table[i]]

saveCallTraces(table) == [i \in Saved(table) |-> table[i]]

(***************************************************************************)
(* writeResult.  Looking up the name of a null method id is undefined: the *)
(* three JVMTI calls fail and leave the pointers they should set as they   *)
(* were.  A write error is only noticed on the slow path of sendResponse.  *)
(***************************************************************************)
writeResult ==
  /\ methods' \in QSort(methods)
  /\ traces' \in QSort(traces)
  /\ LET savedMethods == saveMethods(methods')
         savedTraces == saveCallTraces(traces')
         ids == MethodsOfMethods(savedMethods) \cup MethodsOfTraces(savedTraces)
     IN  \/ /\ NULL \in ids
            /\ loop' = "crashed"
            /\ UNCHANGED response
         \/ /\ response' = { [ calls |-> calls, methods |-> savedMethods,
                               samples |-> savedTraces, methodInfos |-> ids ] }
            /\ UNCHANGED loop
         \/ /\ loop' \in {"reading", "done"}
            /\ UNCHANGED response
  /\ UNCHANGED <<calls, hashes>>

StopProfiling ==
  /\ loop = "reading"
  /\ stop
  /\ writeResult
  /\ UNCHANGED ghosts

(***************************************************************************)
(* DETACH, an end of file and a request that cannot be parsed all leave    *)
(* the loop, and none of them stops the timer.                             *)
(***************************************************************************)
LeaveLoop ==
  /\ loop = "reading"
  /\ loop' = "done"
  /\ UNCHANGED <<running, tables, timer, response, ghosts>>

Next ==
  \/ OnAttach
  \/ StartProfiling
  \/ StopProfiling
  \/ LeaveLoop
  \/ \E o \in Outcomes : recordSample(o)

Spec == Init /\ [][Next]_vars
-----------------------------------------------------------------------------
(***************************************************************************)
(* Properties.                                                             *)
(***************************************************************************)

Occupied(table) == { i \in Slots : table[i].count > 0 }

\* No count is larger than the number of samples it stands for, even after a
\* slot was taken over because the table was full, because a trace hashes to
\* the empty mark, or by a method after a null id (storeCallTrace, storeMethod).
NeverOverCounted ==
  /\ \A i \in Occupied(traces) :
       /\ traces[i].trace \in Traces
       /\ traces[i].count <= recorded[traces[i].trace]
  /\ \A i \in Occupied(methods) : methods[i].count <= topped[methods[i].method]

TracesFit  == Cardinality({ t \in Traces : recorded[t] > 0 }) <= MAX_CALLTRACES
MethodsFit == Cardinality({ m \in MethodIds : topped[m] > 0 }) <= MAX_CALLTRACES

\* A trace, or a method, has at most one slot, although it may have been
\* evicted and stored again: the flame graph never sees it twice.
OneSlotEach ==
  /\ HashNonZero =>
       \A i, j \in Occupied(traces) : traces[i].trace = traces[j].trace => i = j
  /\ topped[NULL] = 0 =>
       \A i, j \in Occupied(methods) : methods[i].method = methods[j].method => i = j

\* As long as the distinct traces (top methods) of a session fit the table,
\* each one is there with its exact count, before and after the sort.
ExactWhenFits ==
  /\ HashNonZero /\ TracesFit =>
       \A t \in Traces : recorded[t] > 0 =>
         \E i \in Slots : traces[i] = [count |-> recorded[t], trace |-> t]
  /\ MethodsFit =>
       \A m \in Methods : topped[m] > 0 =>
         \E i \in Slots : methods[i] = [count |-> topped[m], method |-> m]

\* Every method id that a response refers to comes with its MethodInfo, so
\* the IDE never falls back to the "reset all" label for a real frame.
ResponseClosed ==
  \A r \in response :
    /\ \A i \in DOMAIN r.methods : r.methods[i].method \in r.methodInfos
    /\ \A i \in DOMAIN r.samples : FrameMethods(r.samples[i].trace) \subseteq r.methodInfos

\* Writing a result looks up a null method id only if some sample of this
\* session had a null id in its top frame: null ids further down are skipped.
CrashNeedsNullTop == loop = "crashed" => topped[NULL] > 0

(***************************************************************************)
(* The agent keeps the contract.  Sampling is on while the handler is      *)
(* installed, which includes the time after the loop was left.             *)
(***************************************************************************)
SampleCounts(samples, t) ==
  { samples[i].count : i \in { j \in DOMAIN samples : samples[j].trace = t } }

Reported(r) ==
  [ total  |-> r.calls["total"],
    kinds  |-> [k \in Kinds |-> r.calls[k]],
    counts |-> [t \in Traces |-> SampleCounts(r.samples, t)] ]

TableHolds(S) == HashNonZero /\ Cardinality(S) <= MAX_CALLTRACES

Contract ==
  INSTANCE ProfilerContract WITH
    Fits     <- TableHolds,
    sampling <- timer,
    ticks    <- calls["total"],
    taken    <- [o \in Outcomes |-> IF o \in Traces THEN recorded[o] ELSE calls[o]],
    report   <- { Reported(r) : r \in response }

\* Every behaviour of the agent is one the contract allows: what STOP returns
\* is exact while the traces fit, and never more than was sampled since the
\* START that cleared the tables.
KeepsContract == Contract!Spec
=============================================================================
