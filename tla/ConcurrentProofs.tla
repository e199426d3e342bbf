--------------------------- MODULE ConcurrentProofs ---------------------------
(***************************************************************************)
(* Proofs about ConcurrentProfiler.tla for every set of threads, every     *)
(* number of slots and of signals, every set of traces and methods and     *)
(* every hash function.                                                    *)
(***************************************************************************)
EXTENDS ConcurrentProfiler, SampleTablesProofs, FoldProofs

-----------------------------------------------------------------------------
(***************************************************************************)
(* The tables and the values the handler puts into them.                   *)
(***************************************************************************)
\* The probe loops start and stay within the table.
LEMMA SlotType ==
  /\ 0 \in Slots
  /\ \A n \in Nat : Bucket(n) \in Slots
  /\ \A i \in Slots : NextSlot(i) \in Slots
BY TablesAssumption DEF Slots, Bucket, NextSlot

LEMMA HashType ==
  ASSUME NEW t \in Traces
  PROVE  /\ hashCallTrace(t) \in Nat
         /\ Bucket(hashCallTrace(t)) \in Slots
         /\ Bucket(hashMethod(TopMethod(t))) \in Slots
<1>1. hashCallTrace(t) \in Nat
  BY TablesAssumption DEF hashCallTrace
<1>2. hashMethod(TopMethod(t)) \in Nat
  BY TopMethodType, TablesAssumption DEF hashMethod, MethodIds
<1>3. QED  BY <1>1, <1>2, SlotType

LEMMA ZeroedTypes ==
  /\ NoCalls \in [Counters -> Nat]
  /\ NoHashes \in [Slots -> Nat]
  /\ NoTraces \in [Slots -> TraceSlot]
  /\ NoMethods \in [Slots -> MethodSlot]
<1>1. NoCalls \in [Counters -> Nat] /\ NoHashes \in [Slots -> Nat]
  BY DEF NoCalls, NoHashes
<1>2. NoTraces \in [Slots -> TraceSlot]
  BY DEF NoTraces, EmptyTrace, TraceSlot
<1>3. NoMethods \in [Slots -> MethodSlot]
  BY DEF NoMethods, EmptyMethod, MethodSlot, MethodIds
<1>4. QED  BY <1>1, <1>2, <1>3
-----------------------------------------------------------------------------
(***************************************************************************)
(* Type correctness.  A handler only dereferences what it sampled: it is   *)
(* at a counter's step with a kind of sample that has a counter, and in    *)
(* the tables with a trace.                                                *)
(***************************************************************************)
KindSteps == {"kind_load", "kind_store"}

SampleFits ==
  \A h \in Threads :
    /\ pc[h] # "idle" => sample[h] \in Outcomes
    /\ pc[h] \in KindSteps => sample[h] \in Kinds
    /\ pc[h] \in StoreTraceSteps \cup StoreMethodSteps => sample[h] \in Traces

InfoType == [calls : [Counters -> Nat], methods : Seq(MethodSlot), samples : Seq(TraceSlot)]

TypeInv == TypeOK /\ SampleFits /\ info \in InfoType

LEMMA InitTypeInv == Init => TypeInv
<1> SUFFICES ASSUME Init PROVE TypeInv
  OBVIOUS
<1>1. info \in InfoType
  BY ZeroedTypes DEF Init, NoInfo, InfoType
<1>2. SampleFits
  BY DEF Init, SampleFits, KindSteps, StoreTraceSteps, StoreMethodSteps
<1>3. TypeOK
  BY <1>1, ZeroedTypes, SlotType DEF Init, TypeOK, InfoType
<1>4. QED  BY <1>1, <1>2, <1>3 DEF TypeInv

HandlerPcs == {"idle"} \cup CounterSteps \cup StoreTraceSteps \cup StoreMethodSteps

\* A step of a handler keeps the types when it moves to a place that fits its
\* sample and stores values of the right type.
LEMMA GotoType ==
  ASSUME TypeInv, NEW h \in Threads, NEW from, NEW to \in HandlerPcs,
         Goto(h, from, to),
         \/ UNCHANGED sample
         \/ to = "idle" /\ sample' = [sample EXCEPT ![h] = NULL],
         to # "idle" => sample[h] \in Outcomes,
         to \in KindSteps => sample[h] \in Kinds,
         to \in StoreTraceSteps \cup StoreMethodSteps => sample[h] \in Traces,
         calls' \in [Counters -> Nat], hashes' \in [Slots -> Nat],
         traces' \in [Slots -> TraceSlot], methods' \in [Slots -> MethodSlot],
         slot' \in [Threads -> Slots], reg' \in [Threads -> Nat]
  PROVE  TypeInv'
<1>1. /\ pc' = [pc EXCEPT ![h] = to]
      /\ UNCHANGED <<sigaction, itimer, pending, alive, running, ap, info, taken, entered, overlap>>
  BY DEF Goto, signal, attach, history
<1>2. pc' \in [Threads -> HandlerPcs] /\ sample' \in [Threads -> Outcomes \cup {NULL}]
  BY <1>1 DEF TypeInv, TypeOK, HandlerPcs
<1>3. ASSUME NEW g \in Threads
      PROVE  /\ pc'[g] # "idle" => sample'[g] \in Outcomes
             /\ pc'[g] \in KindSteps => sample'[g] \in Kinds
             /\ pc'[g] \in StoreTraceSteps \cup StoreMethodSteps => sample'[g] \in Traces
  <2>1. CASE g = h
    BY <1>1, <2>1 DEF TypeInv, TypeOK, KindSteps, StoreTraceSteps, StoreMethodSteps
  <2>2. CASE g # h
    BY <1>1, <2>2 DEF TypeInv, TypeOK, SampleFits
  <2>3. QED  BY <2>1, <2>2
<1>4. SampleFits'
  BY <1>3 DEF SampleFits
<1>5. QED  BY <1>1, <1>2, <1>4 DEF TypeInv, TypeOK, HandlerPcs

\* One step of recordSample.
LEMMA HandlerType ==
  ASSUME TypeInv, NEW h \in Threads, recordSample(h)
  PROVE  TypeInv'
<1> USE DEF KindSteps, HandlerPcs, CounterSteps, StoreTraceSteps, StoreMethodSteps
<1>a. /\ calls \in [Counters -> Nat] /\ hashes \in [Slots -> Nat]
      /\ traces \in [Slots -> TraceSlot] /\ methods \in [Slots -> MethodSlot]
      /\ sample \in [Threads -> Outcomes \cup {NULL}]
      /\ slot \in [Threads -> Slots] /\ reg \in [Threads -> Nat]
      /\ pc \in [Threads -> HandlerPcs]
  BY DEF TypeInv, TypeOK
<1>b. /\ pc[h] # "idle" => sample[h] \in Outcomes
      /\ pc[h] \in KindSteps => sample[h] \in Kinds
      /\ pc[h] \in StoreTraceSteps \cup StoreMethodSteps => sample[h] \in Traces
  BY DEF TypeInv, SampleFits
<1>c. Kinds \subseteq Counters /\ "total" \in Counters /\ Kinds \subseteq Outcomes
      /\ Traces \subseteq Outcomes
  BY DEF Counters, Outcomes
<1>1. CASE LoadTotal(h)
  BY <1>1, <1>a, <1>b, <1>c, GotoType DEF LoadTotal, Load, Goto, tables
<1>2. CASE StoreTotal(h)
  <2>1. calls' \in [Counters -> Nat]
    BY <1>2, <1>a, <1>c DEF StoreTotal
  <2>2. CASE sample[h] \in Kinds /\ Goto(h, "total_store", "kind_load") /\ UNCHANGED slot
    BY <1>2, <1>a, <1>c, <2>1, <2>2, GotoType DEF StoreTotal, tables
  <2>3. CASE /\ sample[h] \in Traces /\ Goto(h, "total_store", "probe_hash")
             /\ SetSlot(h, Bucket(hashCallTrace(sample[h])))
    <3>1. slot' \in [Threads -> Slots]
      BY <1>a, <2>3, HashType DEF SetSlot
    <3>2. QED  BY <1>2, <1>a, <1>c, <2>1, <2>3, <3>1, GotoType DEF StoreTotal, tables
  <2>4. QED  BY <1>2, <2>2, <2>3 DEF StoreTotal
<1>3. CASE LoadKind(h)
  BY <1>3, <1>a, <1>b, <1>c, GotoType DEF LoadKind, Load, Goto, tables
<1>4. CASE StoreKind(h)
  <2>1. /\ calls' \in [Counters -> Nat]
        /\ slot' \in [Threads -> Slots] /\ reg' \in [Threads -> Nat]
    BY <1>4, <1>a, <1>b, <1>c, SlotType DEF StoreKind, Return, Goto
  <2>2. QED  BY <1>4, <1>a, <2>1, GotoType DEF StoreKind, Return, tables
<1>5. CASE ProbeHash(h) \/ ProbeCount(h) \/ ProbeMethod(h)
  BY <1>5, <1>a, <1>b, <1>c, GotoType DEF ProbeHash, ProbeCount, ProbeMethod, Goto, tables, locals
<1>6. CASE ProbeEmpty(h) \/ ProbeNoMethod(h)
  <2>1. slot' \in [Threads -> Slots]
    BY <1>6, <1>a, SlotType DEF ProbeEmpty, ProbeNoMethod, SetSlot
  <2>2. QED  BY <1>6, <1>a, <1>b, <1>c, <2>1, GotoType DEF ProbeEmpty, ProbeNoMethod, Goto, tables
<1>7. CASE LoadCount(h) \/ LoadMethodCount(h)
  <2>1. reg' \in [Threads -> Nat]
    BY <1>7, <1>a DEF LoadCount, LoadMethodCount, Load, TraceSlot, MethodSlot
  <2>2. QED  BY <1>7, <1>a, <1>b, <1>c, <2>1, GotoType DEF LoadCount, LoadMethodCount, Goto, tables
<1>8. CASE StoreCount(h)
  <2>0. slot[h] \in Slots /\ reg[h] + 1 \in Nat
    BY <1>a
  <2>1. traces' \in [Slots -> TraceSlot]
    BY <1>8, <1>a, <2>0 DEF StoreCount, TraceSlot
  <2>2. sample[h] \in Traces
    BY <1>8, <1>b DEF StoreCount, Goto
  <2>3. slot' \in [Threads -> Slots]
    BY <1>8, <1>a, <2>2, HashType DEF StoreCount, EnterStoreMethod, SetSlot
  <2>4. QED  BY <1>8, <1>a, <1>c, <2>1, <2>2, <2>3, GotoType DEF StoreCount
<1>9. CASE Claim(h)
  <2>1. sample[h] \in Traces
    BY <1>9, <1>b DEF Claim, Goto
  <2>2. hashes' \in [Slots -> Nat]
    BY <1>9, <1>a, <2>1, HashType DEF Claim
  <2>3. QED  BY <1>9, <1>a, <1>c, <2>1, <2>2, GotoType DEF Claim, locals
<1>10. CASE AssignCount(h)
  <2>1. traces' \in [Slots -> TraceSlot]
    BY <1>10, <1>a DEF AssignCount, TraceSlot
  <2>2. QED  BY <1>10, <1>a, <1>b, <1>c, <2>1, GotoType DEF AssignCount, Goto, locals
<1>11. CASE AssignFrames(h)
  <2>1. sample[h] \in Traces
    BY <1>11, <1>b DEF AssignFrames, Goto
  <2>2. traces' \in [Slots -> TraceSlot]
    BY <1>11, <1>a, <2>1 DEF AssignFrames, TraceSlot
  <2>3. slot' \in [Threads -> Slots]
    BY <1>11, <1>a, <2>1, HashType DEF AssignFrames, EnterStoreMethod, SetSlot
  <2>4. QED  BY <1>11, <1>a, <1>c, <2>1, <2>2, <2>3, GotoType DEF AssignFrames
<1>12. CASE StoreMethodCount(h) \/ AssignMethod(h)
  <2>1. sample[h] \in Traces
    BY <1>12, <1>b DEF StoreMethodCount, AssignMethod, Return, Goto
  <2>2. methods' \in [Slots -> MethodSlot]
    BY <1>12, <1>a, <2>1, TopMethodType DEF StoreMethodCount, AssignMethod, MethodSlot
  <2>3. slot' \in [Threads -> Slots] /\ reg' \in [Threads -> Nat]
    BY <1>12, <1>a, SlotType DEF StoreMethodCount, AssignMethod, Return
  <2>4. QED  BY <1>12, <1>a, <2>2, <2>3, GotoType DEF StoreMethodCount, AssignMethod, Return
<1>13. CASE AssignMethodCount(h)
  <2>1. methods' \in [Slots -> MethodSlot]
    BY <1>13, <1>a DEF AssignMethodCount, MethodSlot
  <2>2. QED  BY <1>13, <1>a, <1>b, <1>c, <2>1, GotoType DEF AssignMethodCount, Goto, locals
<1>14. QED
  BY <1>1, <1>2, <1>3, <1>4, <1>5, <1>6, <1>7, <1>8, <1>9, <1>10, <1>11, <1>12, <1>13
     DEF recordSample, storeCallTrace, storeMethod

LEMMA SignalType ==
  ASSUME TypeInv, Expire \/ Terminate \/ \E h \in Threads, o \in Produced : sigprofHandler(h, o)
  PROVE  TypeInv'
<1>1. CASE Expire
  BY <1>1 DEF Expire, TypeInv, TypeOK, SampleFits, tables, locals, attach, history
<1>2. CASE Terminate
  BY <1>2 DEF Terminate, TypeInv, TypeOK, SampleFits, signal, tables, locals, attach, history
<1>3. CASE \E h \in Threads, o \in Produced : sigprofHandler(h, o)
  <2>1. PICK h \in Threads, o \in Produced : sigprofHandler(h, o)
    BY <1>3
  <2>2. /\ pc' = [pc EXCEPT ![h] = "total_load"]
        /\ sample' = [sample EXCEPT ![h] = o]
        /\ taken' = [taken EXCEPT ![o] = @ + 1]
        /\ entered' = entered + 1
        /\ pending' = FALSE
        /\ overlap' \in BOOLEAN
        /\ UNCHANGED <<sigaction, itimer, alive, calls, hashes, traces, methods,
                       slot, reg, running, ap, info>>
    BY <2>1 DEF sigprofHandler, tables, attach
  <2>3. o \in Outcomes
    BY ThreadsAssumption
  <2>4. /\ pc' \in [Threads -> HandlerPcs] /\ sample' \in [Threads -> Outcomes \cup {NULL}]
        /\ taken' \in [Outcomes -> Nat] /\ entered' \in Nat
    BY <2>2, <2>3 DEF TypeInv, TypeOK, HandlerPcs, CounterSteps
  <2>5. SampleFits'
    BY <2>2, <2>3 DEF TypeInv, TypeOK, SampleFits, KindSteps, StoreTraceSteps, StoreMethodSteps
  <2>6. QED  BY <2>2, <2>4, <2>5 DEF TypeInv, TypeOK, HandlerPcs
<1>4. QED  BY <1>1, <1>2, <1>3

\* One step of the attach thread.
LEMMA AttachType ==
  ASSUME TypeInv, StartProfiling \/ StopProfiling \/ LeaveLoop \/ Serve
  PROVE  TypeInv'
<1> DEFINE Attaches == {"reading", "done"} \cup StartSteps \cup StopSteps
<1>a. /\ \A from, to : Attach(from, to) => ap' = to /\ UNCHANGED <<pending, pc, sample, slot, reg, entered>>
      /\ \A from, to : AttachOnTables(from, to) =>
           /\ ap' = to /\ overlap' \in BOOLEAN
           /\ UNCHANGED <<pending, pc, sample, slot, reg, entered, sigaction, itimer, running, taken>>
  BY DEF Attach, AttachOnTables, locals
<1>b. ASSUME ap' \in Attaches, sigaction' \in {"default", "handler"},
             itimer' \in BOOLEAN, alive' \in BOOLEAN, running' \in BOOLEAN, overlap' \in BOOLEAN,
             calls' \in [Counters -> Nat], hashes' \in [Slots -> Nat],
             traces' \in [Slots -> TraceSlot], methods' \in [Slots -> MethodSlot],
             info' \in InfoType, taken' \in [Outcomes -> Nat],
             UNCHANGED <<pending, pc, sample, slot, reg, entered>>
      PROVE  TypeInv'
  BY <1>b DEF TypeInv, TypeOK, SampleFits, InfoType
<1>c. /\ ap \in Attaches /\ sigaction \in {"default", "handler"}
      /\ itimer \in BOOLEAN /\ alive \in BOOLEAN /\ running \in BOOLEAN /\ overlap \in BOOLEAN
      /\ calls \in [Counters -> Nat] /\ hashes \in [Slots -> Nat]
      /\ traces \in [Slots -> TraceSlot] /\ methods \in [Slots -> MethodSlot]
      /\ info \in InfoType /\ taken \in [Outcomes -> Nat]
  BY DEF TypeInv, TypeOK
<1>d. StartSteps \cup StopSteps \cup {"reading", "done"} = Attaches
  OBVIOUS
<1> HIDE DEF Attaches
<1>1. CASE StartProfiling
  <2>1. ap' \in Attaches
    BY <1>1, <1>a, <1>d DEF StartProfiling, StartSteps
  <2>2. QED  BY <1>1, <2>1, <1>a, <1>b, <1>c, Zenon DEF StartProfiling, tables
<1>2. CASE StopProfiling
  <2>1. ap' \in Attaches
    BY <1>2, <1>a, <1>d DEF StopProfiling, StopSteps
  <2>2. QED  BY <1>2, <2>1, <1>a, <1>b, <1>c, Zenon DEF StopProfiling, tables
<1>3. CASE LeaveLoop
  <2>1. ap' \in Attaches
    BY <1>3, <1>a, <1>d DEF LeaveLoop
  <2>2. QED  BY <1>3, <2>1, <1>a, <1>b, <1>c DEF LeaveLoop, tables
<1>4. ASSUME NEW enabled \in BOOLEAN, NEW first, NEW second \in Attaches, NEW after \in Attaches,
             setTimer(enabled, first, second, after)
      PROVE  TypeInv'
  <2>1. /\ ap' \in Attaches /\ sigaction' \in {"default", "handler"} /\ itimer' \in BOOLEAN
        /\ UNCHANGED <<pending, pc, sample, slot, reg, entered>>
    BY <1>4, <1>a, <1>c DEF setTimer, setSigaction
  <2>2. QED  BY <1>4, <2>1, <1>b, <1>c DEF setTimer, tables
<1>5. CASE start
  <2>1. CASE setTimer(TRUE, "start_sigaction", "start_itimer", "reading")
    BY <1>4, <1>d, <2>1 DEF StartSteps
  <2>2. CASE ~setTimer(TRUE, "start_sigaction", "start_itimer", "reading")
    <3>1. /\ ap' \in Attaches /\ overlap' \in BOOLEAN /\ taken' \in [Outcomes -> Nat]
          /\ UNCHANGED <<pending, pc, sample, slot, reg, entered>>
      <4>1. CASE /\ Attach("start_calls", "start_hashes")
                 /\ taken' = [o \in Outcomes |-> 0]
                 /\ overlap' = (Handling # {})
        BY <4>1, <1>a, <1>d DEF StartSteps
      <4>2. CASE \/ AttachOnTables("start_hashes", "start_traces")
                 \/ AttachOnTables("start_traces", "start_methods")
                 \/ AttachOnTables("start_methods", "start_sigaction")
        BY <4>2, <1>a, <1>c, <1>d DEF StartSteps
      <4>3. QED  BY <1>5, <2>2, <4>1, <4>2 DEF start
    <3>2. /\ calls' \in [Counters -> Nat] /\ hashes' \in [Slots -> Nat]
          /\ traces' \in [Slots -> TraceSlot] /\ methods' \in [Slots -> MethodSlot]
      BY <1>5, <2>2, <1>c, ZeroedTypes DEF start, tables
    <3>3. UNCHANGED <<sigaction, itimer, running, alive, info>>
      BY <1>5, <2>2, <1>a DEF start
    <3>4. QED  BY <3>1, <3>2, <3>3, <1>b, <1>c
  <2>3. QED  BY <2>1, <2>2
<1>6. CASE stop
  BY <1>4, <1>6, <1>d DEF stop, StopSteps
<1>7. CASE saveCalls
  <2>1. info' \in InfoType
    BY <1>7, <1>c DEF saveCalls, InfoType
  <2>2. ap' \in Attaches
    BY <1>7, <1>a, <1>d DEF saveCalls, StopSteps
  <2>3. QED  BY <1>7, <2>1, <2>2, <1>a, <1>b, <1>c DEF saveCalls, tables
<1>8. CASE saveMethods
  <2>1. info' \in InfoType /\ ap' \in Attaches /\ methods' \in [Slots -> MethodSlot]
        /\ UNCHANGED <<alive, calls, hashes, traces>>
    <3>1. CASE /\ AttachOnTables("sort_methods", "save_methods")
               /\ methods' \in QSort(methods)
               /\ UNCHANGED <<alive, calls, hashes, traces, info>>
      <4>1. methods' \in [Slots -> MethodSlot]
        BY <3>1, <1>c, QSortSlots
      <4>2. QED  BY <3>1, <4>1, <1>a, <1>c, <1>d DEF StopSteps
    <3>2. CASE /\ Len(info.methods) < MAX_CALLTRACES
               /\ AttachOnTables("save_methods", "save_methods")
               /\ info' = [info EXCEPT !.methods = Append(@, methods[Len(info.methods)])]
               /\ UNCHANGED <<alive, calls, tables>>
      <4>1. Len(info.methods) \in Slots
        BY <3>2, <1>c, TablesAssumption DEF InfoType, Slots
      <4>2. Append(info.methods, methods[Len(info.methods)]) \in Seq(MethodSlot)
        BY <4>1, <1>c DEF InfoType
      <4>3. info' \in InfoType
        BY <3>2, <4>2, <1>c DEF InfoType
      <4>4. QED  BY <3>2, <4>3, <1>a, <1>c, <1>d DEF StopSteps, tables
    <3>3. CASE /\ AttachOnTables("save_methods", "sort_traces")
               /\ UNCHANGED <<alive, calls, tables, info>>
      BY <3>3, <1>a, <1>c, <1>d DEF StopSteps, tables
    <3>4. QED  BY <1>8, <3>1, <3>2, <3>3 DEF saveMethods
  <2>2. \E from, to : AttachOnTables(from, to)
    BY <1>8 DEF saveMethods
  <2>3. QED  BY <2>1, <2>2, <1>a, <1>b, <1>c
<1>9. CASE saveCallTraces
  <2>1. info' \in InfoType /\ ap' \in Attaches /\ traces' \in [Slots -> TraceSlot]
        /\ UNCHANGED <<alive, calls, hashes, methods>>
    <3>1. CASE /\ AttachOnTables("sort_traces", "save_traces")
               /\ traces' \in QSort(traces)
               /\ UNCHANGED <<alive, calls, hashes, methods, info>>
      <4>1. traces' \in [Slots -> TraceSlot]
        BY <3>1, <1>c, QSortSlots
      <4>2. QED  BY <3>1, <4>1, <1>a, <1>c, <1>d DEF StopSteps
    <3>2. CASE /\ Len(info.samples) < MAX_CALLTRACES
               /\ AttachOnTables("save_traces", "save_traces")
               /\ info' = [info EXCEPT !.samples = Append(@, traces[Len(info.samples)])]
               /\ UNCHANGED <<alive, calls, tables>>
      <4>1. Len(info.samples) \in Slots
        BY <3>2, <1>c, TablesAssumption DEF InfoType, Slots
      <4>2. Append(info.samples, traces[Len(info.samples)]) \in Seq(TraceSlot)
        BY <4>1, <1>c DEF InfoType
      <4>3. info' \in InfoType
        BY <3>2, <4>2, <1>c DEF InfoType
      <4>4. QED  BY <3>2, <4>3, <1>a, <1>c, <1>d DEF StopSteps, tables
    <3>3. CASE /\ AttachOnTables("save_traces", "save_ids")
               /\ UNCHANGED <<alive, calls, tables, info>>
      BY <3>3, <1>a, <1>c, <1>d DEF StopSteps, tables
    <3>4. QED  BY <1>9, <3>1, <3>2, <3>3 DEF saveCallTraces
  <2>2. \E from, to : AttachOnTables(from, to)
    BY <1>9 DEF saveCallTraces
  <2>3. QED  BY <2>1, <2>2, <1>a, <1>b, <1>c
<1>10. CASE saveMethodIds
  <2>1. alive' \in BOOLEAN
    BY <1>10 DEF saveMethodIds
  <2>2. ap' \in Attaches
    BY <1>10, <1>a, <1>d DEF saveMethodIds, StopSteps
  <2>3. QED  BY <1>10, <2>1, <2>2, <1>a, <1>b, <1>c DEF saveMethodIds, tables
<1>11. CASE sendResponse
  <2>1. NoInfo \in InfoType
    BY ZeroedTypes DEF NoInfo, InfoType
  <2>2. ap' \in Attaches
    BY <1>11, <1>a, <1>d DEF sendResponse
  <2>3. QED  BY <1>11, <2>1, <2>2, <1>a, <1>b, <1>c DEF sendResponse, tables
<1>12. QED
  BY <1>1, <1>2, <1>3, <1>5, <1>6, <1>7, <1>8, <1>9, <1>10, <1>11 DEF Serve, writeResult

LEMMA NextTypeInv == TypeInv /\ [Next]_vars => TypeInv'
<1> SUFFICES ASSUME TypeInv, [Next]_vars PROVE TypeInv'
  OBVIOUS
<1>1. CASE \E h \in Threads : recordSample(h)
  BY <1>1, HandlerType
<1>2. CASE Expire \/ Terminate \/ \E h \in Threads, o \in Produced : sigprofHandler(h, o)
  BY <1>2, SignalType
<1>3. CASE StartProfiling \/ StopProfiling \/ LeaveLoop \/ Serve
  BY <1>3, AttachType
<1>4. CASE UNCHANGED vars
  BY <1>4 DEF vars, signal, tables, attach, history, locals, TypeInv, TypeOK, SampleFits
<1>5. QED  BY <1>1, <1>2, <1>3, <1>4 DEF Next

\* Every reachable state of the agent is well typed, whatever handlers and
\* requests interleave.
THEOREM TypeCorrect == Spec => []TypeOK
<1>1. TypeInv => TypeOK
  BY DEF TypeInv
<1>2. QED  BY <1>1, InitTypeInv, NextTypeInv, PTL DEF Spec

LEMMA TypeInvariant == Spec => []TypeInv
BY InitTypeInv, NextTypeInv, PTL DEF Spec
-----------------------------------------------------------------------------
(***************************************************************************)
(* The timer and its handler.  On the way up the handler is installed      *)
(* before the timer is armed.                                              *)
(***************************************************************************)
TimerInv == TimerNeedsHandler /\ (ap = "start_itimer" => sigaction = "handler")

\* The attach thread's way through writeResult.
LEMMA WriteResultSteps ==
  ASSUME writeResult
  PROVE  \/ sendResponse
         \/ \E from, to \in StopSteps \ {"stop_sigaction", "stop_itimer"} : AttachOnTables(from, to)
<1>1. CASE saveCalls \/ saveMethodIds
  BY <1>1 DEF saveCalls, saveMethodIds, StopSteps
<1>2. CASE saveMethods
  <2>1. \/ AttachOnTables("sort_methods", "save_methods")
        \/ AttachOnTables("save_methods", "save_methods")
        \/ AttachOnTables("save_methods", "sort_traces")
    BY <1>2, Zenon DEF saveMethods
  <2>2. QED  BY <2>1 DEF StopSteps
<1>3. CASE saveCallTraces
  <2>1. \/ AttachOnTables("sort_traces", "save_traces")
        \/ AttachOnTables("save_traces", "save_traces")
        \/ AttachOnTables("save_traces", "save_ids")
    BY <1>3, Zenon DEF saveCallTraces
  <2>2. QED  BY <2>1 DEF StopSteps
<1>4. QED  BY <1>1, <1>2, <1>3 DEF writeResult

LEMMA NextTimerInv == TypeInv /\ TimerInv /\ [Next]_vars => TimerInv'
<1> SUFFICES ASSUME TypeInv, TimerInv, [Next]_vars PROVE TimerInv'
  OBVIOUS
<1> USE DEF TimerInv, TimerNeedsHandler
<1>1. CASE UNCHANGED <<itimer, sigaction, ap>>
  BY <1>1
<1>2. CASE Expire \/ Terminate \/ \E h \in Threads, o \in Produced : sigprofHandler(h, o)
  BY <1>1, <1>2 DEF Expire, Terminate, sigprofHandler, signal, attach
<1>3. CASE \E h \in Threads : recordSample(h)
  <2>1. UNCHANGED <<signal, attach>>
    BY <1>3 DEF Goto, recordSample, storeCallTrace, storeMethod, LoadTotal, StoreTotal, LoadKind,
                StoreKind, ProbeHash, ProbeCount, ProbeEmpty, LoadCount, StoreCount, Claim,
                AssignCount, AssignFrames, ProbeMethod, ProbeNoMethod, LoadMethodCount,
                StoreMethodCount, AssignMethodCount, AssignMethod, Return
  <2>2. QED  BY <1>1, <2>1 DEF signal, attach
<1>4. CASE StartProfiling \/ StopProfiling \/ LeaveLoop
  BY <1>4 DEF StartProfiling, StopProfiling, LeaveLoop, Attach
<1>5. CASE start
  BY <1>5 DEF start, setTimer, setSigaction, Attach, AttachOnTables
<1>6. CASE stop
  BY <1>6 DEF stop, setTimer, setSigaction, Attach
<1>7. CASE writeResult
  <2>1. UNCHANGED <<itimer, sigaction>>
    BY <1>7, Zenon DEF writeResult, saveCalls, saveMethods, saveCallTraces, saveMethodIds,
                       sendResponse, AttachOnTables
  <2>2. \/ \E from, to \in StopSteps \ {"stop_sigaction", "stop_itimer"} : AttachOnTables(from, to)
        \/ sendResponse
    BY <1>7, WriteResultSteps
  <2>3. QED  BY <2>1, <2>2 DEF Attach, AttachOnTables, sendResponse, StopSteps
<1>8. CASE UNCHANGED vars
  BY <1>1, <1>8 DEF vars, signal, attach
<1>9. QED  BY <1>2, <1>3, <1>4, <1>5, <1>6, <1>7, <1>8 DEF Next, Serve

\* The timer never runs without a handler, except between the two system
\* calls with which stop() turns both off.
THEOREM TimerHasHandler == Spec => []TimerNeedsHandler
<1>1. Init => TimerInv
  BY DEF Init, TimerInv, TimerNeedsHandler
<1>2. TimerInv => TimerNeedsHandler
  BY DEF TimerInv
<1>3. QED  BY <1>1, <1>2, NextTimerInv, TypeInvariant, PTL DEF Spec
-----------------------------------------------------------------------------
(***************************************************************************)
(* Lost updates only lose.  A handler stores each kind of count at most    *)
(* once.  Handled(S) is the number of handlers that were entered and are   *)
(* not at one of the steps S.  With S the steps up to and including the    *)
(* store of a count, no count of that kind exceeds Handled(S), and neither *)
(* does a register of a handler about to store one: Handled(S) never falls *)
(* and grows by one when the handler stores.                               *)
(***************************************************************************)
BeforeTotal  == {"total_load", "total_store"}
BeforeKind   == BeforeTotal \cup KindSteps
BeforeTrace  == BeforeTotal \cup (StoreTraceSteps \ {"assign_frames"})
BeforeMethod == BeforeTotal \cup StoreTraceSteps \cup (StoreMethodSteps \ {"method_id"})

Waiting(S) == { h \in Threads : pc[h] \in S }

Handled(S) == entered - Cardinality(Waiting(S))

CountInv ==
  /\ IsFiniteSet(Handling)
  /\ calls["total"] <= Handled(BeforeTotal)
  /\ \A k \in Kinds : calls[k] <= Handled(BeforeKind)
  /\ \A i \in Slots : traces[i].count <= Handled(BeforeTrace)
  /\ \A i \in Slots : methods[i].count <= Handled(BeforeMethod)
  /\ \A h \in Threads :
       /\ pc[h] = "total_store" => reg[h] <= Handled(BeforeTotal)
       /\ pc[h] = "kind_store" => reg[h] <= Handled(BeforeKind)
       /\ pc[h] = "count_store" => reg[h] <= Handled(BeforeTrace)
       /\ pc[h] = "method_store" => reg[h] <= Handled(BeforeMethod)

Stages == {BeforeTotal, BeforeKind, BeforeTrace, BeforeMethod}

LEMMA WaitingFinite ==
  ASSUME IsFiniteSet(Handling), NEW S, "idle" \notin S
  PROVE  IsFiniteSet(Waiting(S)) /\ Cardinality(Waiting(S)) \in Nat
<1>1. Waiting(S) \subseteq Handling
  BY DEF Waiting, Handling
<1>2. QED  BY <1>1, FS_Subset, FS_CardinalityType

\* A step of one handler leaves at most one handler of a stage.
LEMMA WaitingStep ==
  ASSUME TypeInv, IsFiniteSet(Handling), NEW h \in Threads, NEW from, NEW to,
         Goto(h, from, to), from # "idle", NEW S, "idle" \notin S, to \in S => from \in S
  PROVE  /\ IsFiniteSet(Handling') /\ Handled(S) \in Int /\ Handled(S)' \in Int
         /\ Handled(S)' >= Handled(S)
         /\ from \in S /\ to \notin S => Handled(S)' = Handled(S) + 1
<1>1. pc[h] = from /\ pc' = [pc EXCEPT ![h] = to] /\ entered' = entered
  BY DEF Goto, history
<1>2. entered \in Int /\ pc'[h] = to /\ \A g \in Threads \ {h} : pc'[g] = pc[g]
  BY <1>1 DEF TypeInv, TypeOK
<1>3. Handling' \subseteq Handling
  BY <1>1, <1>2 DEF Handling
<1>4. IsFiniteSet(Handling')
  BY <1>3, FS_Subset
<1>5. IsFiniteSet(Waiting(S)) /\ Cardinality(Waiting(S)) \in Nat
  BY WaitingFinite
<1>6. CASE from \in S /\ to \notin S
  <2>1. (Waiting(S))' = Waiting(S) \ {h} /\ h \in Waiting(S)
    BY <1>1, <1>2, <1>6 DEF Waiting
  <2>2. Cardinality((Waiting(S))') = Cardinality(Waiting(S)) - 1
    BY <1>5, <2>1, FS_RemoveElement
  <2>3. QED  BY <1>1, <1>2, <1>4, <1>5, <2>2 DEF Handled
<1>7. CASE ~(from \in S /\ to \notin S)
  <2>1. (Waiting(S))' = Waiting(S)
    BY <1>1, <1>2, <1>7 DEF Waiting
  <2>2. QED  BY <1>1, <1>2, <1>4, <1>5, <1>7, <2>1 DEF Handled
<1>8. QED  BY <1>6, <1>7

\* Where one step of recordSample leads.
HandlerSteps ==
  ({"total_load"} \X {"total_store"}) \cup ({"total_store"} \X {"kind_load", "probe_hash"})
    \cup ({"kind_load"} \X {"kind_store"}) \cup ({"kind_store"} \X {"idle"})
    \cup ({"probe_hash"} \X {"probe_count", "probe_empty"})
    \cup ({"probe_count"} \X {"count_load", "probe_empty"})
    \cup ({"probe_empty"} \X {"claim", "probe_hash"})
    \cup ({"count_load"} \X {"count_store"}) \cup ({"count_store"} \X {"method_probe"})
    \cup ({"claim"} \X {"assign_count"}) \cup ({"assign_count"} \X {"assign_frames"})
    \cup ({"assign_frames"} \X {"method_probe"})
    \cup ({"method_probe"} \X {"method_load", "method_empty"})
    \cup ({"method_empty"} \X {"method_count", "method_probe"})
    \cup ({"method_load"} \X {"method_store"}) \cup ({"method_store"} \X {"idle"})
    \cup ({"method_count"} \X {"method_id"}) \cup ({"method_id"} \X {"idle"})

LEMMA HandlerGoes ==
  ASSUME NEW h \in Threads, recordSample(h)
  PROVE  \E from, to \in HandlerPcs :
           /\ <<from, to>> \in HandlerSteps /\ Goto(h, from, to)
           /\ from = "total_load" => LoadTotal(h)
           /\ from = "kind_load" => LoadKind(h)
           /\ from = "count_load" => LoadCount(h)
           /\ from = "method_load" => LoadMethodCount(h)
           /\ from = "method_probe" => ProbeMethod(h)
<1>1. \E from, to :
        /\ <<from, to>> \in HandlerSteps /\ Goto(h, from, to)
        /\ from = "total_load" => LoadTotal(h)
        /\ from = "kind_load" => LoadKind(h)
        /\ from = "count_load" => LoadCount(h)
        /\ from = "method_load" => LoadMethodCount(h)
        /\ from = "method_probe" => ProbeMethod(h)
  <2>1. CASE LoadTotal(h)
    BY <2>1 DEF LoadTotal, HandlerSteps
  <2>2. CASE StoreTotal(h)
    BY <2>2 DEF StoreTotal, HandlerSteps
  <2>3. CASE LoadKind(h)
    BY <2>3 DEF LoadKind, HandlerSteps
  <2>4. CASE StoreKind(h)
    BY <2>4 DEF StoreKind, Return, HandlerSteps
  <2>5. CASE ProbeHash(h)
    BY <2>5 DEF ProbeHash, HandlerSteps
  <2>6. CASE ProbeCount(h)
    BY <2>6 DEF ProbeCount, HandlerSteps
  <2>7. CASE ProbeEmpty(h)
    BY <2>7 DEF ProbeEmpty, HandlerSteps
  <2>8. CASE LoadCount(h)
    BY <2>8 DEF LoadCount, HandlerSteps
  <2>9. CASE StoreCount(h)
    BY <2>9 DEF StoreCount, HandlerSteps
  <2>10. CASE Claim(h)
    BY <2>10 DEF Claim, HandlerSteps
  <2>11. CASE AssignCount(h)
    BY <2>11 DEF AssignCount, HandlerSteps
  <2>12. CASE AssignFrames(h)
    BY <2>12 DEF AssignFrames, HandlerSteps
  <2>13. CASE ProbeMethod(h)
    BY <2>13 DEF ProbeMethod, HandlerSteps
  <2>14. CASE ProbeNoMethod(h)
    BY <2>14 DEF ProbeNoMethod, HandlerSteps
  <2>15. CASE LoadMethodCount(h)
    BY <2>15 DEF LoadMethodCount, HandlerSteps
  <2>16. CASE StoreMethodCount(h)
    BY <2>16 DEF StoreMethodCount, Return, HandlerSteps
  <2>17. CASE AssignMethodCount(h)
    BY <2>17 DEF AssignMethodCount, HandlerSteps
  <2>18. CASE AssignMethod(h)
    BY <2>18 DEF AssignMethod, Return, HandlerSteps
  <2>19. QED
    BY <2>1, <2>2, <2>3, <2>4, <2>5, <2>6, <2>7, <2>8, <2>9, <2>10, <2>11, <2>12, <2>13,
       <2>14, <2>15, <2>16, <2>17, <2>18 DEF recordSample, storeCallTrace, storeMethod
<1>2. \A from, to : <<from, to>> \in HandlerSteps => from \in HandlerPcs /\ to \in HandlerPcs
  BY DEF HandlerSteps, HandlerPcs, CounterSteps, StoreTraceSteps, StoreMethodSteps
<1>3. QED  BY <1>1, <1>2

\* A handler goes through the stages in one direction.
LEMMA StagesOneWay ==
  ASSUME NEW from, NEW to, <<from, to>> \in HandlerSteps, NEW S \in Stages
  PROVE  from # "idle" /\ "idle" \notin S /\ (to \in S => from \in S)
BY DEF HandlerSteps, Stages, BeforeTotal, BeforeKind, BeforeTrace, BeforeMethod,
       KindSteps, StoreTraceSteps, StoreMethodSteps

LEMMA HandlerCounts ==
  ASSUME TypeInv, CountInv, NEW h \in Threads, recordSample(h)
  PROVE  CountInv'
<1>1. PICK from, to \in HandlerPcs :
        /\ <<from, to>> \in HandlerSteps /\ Goto(h, from, to)
        /\ from = "total_load" => LoadTotal(h)
        /\ from = "kind_load" => LoadKind(h)
        /\ from = "count_load" => LoadCount(h)
        /\ from = "method_load" => LoadMethodCount(h)
  BY HandlerGoes
<1>2. \A S \in Stages :
        /\ IsFiniteSet(Handling') /\ Handled(S) \in Int /\ Handled(S)' \in Int
        /\ Handled(S)' >= Handled(S)
        /\ from \in S /\ to \notin S => Handled(S)' = Handled(S) + 1
  <2>1. SUFFICES ASSUME NEW S \in Stages
                 PROVE  /\ IsFiniteSet(Handling') /\ Handled(S) \in Int /\ Handled(S)' \in Int
                        /\ Handled(S)' >= Handled(S)
                        /\ from \in S /\ to \notin S => Handled(S)' = Handled(S) + 1
    OBVIOUS
  <2>2. from # "idle" /\ "idle" \notin S /\ (to \in S => from \in S)
    BY <1>1, StagesOneWay
  <2>3. IsFiniteSet(Handling)
    BY DEF CountInv
  <2>4. QED  BY <1>1, <2>2, <2>3, WaitingStep
<1> DEFINE T == Handled(BeforeTotal)
           K == Handled(BeforeKind)
           R == Handled(BeforeTrace)
           M == Handled(BeforeMethod)
<1>3. /\ T \in Int /\ K \in Int /\ R \in Int /\ M \in Int
      /\ T' \in Int /\ K' \in Int /\ R' \in Int /\ M' \in Int
      /\ T' >= T /\ K' >= K /\ R' >= R /\ M' >= M
      /\ from = "total_store" => T' = T + 1
      /\ from = "kind_store" => K' = K + 1
      /\ from \in {"count_store", "assign_count"} => R' = R + 1
      /\ from \in {"method_store", "method_count"} => M' = M + 1
  <2>1. {BeforeTotal, BeforeKind, BeforeTrace, BeforeMethod} = Stages
    BY DEF Stages
  <2>2. /\ from = "total_store" => from \in BeforeTotal /\ to \notin BeforeTotal
        /\ from = "kind_store" => from \in BeforeKind /\ to \notin BeforeKind
        /\ from \in {"count_store", "assign_count"} => from \in BeforeTrace /\ to \notin BeforeTrace
        /\ from \in {"method_store", "method_count"} => from \in BeforeMethod /\ to \notin BeforeMethod
    BY <1>1 DEF HandlerSteps, BeforeTotal, BeforeKind, BeforeTrace, BeforeMethod,
                KindSteps, StoreTraceSteps, StoreMethodSteps
  <2>3. QED  BY <1>2, <2>1, <2>2
<1> HIDE DEF T, K, R, M
<1>4. /\ pc[h] = from /\ pc'[h] = to /\ \A g \in Threads \ {h} : pc'[g] = pc[g]
  BY <1>1 DEF Goto, TypeInv, TypeOK
<1>5. /\ calls["total"] <= T
      /\ \A k \in Kinds : calls[k] <= K
      /\ \A i \in Slots : traces[i].count <= R
      /\ \A i \in Slots : methods[i].count <= M
      /\ \A g \in Threads :
           /\ pc[g] = "total_store" => reg[g] <= T
           /\ pc[g] = "kind_store" => reg[g] <= K
           /\ pc[g] = "count_store" => reg[g] <= R
           /\ pc[g] = "method_store" => reg[g] <= M
  BY DEF CountInv, T, K, R, M
<1>6. /\ calls \in [Counters -> Nat] /\ traces \in [Slots -> TraceSlot]
      /\ methods \in [Slots -> MethodSlot] /\ reg \in [Threads -> Nat]
      /\ slot \in [Threads -> Slots]
  BY DEF TypeInv, TypeOK
<1>7. /\ \A i \in Slots : traces[i].count \in Nat /\ methods[i].count \in Nat
      /\ \A k \in Kinds : k # "total" /\ k \in Counters /\ calls[k] \in Nat
      /\ "total" \in Counters /\ calls["total"] \in Nat
  BY <1>6 DEF TraceSlot, MethodSlot, Kinds, Counters
<1>8. calls'["total"] <= T' /\ \A k \in Kinds : calls'[k] <= K'
  <2>1. CASE UNCHANGED calls
    BY <2>1, <1>3, <1>5, <1>6, <1>7
  <2>2. CASE StoreTotal(h)
    <3>1. calls' = [calls EXCEPT !["total"] = reg[h] + 1] /\ pc[h] = "total_store"
      BY <2>2 DEF StoreTotal, Goto
    <3>2. QED  BY <3>1, <1>3, <1>4, <1>5, <1>6, <1>7
  <2>3. CASE StoreKind(h)
    <3>1. calls' = [calls EXCEPT ![sample[h]] = reg[h] + 1] /\ pc[h] = "kind_store"
      BY <2>3 DEF StoreKind, Return, Goto
    <3>2. sample[h] \in Kinds
      BY <3>1 DEF TypeInv, SampleFits, KindSteps
    <3>3. QED  BY <3>1, <3>2, <1>3, <1>4, <1>5, <1>6, <1>7
  <2>4. QED
    BY <2>1, <2>2, <2>3 DEF recordSample, storeCallTrace, storeMethod, LoadTotal, LoadKind,
       ProbeHash, ProbeCount, ProbeEmpty, LoadCount, StoreCount, Claim, AssignCount,
       AssignFrames, ProbeMethod, ProbeNoMethod, LoadMethodCount, StoreMethodCount,
       AssignMethodCount, AssignMethod
<1>9. \A i \in Slots : traces'[i].count <= R'
  <2>1. CASE UNCHANGED traces
    BY <2>1, <1>3, <1>5, <1>7
  <2>2. CASE StoreCount(h)
    <3>1. traces' = [traces EXCEPT ![slot[h]].count = reg[h] + 1] /\ pc[h] = "count_store"
      BY <2>2 DEF StoreCount, Goto
    <3>2. traces'[slot[h]].count = reg[h] + 1 /\ \A i \in Slots \ {slot[h]} : traces'[i] = traces[i]
      BY <3>1, <1>6 DEF TraceSlot
    <3>3. QED  BY <3>1, <3>2, <1>3, <1>4, <1>5, <1>6, <1>7
  <2>3. CASE AssignCount(h)
    <3>1. traces' = [traces EXCEPT ![slot[h]].count = 1] /\ pc[h] = "assign_count"
      BY <2>3 DEF AssignCount, Goto
    <3>2. traces'[slot[h]].count = 1 /\ \A i \in Slots \ {slot[h]} : traces'[i] = traces[i]
      BY <3>1, <1>6 DEF TraceSlot
    <3>3. QED  BY <3>1, <3>2, <1>3, <1>4, <1>5, <1>6, <1>7
  <2>4. CASE AssignFrames(h)
    <3>1. traces' = [traces EXCEPT ![slot[h]].trace = sample[h]]
      BY <2>4 DEF AssignFrames
    <3>2. \A i \in Slots : traces'[i].count = traces[i].count
      BY <3>1, <1>6 DEF TraceSlot
    <3>3. QED  BY <3>2, <1>3, <1>5, <1>7
  <2>5. QED
    BY <2>1, <2>2, <2>3, <2>4 DEF recordSample, storeCallTrace, storeMethod, LoadTotal,
       StoreTotal, LoadKind, StoreKind, tables, ProbeHash, ProbeCount, ProbeEmpty, LoadCount, Claim,
       ProbeMethod, ProbeNoMethod, LoadMethodCount, StoreMethodCount, AssignMethodCount, AssignMethod
<1>10. \A i \in Slots : methods'[i].count <= M'
  <2>1. CASE UNCHANGED methods
    BY <2>1, <1>3, <1>5, <1>7
  <2>2. CASE StoreMethodCount(h)
    <3>1. methods' = [methods EXCEPT ![slot[h]].count = reg[h] + 1] /\ pc[h] = "method_store"
      BY <2>2 DEF StoreMethodCount, Return, Goto
    <3>2. methods'[slot[h]].count = reg[h] + 1 /\ \A i \in Slots \ {slot[h]} : methods'[i] = methods[i]
      BY <3>1, <1>6 DEF MethodSlot
    <3>3. QED  BY <3>1, <3>2, <1>3, <1>4, <1>5, <1>6, <1>7
  <2>3. CASE AssignMethodCount(h)
    <3>1. methods' = [methods EXCEPT ![slot[h]].count = 1] /\ pc[h] = "method_count"
      BY <2>3 DEF AssignMethodCount, Goto
    <3>2. methods'[slot[h]].count = 1 /\ \A i \in Slots \ {slot[h]} : methods'[i] = methods[i]
      BY <3>1, <1>6 DEF MethodSlot
    <3>3. QED  BY <3>1, <3>2, <1>3, <1>4, <1>5, <1>6, <1>7
  <2>4. CASE AssignMethod(h)
    <3>1. methods' = [methods EXCEPT ![slot[h]].method = TopMethod(sample[h])]
      BY <2>4 DEF AssignMethod
    <3>2. \A i \in Slots : methods'[i].count = methods[i].count
      BY <3>1, <1>6 DEF MethodSlot
    <3>3. QED  BY <3>2, <1>3, <1>5, <1>7
  <2>5. QED
    BY <2>1, <2>2, <2>3, <2>4 DEF recordSample, storeCallTrace, storeMethod, LoadTotal,
       StoreTotal, LoadKind, StoreKind, tables, ProbeHash, ProbeCount, ProbeEmpty, LoadCount,
       StoreCount, Claim, AssignCount, AssignFrames, ProbeMethod, ProbeNoMethod, LoadMethodCount
<1>11. \A g \in Threads :
         /\ pc'[g] = "total_store" => reg'[g] <= T'
         /\ pc'[g] = "kind_store" => reg'[g] <= K'
         /\ pc'[g] = "count_store" => reg'[g] <= R'
         /\ pc'[g] = "method_store" => reg'[g] <= M'
  <2>1. ASSUME NEW g \in Threads, UNCHANGED <<pc[g], reg[g]>>
        PROVE  /\ pc'[g] = "total_store" => reg'[g] <= T'
               /\ pc'[g] = "kind_store" => reg'[g] <= K'
               /\ pc'[g] = "count_store" => reg'[g] <= R'
               /\ pc'[g] = "method_store" => reg'[g] <= M'
    BY <2>1, <1>3, <1>5, <1>6
  <2>2. \A g \in Threads \ {h} : UNCHANGED <<pc[g], reg[g]>>
    <3>1. UNCHANGED reg \/ \E n : reg' = [reg EXCEPT ![h] = n]
      BY DEF recordSample, storeCallTrace, storeMethod, LoadTotal, StoreTotal, LoadKind,
         StoreKind, locals, ProbeHash, ProbeCount, ProbeEmpty, LoadCount, StoreCount, Claim,
         AssignCount, AssignFrames, ProbeMethod, ProbeNoMethod, LoadMethodCount,
         StoreMethodCount, AssignMethodCount, AssignMethod, Return, Load
    <3>2. QED  BY <3>1, <1>4, <1>6
  <2>3. CASE to \notin {"total_store", "kind_store", "count_store", "method_store"}
    BY <2>1, <2>2, <2>3, <1>4
  <2>4. CASE to \in {"total_store", "kind_store", "count_store", "method_store"}
    <3>1. \/ LoadTotal(h) /\ Goto(h, "total_load", "total_store")
          \/ LoadKind(h) /\ Goto(h, "kind_load", "kind_store")
          \/ LoadCount(h) /\ Goto(h, "count_load", "count_store")
          \/ LoadMethodCount(h) /\ Goto(h, "method_load", "method_store")
      BY <2>4, <1>1 DEF HandlerSteps
    <3>2. CASE LoadTotal(h) /\ Goto(h, "total_load", "total_store")
      <4>1. to = "total_store" /\ reg'[h] = calls["total"]
        BY <3>2, <1>4, <1>6 DEF LoadTotal, Load, Goto, TypeInv, TypeOK
      <4>2. reg'[h] <= T'
        BY <4>1, <1>3, <1>5, <1>6, <1>7
      <4>3. QED  BY <4>1, <4>2, <2>1, <2>2, <1>4
    <3>3. CASE LoadKind(h) /\ Goto(h, "kind_load", "kind_store")
      <4>1. to = "kind_store" /\ reg'[h] = calls[sample[h]] /\ sample[h] \in Kinds
        BY <3>3, <1>4, <1>6 DEF LoadKind, Load, Goto, TypeInv, TypeOK, SampleFits, KindSteps
      <4>2. reg'[h] <= K'
        BY <4>1, <1>3, <1>5, <1>6, <1>7
      <4>3. QED  BY <4>1, <4>2, <2>1, <2>2, <1>4
    <3>4. CASE LoadCount(h) /\ Goto(h, "count_load", "count_store")
      <4>1. to = "count_store" /\ reg'[h] = traces[slot[h]].count
        BY <3>4, <1>4, <1>6 DEF LoadCount, Load, Goto, TypeInv, TypeOK
      <4>2. reg'[h] <= R'
        BY <4>1, <1>3, <1>5, <1>6, <1>7
      <4>3. QED  BY <4>1, <4>2, <2>1, <2>2, <1>4
    <3>5. CASE LoadMethodCount(h) /\ Goto(h, "method_load", "method_store")
      <4>1. to = "method_store" /\ reg'[h] = methods[slot[h]].count
        BY <3>5, <1>4, <1>6 DEF LoadMethodCount, Load, Goto, TypeInv, TypeOK
      <4>2. reg'[h] <= M'
        BY <4>1, <1>3, <1>5, <1>6, <1>7
      <4>3. QED  BY <4>1, <4>2, <2>1, <2>2, <1>4
    <3>6. QED  BY <3>1, <3>2, <3>3, <3>4, <3>5
  <2>5. QED  BY <2>3, <2>4
<1>12. IsFiniteSet(Handling')
  BY <1>2 DEF Stages
<1>13. QED  BY <1>8, <1>9, <1>10, <1>11, <1>12 DEF CountInv, T, K, R, M

\* Where no handler stores, the counts may only be cleared or moved.
LEMMA CountsKept ==
  ASSUME TypeInv, CountInv, IsFiniteSet(Handling'), reg' = reg,
         \A S \in Stages : Handled(S)' = Handled(S) /\ Handled(S) \in Int,
         \A g \in Threads : pc'[g] = pc[g] \/ pc'[g] = "total_load",
         UNCHANGED calls \/ calls' = NoCalls,
         \A i \in Slots : \/ \E j \in Slots : traces'[i].count = traces[j].count
                          \/ traces'[i].count = 0,
         \A i \in Slots : \/ \E j \in Slots : methods'[i].count = methods[j].count
                          \/ methods'[i].count = 0
  PROVE  CountInv'
<1> DEFINE T == Handled(BeforeTotal)
           K == Handled(BeforeKind)
           R == Handled(BeforeTrace)
           M == Handled(BeforeMethod)
<1>1. /\ T \in Int /\ K \in Int /\ R \in Int /\ M \in Int
      /\ T' = T /\ K' = K /\ R' = R /\ M' = M
  BY DEF Stages
<1> HIDE DEF T, K, R, M
<1>2. /\ calls["total"] <= T /\ \A k \in Kinds : calls[k] <= K
      /\ \A i \in Slots : traces[i].count <= R /\ methods[i].count <= M
      /\ \A g \in Threads :
           /\ pc[g] = "total_store" => reg[g] <= T
           /\ pc[g] = "kind_store" => reg[g] <= K
           /\ pc[g] = "count_store" => reg[g] <= R
           /\ pc[g] = "method_store" => reg[g] <= M
  BY DEF CountInv, T, K, R, M
<1>3. /\ \A c \in Counters : calls[c] \in Nat
      /\ \A i \in Slots : traces[i].count \in Nat /\ methods[i].count \in Nat
      /\ "total" \in Counters /\ Kinds \subseteq Counters
      /\ 0 \in Slots
  BY SlotType DEF TypeInv, TypeOK, TraceSlot, MethodSlot, Counters
<1>4. "gc" \in Kinds
  BY DEF Kinds
<1>5. 0 <= T /\ 0 <= K /\ 0 <= R /\ 0 <= M
  BY <1>1, <1>2, <1>3, <1>4
<1>6. calls'["total"] <= T' /\ \A k \in Kinds : calls'[k] <= K'
  BY <1>1, <1>2, <1>3, <1>5 DEF NoCalls
<1>7. \A i \in Slots : traces'[i].count <= R' /\ methods'[i].count <= M'
  BY <1>1, <1>2, <1>3, <1>5
<1>8. \A g \in Threads :
        /\ pc'[g] = "total_store" => reg'[g] <= T'
        /\ pc'[g] = "kind_store" => reg'[g] <= K'
        /\ pc'[g] = "count_store" => reg'[g] <= R'
        /\ pc'[g] = "method_store" => reg'[g] <= M'
  BY <1>1, <1>2
<1>9. QED  BY <1>6, <1>7, <1>8 DEF CountInv, T, K, R, M

LEMMA HandledType ==
  ASSUME TypeInv, CountInv, NEW S \in Stages
  PROVE  /\ IsFiniteSet(Waiting(S)) /\ Cardinality(Waiting(S)) \in Nat
         /\ Handled(S) \in Int /\ entered \in Nat
<1>1. "idle" \notin S
  BY DEF Stages, BeforeTotal, BeforeKind, BeforeTrace, BeforeMethod,
         KindSteps, StoreTraceSteps, StoreMethodSteps
<1>2. IsFiniteSet(Waiting(S)) /\ Cardinality(Waiting(S)) \in Nat
  BY <1>1, WaitingFinite DEF CountInv
<1>3. QED  BY <1>2 DEF Handled, TypeInv, TypeOK

LEMMA SignalCounts ==
  ASSUME TypeInv, CountInv, NEW h \in Threads, NEW o \in Produced, sigprofHandler(h, o)
  PROVE  CountInv'
<1>1. /\ pc[h] = "idle" /\ pc' = [pc EXCEPT ![h] = "total_load"] /\ entered' = entered + 1
      /\ UNCHANGED <<calls, traces, methods, reg>>
  BY DEF sigprofHandler, tables
<1>2. pc'[h] = "total_load" /\ \A g \in Threads \ {h} : pc'[g] = pc[g]
  BY <1>1 DEF TypeInv, TypeOK
<1>3. IsFiniteSet(Handling')
  <2>1. Handling' = Handling \cup {h}
    BY <1>1, <1>2 DEF Handling
  <2>2. QED  BY <2>1, FS_AddElement DEF CountInv
<1>4. ASSUME NEW S \in Stages
      PROVE  Handled(S)' = Handled(S) /\ Handled(S) \in Int
  <2>1. "total_load" \in S /\ "idle" \notin S
    BY DEF Stages, BeforeTotal, BeforeKind, BeforeTrace, BeforeMethod,
           KindSteps, StoreTraceSteps, StoreMethodSteps
  <2>2. (Waiting(S))' = Waiting(S) \cup {h} /\ h \notin Waiting(S)
    BY <1>1, <1>2, <2>1 DEF Waiting
  <2>3. Cardinality((Waiting(S))') = Cardinality(Waiting(S)) + 1
    BY <2>2, HandledType, FS_AddElement
  <2>4. QED  BY <1>1, <2>3, HandledType DEF Handled
<1>5. QED  BY <1>1, <1>2, <1>3, <1>4, CountsKept

\* A step that touches no handler, no register and no counter of signals.
LEMMA QuietCounts ==
  ASSUME TypeInv, CountInv, UNCHANGED <<pc, reg, entered>>,
         UNCHANGED calls \/ calls' = NoCalls,
         UNCHANGED traces \/ traces' = NoTraces \/ traces' \in QSort(traces),
         UNCHANGED methods \/ methods' = NoMethods \/ methods' \in QSort(methods)
  PROVE  CountInv'
<1>1. IsFiniteSet(Handling')
  BY DEF CountInv, Handling
<1>2. \A S \in Stages : Handled(S)' = Handled(S) /\ Handled(S) \in Int
  BY HandledType DEF Handled, Waiting
<1>3. \A i \in Slots : \/ \E j \in Slots : traces'[i].count = traces[j].count
                       \/ traces'[i].count = 0
  BY QSortSlots DEF NoTraces, EmptyTrace
<1>4. \A i \in Slots : \/ \E j \in Slots : methods'[i].count = methods[j].count
                       \/ methods'[i].count = 0
  BY QSortSlots DEF NoMethods, EmptyMethod
<1>5. QED  BY <1>1, <1>2, <1>3, <1>4, CountsKept

\* What the steps of the attach thread and of the signals leave alone.
LEMMA OthersQuiet ==
  ASSUME StartProfiling \/ StopProfiling \/ LeaveLoop \/ Serve \/ Expire \/ Terminate
         \/ UNCHANGED vars
  PROVE  /\ UNCHANGED <<pc, sample, slot, reg, entered>>
         /\ UNCHANGED calls \/ calls' = NoCalls
         /\ UNCHANGED traces \/ traces' = NoTraces \/ traces' \in QSort(traces)
         /\ UNCHANGED methods \/ methods' = NoMethods \/ methods' \in QSort(methods)
<1>1. CASE StartProfiling \/ StopProfiling \/ LeaveLoop
  BY <1>1 DEF StartProfiling, StopProfiling, LeaveLoop, Attach, tables, locals
<1>2. CASE Expire \/ Terminate \/ UNCHANGED vars
  BY <1>2 DEF Expire, Terminate, vars, tables, locals, history
<1>3. CASE start \/ stop
  BY <1>3, Zenon DEF start, stop, setTimer, Attach, AttachOnTables, tables, locals
<1>4. CASE saveCalls \/ saveMethodIds \/ sendResponse
  BY <1>4, Zenon DEF saveCalls, saveMethodIds, sendResponse, Attach, AttachOnTables, tables, locals
<1>5. CASE saveMethods
  BY <1>5, Zenon DEF saveMethods, Attach, AttachOnTables, tables, locals
<1>6. CASE saveCallTraces
  BY <1>6, Zenon DEF saveCallTraces, Attach, AttachOnTables, tables, locals
<1>7. QED  BY <1>1, <1>2, <1>3, <1>4, <1>5, <1>6 DEF Serve, writeResult

LEMMA NextCountInv == TypeInv /\ CountInv /\ [Next]_vars => CountInv'
<1> SUFFICES ASSUME TypeInv, CountInv, [Next]_vars PROVE CountInv'
  OBVIOUS
<1>1. CASE \E h \in Threads : recordSample(h)
  BY <1>1, HandlerCounts
<1>2. CASE \E h \in Threads, o \in Produced : sigprofHandler(h, o)
  BY <1>2, SignalCounts
<1>3. CASE StartProfiling \/ StopProfiling \/ LeaveLoop \/ Serve \/ Expire \/ Terminate
           \/ UNCHANGED vars
  BY <1>3, OthersQuiet, QuietCounts
<1>4. QED  BY <1>1, <1>2, <1>3 DEF Next

LEMMA InitCountInv == Init => CountInv
<1> SUFFICES ASSUME Init PROVE CountInv
  OBVIOUS
<1>1. Handling = {} /\ \A S \in Stages : Waiting(S) = {}
  BY DEF Init, Handling, Waiting, Stages, BeforeTotal, BeforeKind, BeforeTrace, BeforeMethod,
         KindSteps, StoreTraceSteps, StoreMethodSteps
<1>2. IsFiniteSet(Handling) /\ \A S \in Stages : Handled(S) = 0
  BY <1>1, FS_EmptySet DEF Handled, Init
<1>3. /\ Handled(BeforeTotal) = 0 /\ Handled(BeforeKind) = 0
      /\ Handled(BeforeTrace) = 0 /\ Handled(BeforeMethod) = 0
  BY <1>2 DEF Stages
<1>4. QED
  BY <1>2, <1>3 DEF CountInv, Init, NoCalls, NoTraces, NoMethods, EmptyTrace, EmptyMethod,
                    Counters, Kinds

\* However handlers, sorts and resets interleave, no count exceeds the number
\* of signals that were handled: a lost update only loses.
THEOREM NothingInvented == Spec => []NeverInvented
<1>1. TypeInv /\ CountInv => NeverInvented
  <2> SUFFICES ASSUME TypeInv, CountInv PROVE NeverInvented
    OBVIOUS
  <2>1. \A S \in Stages : Handled(S) \in Int /\ Handled(S) <= entered /\ entered \in Nat
    BY HandledType DEF Handled
  <2>2. /\ \A c \in Counters : calls[c] \in Nat
        /\ \A i \in Slots : traces[i].count \in Nat /\ methods[i].count \in Nat
    BY DEF TypeInv, TypeOK, TraceSlot, MethodSlot
  <2>3. \A S \in {BeforeTotal, BeforeKind, BeforeTrace, BeforeMethod} :
          Handled(S) \in Int /\ Handled(S) <= entered /\ entered \in Nat
    BY <2>1 DEF Stages
  <2>4. \A c \in Counters : calls[c] <= entered
    BY <2>2, <2>3 DEF CountInv, Counters
  <2>5. \A i \in Slots : traces[i].count <= entered /\ methods[i].count <= entered
    BY <2>2, <2>3 DEF CountInv
  <2>6. QED  BY <2>4, <2>5 DEF NeverInvented
<1>2. QED  BY <1>1, InitCountInv, NextCountInv, TypeInvariant, PTL DEF Spec
-----------------------------------------------------------------------------
(***************************************************************************)
(* Without an overlap no null method id is looked up.  While the handler   *)
(* is off (Unarmed) none is entered, so that once a step on the tables has *)
(* found no handler running (Busy), none runs until the attach thread is   *)
(* done.  A slot of the method table whose count is written and whose      *)
(* method is not belongs to a running handler at "method_id", and a        *)
(* handler increments only the slot that names its own method.             *)
(***************************************************************************)
SaveSteps == {"save_methods", "sort_traces", "save_traces", "save_ids", "send"}
Clearing  == {"start_hashes", "start_traces", "start_methods"}
Busy      == Clearing \cup {"start_sigaction", "sort_methods"} \cup SaveSteps
Unarmed   == Busy \cup {"start_calls", "stop_itimer", "save_calls"}

TopFramesKnown == \A t \in Traces : TopMethod(t) # NULL

HandlerOff ==
  /\ ap \in Unarmed \/ (ap = "reading" /\ ~running) => sigaction = "default"
  /\ ap \in StartSteps => running

\* The slots of the method table are whole, but for the one that is written.
SlotsNamed ==
  \A i \in Slots :
    methods[i].count # 0 =>
      \/ methods[i].method # NULL
      \/ \E h \in Threads : pc[h] = "method_id" /\ slot[h] = i

OwnSlot ==
  \A h \in Threads :
    pc[h] \in {"method_load", "method_store"} => methods[slot[h]].method = TopMethod(sample[h])

InfoNamed == \A k \in DOMAIN info.methods : info.methods[k].method # NULL

AloneInv ==
  ~overlap =>
    /\ \A g, h \in Handling : g = h
    /\ ap \in Busy => Handling = {}
    /\ ap \notin Clearing => SlotsNamed
    /\ OwnSlot
    /\ InfoNamed

CrashInv ==
  /\ HandlerOff
  /\ AloneInv
  /\ ap \notin SaveSteps => info.methods = << >>

\* A step of a handler touches no local variable of another one, and the
\* method table only in storeMethod.
LEMMA HandlerLocals ==
  ASSUME TypeInv, NEW h \in Threads, recordSample(h)
  PROVE  /\ \A g \in Threads \ {h} : UNCHANGED <<pc[g], sample[g], slot[g]>>
         /\ pc[h] # "idle"
         /\ UNCHANGED <<sigaction, running, ap, info, overlap>>
         /\ \/ UNCHANGED methods
            \/ StoreMethodCount(h) \/ AssignMethodCount(h) \/ AssignMethod(h)
<1>1. PICK from, to \in HandlerPcs : <<from, to>> \in HandlerSteps /\ Goto(h, from, to)
  BY HandlerGoes
<1>2. /\ pc[h] # "idle" /\ UNCHANGED <<sigaction, running, ap, info, overlap>>
      /\ \A g \in Threads \ {h} : pc'[g] = pc[g]
  BY <1>1 DEF Goto, signal, attach, history, HandlerSteps, TypeInv, TypeOK
<1>3. UNCHANGED sample \/ sample' = [sample EXCEPT ![h] = NULL]
  BY DEF recordSample, storeCallTrace, storeMethod, LoadTotal, StoreTotal, LoadKind,
     StoreKind, locals, ProbeHash, ProbeCount, ProbeEmpty, LoadCount, StoreCount, Claim,
     AssignCount, AssignFrames, ProbeMethod, ProbeNoMethod, LoadMethodCount,
     StoreMethodCount, AssignMethodCount, AssignMethod, Return
<1>4. UNCHANGED slot \/ \E i : slot' = [slot EXCEPT ![h] = i]
  BY DEF recordSample, storeCallTrace, storeMethod, LoadTotal, StoreTotal, LoadKind,
     StoreKind, locals, ProbeHash, ProbeCount, ProbeEmpty, LoadCount, StoreCount, Claim,
     AssignCount, AssignFrames, ProbeMethod, ProbeNoMethod, LoadMethodCount,
     StoreMethodCount, AssignMethodCount, AssignMethod, Return, SetSlot, EnterStoreMethod
<1>5. sample \in [Threads -> Outcomes \cup {NULL}] /\ slot \in [Threads -> Slots]
  BY DEF TypeInv, TypeOK
<1>6. \/ UNCHANGED methods
      \/ StoreMethodCount(h) \/ AssignMethodCount(h) \/ AssignMethod(h)
  BY DEF recordSample, storeCallTrace, storeMethod, LoadTotal, StoreTotal, LoadKind,
     StoreKind, tables, ProbeHash, ProbeCount, ProbeEmpty, LoadCount, StoreCount, Claim,
     AssignCount, AssignFrames, ProbeMethod, ProbeNoMethod, LoadMethodCount
<1>7. QED  BY <1>2, <1>3, <1>4, <1>5, <1>6

LEMMA HandlerCrash ==
  ASSUME TypeInv, CrashInv, TopFramesKnown, NEW h \in Threads, recordSample(h)
  PROVE  CrashInv'
<1>1. /\ \A g \in Threads \ {h} : pc'[g] = pc[g] /\ sample'[g] = sample[g] /\ slot'[g] = slot[g]
      /\ pc[h] # "idle"
      /\ UNCHANGED <<sigaction, running, ap, info, overlap>>
  BY HandlerLocals
<1>2. HandlerOff' /\ (ap' \notin SaveSteps => info'.methods = << >>)
  BY <1>1 DEF CrashInv, HandlerOff
<1>3. SUFFICES ASSUME ~overlap
               PROVE  /\ \A f, g \in Handling' : f = g
                      /\ ap \in Busy => Handling' = {}
                      /\ ap \notin Clearing => SlotsNamed'
                      /\ OwnSlot' /\ InfoNamed'
  BY <1>1, <1>2 DEF CrashInv, AloneInv
<1>4. /\ Handling = {h} /\ ap \notin Busy /\ SlotsNamed /\ OwnSlot /\ InfoNamed
      /\ Handling' \subseteq {h}
  <2>1. h \in Handling /\ Handling' \subseteq Handling
    BY <1>1 DEF Handling
  <2>2. QED  BY <1>3, <2>1 DEF CrashInv, AloneInv, Busy
<1>5. InfoNamed'
  BY <1>1, <1>4 DEF InfoNamed
<1>6. methods \in [Slots -> MethodSlot] /\ slot \in [Threads -> Slots]
  BY DEF TypeInv, TypeOK
<1>7. pc[h] \in StoreMethodSteps => sample[h] \in Traces /\ TopMethod(sample[h]) # NULL
  BY DEF TypeInv, SampleFits, TopFramesKnown
<1>8. SlotsNamed'
  <2>1. CASE UNCHANGED methods
    <3>1. pc[h] # "method_id" \/ AssignMethod(h)
      BY DEF recordSample, storeCallTrace, storeMethod, LoadTotal, StoreTotal, LoadKind,
         StoreKind, ProbeHash, ProbeCount, ProbeEmpty, LoadCount, StoreCount, Claim,
         AssignCount, AssignFrames, ProbeMethod, ProbeNoMethod, LoadMethodCount,
         StoreMethodCount, AssignMethodCount, Return, Goto
    <3>2. CASE pc[h] # "method_id"
      BY <2>1, <3>2, <1>1, <1>4 DEF SlotsNamed
    <3>3. CASE AssignMethod(h)
      <4>1. methods'[slot[h]].method = TopMethod(sample[h]) /\ pc[h] = "method_id"
        BY <3>3, <1>6 DEF AssignMethod, Return, Goto, MethodSlot
      <4>2. methods[slot[h]].method # NULL
        BY <4>1, <2>1, <1>7 DEF StoreMethodSteps
      <4>3. QED  BY <2>1, <4>2, <1>1, <1>4 DEF SlotsNamed
    <3>4. QED  BY <3>1, <3>2, <3>3
  <2>2. CASE StoreMethodCount(h)
    <3>1. /\ pc[h] = "method_store"
          /\ methods' = [methods EXCEPT ![slot[h]].count = reg[h] + 1]
      BY <2>2 DEF StoreMethodCount, Return, Goto
    <3>2. methods[slot[h]].method # NULL
      BY <3>1, <1>4, <1>7 DEF OwnSlot, StoreMethodSteps
    <3>3. /\ methods'[slot[h]].method # NULL
          /\ \A i \in Slots \ {slot[h]} : methods'[i] = methods[i]
      BY <3>1, <3>2, <1>6 DEF MethodSlot
    <3>4. QED  BY <3>1, <3>3, <1>1, <1>4, <1>6 DEF SlotsNamed
  <2>3. CASE AssignMethodCount(h)
    <3>1. /\ pc[h] = "method_count" /\ pc'[h] = "method_id" /\ slot'[h] = slot[h]
          /\ methods' = [methods EXCEPT ![slot[h]].count = 1]
      BY <2>3 DEF AssignMethodCount, Goto, locals, TypeInv, TypeOK
    <3>2. \A i \in Slots \ {slot[h]} : methods'[i] = methods[i]
      BY <3>1, <1>6
    <3>3. QED  BY <3>1, <3>2, <1>1, <1>4, <1>6 DEF SlotsNamed
  <2>4. CASE AssignMethod(h)
    <3>1. /\ pc[h] = "method_id"
          /\ methods' = [methods EXCEPT ![slot[h]].method = TopMethod(sample[h])]
      BY <2>4 DEF AssignMethod, Return, Goto
    <3>2. /\ methods'[slot[h]].method # NULL
          /\ \A i \in Slots \ {slot[h]} : methods'[i] = methods[i]
      BY <3>1, <1>6, <1>7 DEF MethodSlot, StoreMethodSteps
    <3>3. QED  BY <3>1, <3>2, <1>1, <1>4, <1>6 DEF SlotsNamed
  <2>5. QED  BY <2>1, <2>2, <2>3, <2>4, HandlerLocals
<1>9. OwnSlot'
  <2>1. \A g \in Threads \ {h} : pc'[g] = "idle"
    BY <1>4 DEF Handling
  <2>2. ASSUME pc'[h] \in {"method_load", "method_store"}
        PROVE  methods'[slot'[h]].method = TopMethod(sample'[h])
    <3>1. PICK from, to \in HandlerPcs :
            /\ <<from, to>> \in HandlerSteps /\ Goto(h, from, to)
            /\ from = "method_load" => LoadMethodCount(h)
            /\ from = "method_probe" => ProbeMethod(h)
      BY HandlerGoes
    <3>2. pc'[h] = to /\ pc[h] = from
      BY <3>1 DEF Goto, TypeInv, TypeOK
    <3>3. CASE to = "method_load"
      BY <3>1, <3>2, <3>3 DEF ProbeMethod, Goto, HandlerSteps, tables, locals, TypeInv, TypeOK
    <3>4. CASE to = "method_store"
      BY <3>1, <3>2, <3>4, <1>4 DEF OwnSlot, LoadMethodCount, HandlerSteps, tables
    <3>5. QED  BY <2>2, <3>2, <3>3, <3>4
  <2>3. QED  BY <2>1, <2>2 DEF OwnSlot
<1>10. QED  BY <1>4, <1>5, <1>8, <1>9 DEF Busy

LEMMA SignalCrash ==
  ASSUME TypeInv, CrashInv, NEW h \in Threads, NEW o \in Produced, sigprofHandler(h, o)
  PROVE  CrashInv'
<1>1. /\ sigaction = "handler" /\ pc[h] = "idle"
      /\ pc' = [pc EXCEPT ![h] = "total_load"]
      /\ overlap' = (overlap \/ Handling # {})
      /\ UNCHANGED <<sigaction, methods, slot, running, ap, info>>
  BY DEF sigprofHandler, tables, attach
<1>2. ap \notin Unarmed
  BY <1>1 DEF CrashInv, HandlerOff
<1>3. HandlerOff' /\ (ap' \notin SaveSteps => info'.methods = << >>)
  BY <1>1 DEF CrashInv, HandlerOff
<1>4. ASSUME ~overlap'
      PROVE  /\ \A f, g \in Handling' : f = g
             /\ ap \in Busy => Handling' = {}
             /\ ap \notin Clearing => SlotsNamed'
             /\ OwnSlot' /\ InfoNamed'
  <2>1. /\ ~overlap /\ Handling = {} /\ SlotsNamed /\ OwnSlot /\ InfoNamed
    BY <1>1, <1>2, <1>4 DEF CrashInv, AloneInv, Unarmed, Busy
  <2>2. \A g \in Threads : pc[g] = "idle"
    BY <2>1 DEF Handling
  <2>3. pc'[h] = "total_load" /\ \A g \in Threads \ {h} : pc'[g] = "idle"
    BY <1>1, <2>2 DEF TypeInv, TypeOK
  <2>4. \A f, g \in Handling' : f = g
    BY <2>3 DEF Handling
  <2>5. SlotsNamed'
    BY <1>1, <2>1, <2>2 DEF SlotsNamed
  <2>6. OwnSlot' /\ InfoNamed'
    BY <1>1, <2>1, <2>3 DEF OwnSlot, InfoNamed
  <2>7. ap \notin Busy
    BY <1>2 DEF Unarmed
  <2>8. QED  BY <2>4, <2>5, <2>6, <2>7
<1>5. QED  BY <1>1, <1>3, <1>4 DEF CrashInv, AloneInv

\* A step of the attach thread off the tables.
LEMMA OffTables ==
  ASSUME CrashInv, UNCHANGED <<pc, sample, slot, methods, overlap>>,
         ap \notin Clearing, ap' \notin Busy, ap \notin SaveSteps, info' = info, HandlerOff'
  PROVE  CrashInv'
<1>1. ~overlap => SlotsNamed /\ OwnSlot /\ InfoNamed /\ \A g, h \in Handling : g = h
  BY DEF CrashInv, AloneInv
<1>2. ~overlap' => SlotsNamed' /\ OwnSlot' /\ InfoNamed' /\ \A g, h \in Handling' : g = h
  BY <1>1 DEF SlotsNamed, OwnSlot, InfoNamed, Handling
<1>3. info'.methods = << >>
  BY DEF CrashInv
<1>4. QED  BY <1>2, <1>3 DEF CrashInv, AloneInv

\* A step on the tables.  It finds no handler running, or it is an overlap.
LEMMA OnTables ==
  ASSUME CrashInv, UNCHANGED <<pc, sample, slot>>, HandlerOff',
         ~overlap' => Handling = {},
         ~overlap' /\ ap' \notin Clearing => SlotsNamed',
         ~overlap' => InfoNamed',
         ap' \notin SaveSteps => info'.methods = << >>
  PROVE  CrashInv'
<1>1. ASSUME ~overlap' PROVE Handling' = {} /\ OwnSlot'
  <2>1. Handling = {}
    BY <1>1
  <2>2. \A h \in Threads : pc'[h] = "idle"
    BY <2>1 DEF Handling
  <2>3. QED  BY <2>2 DEF Handling, OwnSlot
<1>2. QED  BY <1>1 DEF CrashInv, AloneInv

LEMMA AttachCrash ==
  ASSUME TypeInv, CrashInv, StartProfiling \/ StopProfiling \/ LeaveLoop \/ start \/ stop
  PROVE  CrashInv'
<1> USE DEF Clearing, SaveSteps, Busy
<1>1. CASE StartProfiling \/ StopProfiling \/ LeaveLoop
  <2>1. /\ ap = "reading" /\ UNCHANGED <<pc, sample, slot, methods, overlap, info, sigaction>>
        /\ ap' \in {"reading", "start_calls", "stop_sigaction", "save_calls", "done"}
    BY <1>1 DEF StartProfiling, StopProfiling, LeaveLoop, Attach, tables, locals
  <2>2. HandlerOff'
    BY <1>1 DEF StartProfiling, StopProfiling, LeaveLoop, Attach, CrashInv, HandlerOff,
                Unarmed, StartSteps
  <2>3. QED  BY <2>1, <2>2, OffTables
<1>2. ASSUME NEW enabled, NEW first, NEW second, NEW after, setTimer(enabled, first, second, after),
             \/ <<enabled, first, second, after>> = <<TRUE, "start_sigaction", "start_itimer", "reading">>
             \/ <<enabled, first, second, after>> = <<FALSE, "stop_sigaction", "stop_itimer", "save_calls">>
      PROVE  CrashInv'
  <2>1. /\ UNCHANGED <<pc, sample, slot, methods, overlap, info>>
        /\ ap \in {"start_sigaction", "start_itimer", "stop_sigaction", "stop_itimer"}
        /\ ap' \in {"start_itimer", "reading", "stop_itimer", "save_calls"}
    BY <1>2 DEF setTimer, Attach, tables, locals
  <2>2. HandlerOff'
    BY <1>2 DEF setTimer, setSigaction, Attach, CrashInv, HandlerOff, Unarmed, StartSteps
  <2>3. QED  BY <2>1, <2>2, OffTables
<1>3. CASE start
  <2>1. CASE /\ Attach("start_calls", "start_hashes")
             /\ overlap' = (Handling # {})
             /\ UNCHANGED <<sigaction, itimer, running, alive, tables, info>>
    <3>1. /\ ap = "start_calls" /\ ap' = "start_hashes"
          /\ UNCHANGED <<pc, sample, slot, sigaction, running, info>>
      BY <2>1 DEF Attach, locals
    <3>2. HandlerOff'
      BY <3>1 DEF CrashInv, HandlerOff, Unarmed, StartSteps
    <3>3. info'.methods = << >>
      BY <3>1 DEF CrashInv
    <3>4. InfoNamed'
      BY <3>3 DEF InfoNamed
    <3>5. QED  BY <2>1, <3>1, <3>2, <3>3, <3>4, OnTables
  <2>2. CASE \/ AttachOnTables("start_hashes", "start_traces") /\ UNCHANGED info
             \/ AttachOnTables("start_traces", "start_methods") /\ UNCHANGED info
             \/ AttachOnTables("start_methods", "start_sigaction") /\ UNCHANGED info
                /\ methods' = NoMethods
    <3>1. /\ ap \in Clearing /\ ap' \in {"start_traces", "start_methods", "start_sigaction"}
          /\ ap' = "start_sigaction" => methods' = NoMethods
          /\ overlap' = (overlap \/ Handling # {})
          /\ UNCHANGED <<pc, sample, slot, sigaction, running, info>>
      BY <2>2 DEF AttachOnTables, Attach, locals
    <3>2. HandlerOff'
      BY <3>1 DEF CrashInv, HandlerOff, Unarmed, StartSteps
    <3>3. info'.methods = << >>
      BY <3>1 DEF CrashInv
    <3>4. InfoNamed'
      BY <3>3 DEF InfoNamed
    <3>5. ap' \notin Clearing => SlotsNamed'
      BY <3>1 DEF SlotsNamed, NoMethods, EmptyMethod
    <3>6. QED  BY <3>1, <3>2, <3>3, <3>4, <3>5, OnTables
  <2>3. CASE setTimer(TRUE, "start_sigaction", "start_itimer", "reading")
    BY <1>2, <2>3
  <2>4. QED  BY <1>3, <2>1, <2>2, <2>3, Zenon DEF start
<1>4. CASE stop
  BY <1>2, <1>4 DEF stop
<1>5. QED  BY <1>1, <1>3, <1>4

\* The method table as the attach thread sees it when no handler runs.
LEMMA NamedAlone ==
  ASSUME CrashInv, ap \notin Clearing, ~overlap, Handling = {}
  PROVE  /\ \A i \in Slots : methods[i].count # 0 => methods[i].method # NULL
         /\ InfoNamed
<1>1. SlotsNamed /\ InfoNamed
  BY DEF CrashInv, AloneInv
<1>2. \A h \in Threads : pc[h] = "idle"
  BY DEF Handling
<1>3. QED  BY <1>1, <1>2 DEF SlotsNamed

LEMMA ResultCrash ==
  ASSUME TypeInv, CrashInv, writeResult
  PROVE  CrashInv'
<1> USE DEF Clearing, SaveSteps, Busy
<1>1. ASSUME NEW from \in StopSteps \ {"stop_sigaction", "stop_itimer"},
             NEW to \in StopSteps \ {"stop_sigaction", "stop_itimer"},
             AttachOnTables(from, to)
      PROVE  /\ UNCHANGED <<pc, sample, slot>> /\ HandlerOff' /\ ap \notin Clearing /\ ap' = to
             /\ ap = from /\ to \notin Clearing
             /\ ~overlap' => ~overlap /\ Handling = {}
  <2>1. /\ UNCHANGED <<pc, sample, slot, sigaction, running>> /\ ap = from /\ ap' = to
        /\ overlap' = (overlap \/ Handling # {})
    BY <1>1 DEF AttachOnTables, Attach, locals
  <2>2. QED  BY <2>1 DEF StopSteps, StartSteps, CrashInv, HandlerOff, Unarmed
<1>2. CASE saveCalls \/ saveMethodIds \/ saveCallTraces
  <2>1. PICK from \in StopSteps \ {"stop_sigaction", "stop_itimer"},
             to \in StopSteps \ {"stop_sigaction", "stop_itimer"} :
          /\ AttachOnTables(from, to) /\ UNCHANGED methods
          /\ info'.methods = info.methods
          /\ from \in SaveSteps <=> to \in SaveSteps
    <3>1. CASE saveCalls
      <4>1. info'.methods = info.methods
        BY <3>1 DEF saveCalls, TypeInv, InfoType
      <4>2. QED  BY <3>1, <4>1 DEF saveCalls, StopSteps, tables
    <3>2. CASE saveMethodIds
      BY <3>2 DEF saveMethodIds, StopSteps, tables
    <3>3. CASE saveCallTraces
      <4>1. info'.methods = info.methods /\ UNCHANGED methods
        BY <3>3 DEF saveCallTraces, TypeInv, InfoType, tables
      <4>2. \/ AttachOnTables("sort_traces", "save_traces")
            \/ AttachOnTables("save_traces", "save_traces")
            \/ AttachOnTables("save_traces", "save_ids")
        BY <3>3, Zenon DEF saveCallTraces
      <4>3. QED  BY <4>1, <4>2 DEF StopSteps
    <3>4. QED  BY <1>2, <3>1, <3>2, <3>3
  <2>2. /\ UNCHANGED <<pc, sample, slot>> /\ HandlerOff' /\ ap \notin Clearing /\ ap' = to
        /\ ap = from
        /\ ~overlap' => ~overlap /\ Handling = {}
    BY <1>1, <2>1
  <2>3. ~overlap' => SlotsNamed' /\ InfoNamed'
    BY <2>1, <2>2, NamedAlone DEF SlotsNamed, InfoNamed
  <2>4. ap' \notin SaveSteps => info'.methods = << >>
    BY <2>1, <2>2 DEF CrashInv
  <2>5. QED  BY <2>2, <2>3, <2>4, OnTables
<1>3. CASE saveMethods
  <2>1. CASE /\ AttachOnTables("sort_methods", "save_methods")
             /\ methods' \in QSort(methods)
             /\ UNCHANGED <<alive, calls, hashes, traces, info>>
    <3>1. /\ UNCHANGED <<pc, sample, slot>> /\ HandlerOff' /\ ap' = "save_methods" /\ ap \notin Clearing
          /\ ~overlap' => ~overlap /\ Handling = {}
      BY <1>1, <2>1 DEF StopSteps
    <3>2. \A i \in Slots : \E j \in Slots : methods'[i] = methods[j]
      BY <2>1, QSortSlots
    <3>3. ~overlap' => SlotsNamed' /\ InfoNamed'
      BY <2>1, <3>1, <3>2, NamedAlone DEF SlotsNamed, InfoNamed
    <3>4. QED  BY <3>1, <3>3, OnTables
  <2>2. CASE /\ Len(info.methods) < MAX_CALLTRACES /\ methods[Len(info.methods)].count # 0
             /\ AttachOnTables("save_methods", "save_methods")
             /\ info' = [info EXCEPT !.methods = Append(@, methods[Len(info.methods)])]
             /\ UNCHANGED <<alive, calls, tables>>
    <3>1. /\ UNCHANGED <<pc, sample, slot>> /\ HandlerOff' /\ ap' = "save_methods" /\ ap \notin Clearing
          /\ ~overlap' => ~overlap /\ Handling = {}
      BY <1>1, <2>2 DEF StopSteps
    <3>2. info.methods \in Seq(MethodSlot) /\ Len(info.methods) \in Slots
      BY <2>2, TablesAssumption DEF TypeInv, InfoType, Slots
    <3>3. info'.methods = Append(info.methods, methods[Len(info.methods)])
      BY <2>2 DEF TypeInv, InfoType
    <3>4. ASSUME ~overlap' PROVE SlotsNamed' /\ InfoNamed'
      <4>1. /\ \A i \in Slots : methods[i].count # 0 => methods[i].method # NULL
            /\ InfoNamed
        BY <3>1, <3>4, NamedAlone
      <4>2. methods[Len(info.methods)].method # NULL
        BY <2>2, <3>2, <4>1
      <4>3. InfoNamed'
        BY <3>2, <3>3, <4>1, <4>2 DEF InfoNamed
      <4>4. SlotsNamed'
        BY <2>2, <4>1 DEF SlotsNamed, tables
      <4>5. QED  BY <4>3, <4>4
    <3>5. QED  BY <3>1, <3>4, OnTables
  <2>3. CASE /\ AttachOnTables("save_methods", "sort_traces")
             /\ UNCHANGED <<alive, calls, tables, info>>
    <3>1. /\ UNCHANGED <<pc, sample, slot>> /\ HandlerOff' /\ ap' = "sort_traces" /\ ap \notin Clearing
          /\ ~overlap' => ~overlap /\ Handling = {}
      BY <1>1, <2>3 DEF StopSteps
    <3>2. ~overlap' => SlotsNamed' /\ InfoNamed'
      BY <2>3, <3>1, NamedAlone DEF SlotsNamed, InfoNamed, tables
    <3>3. QED  BY <3>1, <3>2, OnTables
  <2>4. QED  BY <1>3, <2>1, <2>2, <2>3 DEF saveMethods
<1>4. CASE sendResponse
  <2>1. /\ UNCHANGED <<pc, sample, slot, methods, overlap, sigaction, running>>
        /\ ap = "send" /\ ap' \in {"reading", "done"} /\ info' = NoInfo
    BY <1>4 DEF sendResponse, Attach, locals, tables
  <2>2. HandlerOff'
    BY <2>1 DEF CrashInv, HandlerOff, Unarmed, StartSteps
  <2>3. info'.methods = << >>
    BY <2>1 DEF NoInfo
  <2>4. InfoNamed'
    BY <2>3 DEF InfoNamed
  <2>5. ~overlap => Handling = {}
    BY <2>1 DEF CrashInv, AloneInv
  <2>6. ~overlap' => SlotsNamed'
    BY <2>1, <2>5, NamedAlone DEF SlotsNamed
  <2>7. QED  BY <2>1, <2>2, <2>3, <2>4, <2>5, <2>6, OnTables
<1>5. QED  BY <1>2, <1>3, <1>4 DEF writeResult

LEMMA NextCrashInv == TopFramesKnown /\ TypeInv /\ CrashInv /\ [Next]_vars => CrashInv'
<1> SUFFICES ASSUME TopFramesKnown, TypeInv, CrashInv, [Next]_vars PROVE CrashInv'
  OBVIOUS
<1>1. CASE \E h \in Threads : recordSample(h)
  BY <1>1, HandlerCrash
<1>2. CASE \E h \in Threads, o \in Produced : sigprofHandler(h, o)
  BY <1>2, SignalCrash
<1>3. CASE Expire \/ Terminate \/ UNCHANGED vars
  <2>1. UNCHANGED <<sigaction, methods, pc, sample, slot, running, ap, info, overlap>>
    BY <1>3 DEF Expire, Terminate, vars, signal, tables, locals, attach, history
  <2>2. QED
    BY <2>1 DEF CrashInv, HandlerOff, AloneInv, SlotsNamed, OwnSlot, InfoNamed, Handling
<1>4. CASE StartProfiling \/ StopProfiling \/ LeaveLoop \/ start \/ stop
  BY <1>4, AttachCrash
<1>5. CASE writeResult
  BY <1>5, ResultCrash
<1>6. QED  BY <1>1, <1>2, <1>3, <1>4, <1>5 DEF Next, Serve

\* Only an overlap makes the agent look up a null method id, as long as the
\* top frame of every trace has an id.
THEOREM CrashOnlyByOverlap == Spec => []CrashNeedsOverlap
<1> DEFINE Inv == TopFramesKnown => CrashInv
<1>1. Init => Inv
  BY DEF Init, NoInfo, CrashInv, HandlerOff, AloneInv, SlotsNamed, OwnSlot, InfoNamed, Handling,
         NoMethods, EmptyMethod, Clearing, SaveSteps, Busy, Unarmed, StartSteps
<1>2. TypeInv /\ Inv /\ [Next]_vars => Inv'
  BY NextCrashInv DEF TopFramesKnown
<1>3. Inv => CrashNeedsOverlap
  <2> SUFFICES ASSUME CrashInv, ap \in {"save_ids", "send"}, NULL \in MethodIdsOf(info)
               PROVE  overlap
    BY DEF CrashNeedsOverlap, TopFramesKnown
  <2>1. NULL \notin MethodsOfTraces(info.samples)
    BY DEF MethodsOfTraces, FrameMethods
  <2>2. \E k \in DOMAIN info.methods : info.methods[k].method = NULL
    BY <2>1 DEF MethodIdsOf, MethodsOfMethods
  <2>3. QED  BY <2>2 DEF CrashInv, AloneInv, InfoNamed
<1> HIDE DEF Inv
<1>4. QED  BY <1>1, <1>2, <1>3, TypeInvariant, PTL DEF Spec

-----------------------------------------------------------------------------
(***************************************************************************)
(* A result is exact when no handler overlapped another one or the attach  *)
(* thread's work on the tables, for every interleaving of everything else. *)
(*                                                                         *)
(* First, the sum that the model takes with FoldFunction.                  *)
(***************************************************************************)
LEMMA FoldSum ==
  ASSUME NEW S, IsFiniteSet(S), NEW f \in [S -> Int]
  PROVE  \E g : IsSum(g, f, S) /\ FoldFunction(Plus, 0, f) = g[S]
<1> DEFINE D(g) == [s \in SUBSET S |-> IF s = {} THEN 0 ELSE f[CHOOSE x \in s : TRUE] + g[Rest(s)]]
           G == CHOOSE g : g = D(g)
<1>1. PICK g : IsSum(g, f, S)
  BY SumExists
<1>2. g = D(g)
  BY <1>1 DEF IsSum, Recurs
<1>3. G = D(G)
  BY <1>2
<1>4. FoldFunction(Plus, 0, f) = G[S]
  BY DEF FoldFunction, FoldFunctionOnSet, MapThenFoldSet, Plus, Rest
<1> HIDE DEF G
<1>5. DOMAIN G = SUBSET S /\ G = [s \in DOMAIN G |-> G[s]]
  BY <1>3
<1>6. \A s \in SUBSET S : Recurs(G, f, s)
  BY <1>3 DEF Recurs
<1>7. IsSum(G, f, S)
  <2> HIDE DEF D
  <2>1. QED  BY <1>5, <1>6, SumUnrolls
<1>8. QED  BY <1>4, <1>7

\* One more of x is one more in the sum.
LEMMA SumStep ==
  ASSUME NEW S, IsFiniteSet(S), NEW f \in [S -> Int], NEW x \in S
  PROVE  FoldFunction(Plus, 0, [f EXCEPT ![x] = @ + 1]) = FoldFunction(Plus, 0, f) + 1
<1> DEFINE f1 == [f EXCEPT ![x] = @ + 1]
           A == S \ {x}
<1>1. f1 \in [S -> Int] /\ f1[x] = f[x] + 1 /\ f[x] \in Int /\ \A y \in A : f1[y] = f[y] /\ f[y] \in Int
  OBVIOUS
<1>2. A \in SUBSET S /\ x \in S \ A /\ A \cup {x} = S
  OBVIOUS
<1>3. PICK g : IsSum(g, f, S) /\ FoldFunction(Plus, 0, f) = g[S]
  BY FoldSum
<1> HIDE DEF f1, A
<1>4. PICK g1 : IsSum(g1, f1, S) /\ FoldFunction(Plus, 0, f1) = g1[S]
  BY <1>1, FoldSum
<1>5. g[A] \in Int /\ g1[A] \in Int
  BY <1>2, <1>3, <1>4 DEF IsSum
<1>6. g1[A] <= g[A]
  <2>1. \A y \in A : f1[y] <= f[y]
    BY <1>1
  <2>2. QED  BY <1>1, <1>2, <1>3, <1>4, <2>1, SumCompares
<1>7. g[A] <= g1[A]
  <2>1. \A y \in A : f[y] <= f1[y]
    BY <1>1
  <2>2. QED  BY <1>1, <1>2, <1>3, <1>4, <2>1, SumCompares
<1>8. g[S] = g[A] + f[x] /\ g1[S] = g1[A] + f1[x]
  <2>1. g[A \cup {x}] = g[A] + f[x]
    BY <1>2, <1>3, SumElement
  <2>2. g1[A \cup {x}] = g1[A] + f1[x]
    BY <1>1, <1>2, <1>4, SumElement
  <2>3. QED  BY <1>2, <2>1, <2>2
<1>9. FoldFunction(Plus, 0, f1) = FoldFunction(Plus, 0, f) + 1
  BY <1>1, <1>3, <1>4, <1>5, <1>6, <1>7, <1>8
<1>10. QED  BY <1>9 DEF f1

LEMMA SumZero ==
  ASSUME NEW S, IsFiniteSet(S)
  PROVE  FoldFunction(Plus, 0, [o \in S |-> 0]) = 0
<1> DEFINE f == [o \in S |-> 0]
           zero == [s \in SUBSET S |-> 0]
<1>1. f \in [S -> Int] /\ \A y \in S : f[y] <= f[y]
  OBVIOUS
<1>2. IsSum(zero, f, S)
  BY SumOfZeros
<1>3. zero[S] = 0 /\ S \in SUBSET S
  OBVIOUS
<1> HIDE DEF zero, f
<1>4. PICK g : IsSum(g, f, S) /\ FoldFunction(Plus, 0, f) = g[S]
  BY <1>1, FoldSum
<1>5. g[S] <= zero[S] /\ zero[S] <= g[S]
  BY <1>1, <1>2, <1>3, <1>4, SumCompares
<1>6. g[S] \in Int
  BY <1>3, <1>4 DEF IsSum
<1>7. FoldFunction(Plus, 0, f) = 0
  BY <1>3, <1>4, <1>5, <1>6
<1>8. QED  BY <1>7 DEF f
-----------------------------------------------------------------------------
(***************************************************************************)
(* One actor at a time.  While the handler is off none is entered, so that *)
(* when a step on the tables has found no handler running, none runs until *)
(* the attach thread is done; and since START no two handlers have run     *)
(* together.                                                               *)
(***************************************************************************)
SerialInv ==
  /\ HandlerOff
  /\ ~overlap => /\ \A g, h \in Handling : g = h
                 /\ ap \in Busy => Handling = {}

\* A step of the attach thread.
LEMMA AttachSerial ==
  ASSUME SerialInv, StartProfiling \/ StopProfiling \/ LeaveLoop \/ Serve
  PROVE  /\ UNCHANGED <<pc, sample, slot, reg>>
         /\ HandlerOff'
         /\ ~overlap' /\ ap' \in Busy => Handling = {}
         /\ ~overlap' /\ ap \in Busy => Handling = {}
         /\ overlap /\ ~overlap' => ap' \in Busy
<1> USE DEF Busy, Clearing, SaveSteps
<1>1. CASE StartProfiling \/ StopProfiling \/ LeaveLoop
  BY <1>1 DEF StartProfiling, StopProfiling, LeaveLoop, Attach, locals, SerialInv, HandlerOff,
              Unarmed, StartSteps
<1>2. ASSUME NEW enabled, NEW first, NEW second, NEW after, setTimer(enabled, first, second, after),
             \/ <<enabled, first, second, after>> = <<TRUE, "start_sigaction", "start_itimer", "reading">>
             \/ <<enabled, first, second, after>> = <<FALSE, "stop_sigaction", "stop_itimer", "save_calls">>
      PROVE  /\ UNCHANGED <<pc, sample, slot, reg, overlap>> /\ HandlerOff'
             /\ ap' \notin Busy
  BY <1>2 DEF setTimer, setSigaction, Attach, locals, SerialInv, HandlerOff, Unarmed, StartSteps
<1>3. CASE stop \/ setTimer(TRUE, "start_sigaction", "start_itimer", "reading")
  <2>1. /\ UNCHANGED <<pc, sample, slot, reg, overlap>> /\ HandlerOff'
        /\ ap' \notin Busy
    BY <1>2, <1>3 DEF stop
  <2>2. QED  BY <2>1 DEF SerialInv
<1>4. CASE /\ Attach("start_calls", "start_hashes")
           /\ overlap' = (Handling # {})
           /\ UNCHANGED <<sigaction, running>>
  BY <1>4 DEF Attach, locals, SerialInv, HandlerOff, Unarmed, StartSteps
<1>5. CASE \/ AttachOnTables("start_hashes", "start_traces")
           \/ AttachOnTables("start_traces", "start_methods")
           \/ AttachOnTables("start_methods", "start_sigaction")
  BY <1>5 DEF AttachOnTables, Attach, locals, StartSteps, SerialInv, HandlerOff, Unarmed
<1>6. CASE start
  BY <1>3, <1>4, <1>5, <1>6, Zenon DEF start
<1>7. CASE \E from, to \in StopSteps \ {"stop_sigaction", "stop_itimer"} : AttachOnTables(from, to)
  BY <1>7 DEF AttachOnTables, Attach, locals, StopSteps, StartSteps, SerialInv, HandlerOff, Unarmed
<1>8. CASE sendResponse
  BY <1>8 DEF sendResponse, Attach, locals, SerialInv, HandlerOff, Unarmed, StartSteps
<1>9. QED  BY <1>1, <1>3, <1>6, <1>7, <1>8, WriteResultSteps DEF Serve

LEMMA NextSerialInv == TypeInv /\ SerialInv /\ [Next]_vars => SerialInv'
<1> SUFFICES ASSUME TypeInv, SerialInv, [Next]_vars PROVE SerialInv'
  OBVIOUS
<1>1. CASE \E h \in Threads : recordSample(h)
  <2>1. PICK h \in Threads : recordSample(h)
    BY <1>1
  <2>2. /\ \A g \in Threads \ {h} : UNCHANGED pc[g]
        /\ pc[h] # "idle" /\ UNCHANGED <<sigaction, running, ap, overlap>>
    BY <2>1, HandlerLocals
  <2>3. Handling' \subseteq Handling
    BY <2>2 DEF Handling
  <2>4. QED  BY <2>2, <2>3 DEF SerialInv, HandlerOff
<1>2. CASE \E h \in Threads, o \in Produced : sigprofHandler(h, o)
  <2>1. PICK h \in Threads, o \in Produced : sigprofHandler(h, o)
    BY <1>2
  <2>2. /\ sigaction = "handler" /\ pc[h] = "idle" /\ pc' = [pc EXCEPT ![h] = "total_load"]
        /\ overlap' = (overlap \/ Handling # {})
        /\ UNCHANGED <<sigaction, running, ap>>
    BY <2>1 DEF sigprofHandler, attach
  <2>3. HandlerOff' /\ ap \notin Busy
    BY <2>2 DEF SerialInv, HandlerOff, Unarmed
  <2>4. Handling = {} => Handling' \subseteq {h}
    BY <2>2 DEF Handling, TypeInv, TypeOK
  <2>5. QED  BY <2>2, <2>3, <2>4 DEF SerialInv
<1>3. CASE Expire \/ Terminate \/ UNCHANGED vars
  <2>1. UNCHANGED <<sigaction, pc, running, ap, overlap>>
    BY <1>3 DEF Expire, Terminate, vars, signal, attach, history
  <2>2. QED  BY <2>1 DEF SerialInv, HandlerOff, Handling
<1>4. CASE StartProfiling \/ StopProfiling \/ LeaveLoop \/ Serve
  <2>1. /\ UNCHANGED pc /\ HandlerOff'
        /\ ~overlap' /\ ap' \in Busy => Handling = {}
        /\ overlap /\ ~overlap' => ap' \in Busy
    BY <1>4, AttachSerial
  <2>2. Handling' = Handling
    BY <2>1 DEF Handling
  <2>3. QED  BY <2>1, <2>2 DEF SerialInv
<1>5. QED  BY <1>1, <1>2, <1>3, <1>4 DEF Next
-----------------------------------------------------------------------------
(***************************************************************************)
(* Exact counts.  A handler owes its sample to a count until it has stored *)
(* it: without an overlap, a count is what was taken less what the one     *)
(* running handler owes.                                                   *)
(***************************************************************************)
Total == FoldFunction(Plus, 0, taken)

TotalOwed == IF \E h \in Threads : pc[h] \in BeforeTotal THEN 1 ELSE 0

\* 1 while the running handler has yet to store the outcome o.
Owed(o, S) == IF \E h \in Threads : pc[h] \in S /\ sample[h] = o THEN 1 ELSE 0

CountersExact ==
  /\ calls["total"] = Total - TotalOwed
  /\ \A k \in Kinds : calls[k] = taken[k] - Owed(k, BeforeKind)
  /\ \A h \in Threads :
       /\ pc[h] = "total_store" => reg[h] = calls["total"]
       /\ pc[h] = "kind_store" => reg[h] = calls[sample[h]]
       /\ pc[h] # "idle" => taken[sample[h]] > 0

(***************************************************************************)
(* The table of call traces.  Listed(i, t) says that slot i holds trace t; *)
(* the slot that a handler has claimed and not filled holds nothing yet.   *)
(***************************************************************************)
StoreSteps == BeforeTotal \cup StoreTraceSteps
Assigning  == {"assign_count", "assign_frames"}

Counted(t) == taken[t] - Owed(t, StoreSteps)

Writing(i) == \E h \in Threads : pc[h] \in Assigning /\ slot[h] = i

Listed(i, t) == ~Writing(i) /\ traces[i].count > 0 /\ traces[i].trace = t

TracesExact ==
  /\ \A i \in Slots : \A t \in Traces : Listed(i, t) => traces[i].count = Counted(t)
  /\ \A i \in Slots : ~Writing(i) /\ traces[i].count > 0 => traces[i].trace \in Traces
  /\ \A i, j \in Slots : \A t \in Traces : Listed(i, t) /\ Listed(j, t) => i = j
  /\ \A t \in Traces : Counted(t) > 0 => \E i \in Slots : Listed(i, t)

(***************************************************************************)
(* Where the hashes are, while handlers may run (a sort moves the traces   *)
(* and leaves the hashes).  A hash is stored once, and no slot is empty on *)
(* the way from its bucket: the probe finds it before an empty slot.       *)
(***************************************************************************)
Sampling == sigaction = "handler" \/ Handling # {} \/ ap = "start_sigaction"

HashesBind ==
  \A i \in Slots :
    ~Writing(i) => IF traces[i].count > 0 THEN hashes[i] = TraceHash[traces[i].trace]
                                          ELSE hashes[i] = 0

Unpassed(table, hash, i) ==
  \A j \in Slots : Dist(Bucket(hash), j) < Dist(Bucket(hash), i) => table[j] # 0

HashesPlaced ==
  \A i \in Slots :
    hashes[i] # 0 => /\ \A j \in Slots : hashes[j] = hashes[i] => j = i
                     /\ Unpassed(hashes, hashes[i], i)

\* What storeCallTrace has found out about its hash and the table of hashes
\* when it is at slot i.
ProbeKnows(at, table, hash, i) ==
  /\ at \in {"probe_hash", "probe_count", "probe_empty", "claim"} => Unpassed(table, hash, i)
  /\ at \in {"probe_hash", "probe_count", "probe_empty"} =>
       \A j \in Slots : Dist(Bucket(hash), j) < Dist(Bucket(hash), i) => table[j] # hash
  /\ at = "probe_empty" => table[i] # hash
  /\ at = "claim" => table[i] = 0 /\ \A j \in Slots : table[j] # hash
  /\ at \in {"probe_count", "count_load", "count_store"} \cup Assigning => table[i] = hash

HandlersKnow ==
  \A h \in Threads :
    pc[h] \in StoreTraceSteps =>
      /\ ProbeKnows(pc[h], hashes, TraceHash[sample[h]], slot[h])
      /\ pc[h] = "count_store" => reg[h] = traces[slot[h]].count
      /\ pc[h] = "assign_frames" => traces[slot[h]].count = 1

PlacesExact == HashesBind /\ HashesPlaced /\ HandlersKnow

TableExact ==
  HashNonZero /\ TracesFit => TracesExact /\ (Sampling => PlacesExact)

(***************************************************************************)
(* The result.  The attach thread copies the counters, sorts, and copies   *)
(* the slots in front.                                                     *)
(***************************************************************************)
CopySteps == {"save_traces", "save_ids", "send"}

Cleared ==
  /\ ap \in Clearing => taken = [o \in Outcomes |-> 0]
  /\ ap \in {"start_traces", "start_methods"} => hashes = NoHashes
  /\ ap = "start_methods" => traces = NoTraces

CopyExact ==
  /\ ap \in {"sort_methods"} \cup SaveSteps => info.calls = calls
  /\ ap \in CopySteps =>
       /\ Len(info.samples) <= MAX_CALLTRACES
       /\ \A k \in DOMAIN info.samples : info.samples[k] = traces[k - 1] /\ traces[k - 1].count > 0
       /\ \A i, j \in Slots : i < j => traces[i].count >= traces[j].count
  /\ ap \in {"save_ids", "send"} =>
       (Len(info.samples) \in Slots => traces[Len(info.samples)].count = 0)

ExactInv ==
  /\ ~overlap => /\ CountersExact
                 /\ ap \notin Clearing => TableExact
                 /\ Cleared
                 /\ CopyExact
  /\ ap \notin CopySteps => info.samples = << >>

\* A step of a handler that no other handler overlaps.
LEMMA Alone ==
  ASSUME TypeInv, SerialInv, ~overlap, NEW h \in Threads, recordSample(h)
  PROVE  /\ \A g \in Threads \ {h} : pc[g] = "idle" /\ pc'[g] = "idle"
         /\ pc[h] # "idle" /\ sample[h] \in Outcomes /\ ap \notin Busy
         /\ UNCHANGED <<sigaction, running, ap, info, taken, overlap>>
<1>1. /\ \A g \in Threads \ {h} : UNCHANGED pc[g]
      /\ pc[h] # "idle" /\ UNCHANGED <<sigaction, running, ap, info, overlap>>
  BY HandlerLocals
<1>2. taken' = taken
  <2>1. PICK from, to \in HandlerPcs : Goto(h, from, to)
    BY HandlerGoes
  <2>2. QED  BY <2>1 DEF Goto, history
<1>3. h \in Handling
  BY <1>1 DEF Handling
<1>4. ap \notin Busy /\ \A g \in Threads \ {h} : pc[g] = "idle"
  BY <1>3 DEF SerialInv, Handling
<1>5. sample[h] \in Outcomes
  BY <1>1 DEF TypeInv, SampleFits
<1>6. QED  BY <1>1, <1>2, <1>4, <1>5

\* What the one running handler owes.
LEMMA OwedAlone ==
  ASSUME NEW h \in Threads, \A g \in Threads \ {h} : pc[g] = "idle" /\ pc'[g] = "idle",
         NEW S, "idle" \notin S, NEW o,
         pc'[h] # "idle" => sample'[h] = sample[h]
  PROVE  /\ Owed(o, S) = IF pc[h] \in S /\ sample[h] = o THEN 1 ELSE 0
         /\ Owed(o, S)' = IF pc'[h] \in S /\ sample[h] = o THEN 1 ELSE 0
<1>1. (\E g \in Threads : pc[g] \in S /\ sample[g] = o) <=> pc[h] \in S /\ sample[h] = o
  OBVIOUS
<1>2. (\E g \in Threads : pc'[g] \in S /\ sample'[g] = o) <=> pc'[h] \in S /\ sample[h] = o
  OBVIOUS
<1>3. QED  BY <1>1, <1>2 DEF Owed

\* A handler keeps its sample until it returns.
LEMMA SampleKept ==
  ASSUME TypeInv, NEW h \in Threads, recordSample(h)
  PROVE  pc'[h] # "idle" => sample'[h] = sample[h]
<1>1. UNCHANGED sample \/ \E from : Return(h, from)
  BY DEF recordSample, storeCallTrace, storeMethod, LoadTotal, StoreTotal, LoadKind,
     StoreKind, locals, ProbeHash, ProbeCount, ProbeEmpty, LoadCount, StoreCount, Claim,
     AssignCount, AssignFrames, ProbeMethod, ProbeNoMethod, LoadMethodCount,
     StoreMethodCount, AssignMethodCount, AssignMethod
<1>2. QED  BY <1>1 DEF Return, Goto, TypeInv, TypeOK

LEMMA OutcomesFinite == IsFiniteSet(Outcomes)
<1>1. IsFiniteSet(Kinds)
  <2>1. Kinds = (({"non_java"} \cup {"gc"}) \cup {"deopt"}) \cup {"unknown"}
    BY DEF Kinds
  <2>2. QED  BY <2>1, FS_Singleton, FS_Union
<1>2. QED  BY <1>1, TablesAssumption, FS_Union DEF Outcomes

LEMMA TotalType ==
  ASSUME TypeInv
  PROVE  Total \in Int
<1>1. taken \in [Outcomes -> Int]
  BY DEF TypeInv, TypeOK
<1>2. PICK g : IsSum(g, taken, Outcomes) /\ Total = g[Outcomes]
  BY <1>1, OutcomesFinite, FoldSum DEF Total
<1>3. QED  BY <1>2 DEF IsSum

LEMMA HandlerCounters ==
  ASSUME TypeInv, SerialInv, ~overlap, CountersExact, NEW h \in Threads, recordSample(h)
  PROVE  CountersExact'
<1>1. PICK from, to \in HandlerPcs :
        /\ <<from, to>> \in HandlerSteps /\ Goto(h, from, to)
        /\ from = "total_load" => LoadTotal(h)
        /\ from = "kind_load" => LoadKind(h)
  BY HandlerGoes
<1>2. /\ \A g \in Threads \ {h} : pc[g] = "idle" /\ pc'[g] = "idle"
      /\ sample[h] \in Outcomes /\ UNCHANGED taken
  BY Alone
<1>3. pc[h] = from /\ pc'[h] = to /\ from # "idle"
  BY <1>1 DEF Goto, TypeInv, TypeOK, HandlerSteps
<1>4. to # "idle" => sample'[h] = sample[h]
  BY <1>3, SampleKept
<1>5. "idle" \notin BeforeTotal /\ "idle" \notin BeforeKind
  BY DEF BeforeTotal, BeforeKind, KindSteps
<1>6. /\ TotalOwed = IF from \in BeforeTotal THEN 1 ELSE 0
      /\ TotalOwed' = IF to \in BeforeTotal THEN 1 ELSE 0
  BY <1>2, <1>3, <1>5 DEF TotalOwed
<1>7. \A k \in Kinds :
        /\ Owed(k, BeforeKind) = IF from \in BeforeKind /\ sample[h] = k THEN 1 ELSE 0
        /\ Owed(k, BeforeKind)' = IF to \in BeforeKind /\ sample[h] = k THEN 1 ELSE 0
  BY <1>2, <1>3, <1>4, <1>5, OwedAlone
<1>8. /\ calls["total"] = Total - TotalOwed
      /\ \A k \in Kinds : calls[k] = taken[k] - Owed(k, BeforeKind)
      /\ from = "total_store" => reg[h] = calls["total"]
      /\ from = "kind_store" => reg[h] = calls[sample[h]]
      /\ taken[sample[h]] > 0
  BY <1>3 DEF CountersExact
<1>9. Total \in Int /\ Total' = Total
  BY <1>2, TotalType DEF Total
<1>10. /\ calls \in [Counters -> Nat] /\ reg \in [Threads -> Nat] /\ taken \in [Outcomes -> Nat]
       /\ "total" \in Counters /\ "total" \notin Kinds
       /\ Kinds \subseteq Counters /\ Kinds \subseteq Outcomes /\ Kinds \cap Traces = {}
  BY TablesAssumption DEF TypeInv, TypeOK, Counters, Kinds, Outcomes
<1>11. SUFFICES /\ calls'["total"] = Total' - TotalOwed'
                /\ \A k \in Kinds : calls'[k] = taken'[k] - Owed(k, BeforeKind)'
                /\ to = "total_store" => reg'[h] = calls'["total"]
                /\ to = "kind_store" => reg'[h] = calls'[sample'[h]]
                /\ to # "idle" => taken'[sample'[h]] > 0
  BY <1>2, <1>3 DEF CountersExact
<1>12. to # "idle" => taken'[sample'[h]] > 0
  BY <1>2, <1>4, <1>8
<1>13. CASE from = "total_load"
  <2>1. to = "total_store" /\ calls' = calls /\ reg'[h] = calls["total"]
    BY <1>1, <1>10, <1>13 DEF LoadTotal, Load, HandlerSteps
  <2>2. TotalOwed' = TotalOwed /\ \A k \in Kinds : Owed(k, BeforeKind)' = Owed(k, BeforeKind)
    BY <1>6, <1>7, <1>13, <2>1 DEF BeforeTotal, BeforeKind
  <2>3. QED  BY <1>2, <1>8, <1>9, <1>12, <2>1, <2>2
<1>14. CASE from = "total_store"
  <2>1. StoreTotal(h)
    BY <1>3, <1>14 DEF recordSample, storeCallTrace, storeMethod, LoadTotal, LoadKind,
       StoreKind, ProbeHash, ProbeCount, ProbeEmpty, LoadCount, StoreCount, Claim,
       AssignCount, AssignFrames, ProbeMethod, ProbeNoMethod, LoadMethodCount,
       StoreMethodCount, AssignMethodCount, AssignMethod, Return, Goto
  <2>2. /\ calls' = [calls EXCEPT !["total"] = reg[h] + 1]
        /\ \/ sample[h] \in Kinds /\ to = "kind_load"
           \/ sample[h] \in Traces /\ to = "probe_hash"
    BY <1>3, <2>1 DEF StoreTotal, Goto, TypeInv, TypeOK
  <2>3. TotalOwed = 1 /\ TotalOwed' = 0
    BY <1>6, <1>14, <2>2 DEF BeforeTotal
  <2>4. \A k \in Kinds : Owed(k, BeforeKind)' = Owed(k, BeforeKind)
    BY <1>7, <1>10, <1>14, <2>2 DEF BeforeTotal, BeforeKind, KindSteps
  <2>5. calls'["total"] = calls["total"] + 1 /\ \A k \in Kinds : calls'[k] = calls[k]
    BY <1>8, <1>10, <1>14, <2>2
  <2>6. calls'["total"] = Total' - TotalOwed'
    BY <1>8, <1>9, <2>3, <2>5
  <2>7. QED  BY <1>2, <1>8, <1>12, <2>2, <2>4, <2>5, <2>6
<1>15. CASE from = "kind_load"
  <2>1. to = "kind_store" /\ calls' = calls /\ reg'[h] = calls[sample[h]]
    BY <1>1, <1>10, <1>15 DEF LoadKind, Load, HandlerSteps
  <2>2. TotalOwed' = TotalOwed /\ \A k \in Kinds : Owed(k, BeforeKind)' = Owed(k, BeforeKind)
    BY <1>6, <1>7, <1>15, <2>1 DEF BeforeTotal, BeforeKind, KindSteps
  <2>3. QED  BY <1>2, <1>4, <1>8, <1>9, <1>12, <2>1, <2>2
<1>16. CASE from = "kind_store"
  <2>1. StoreKind(h)
    BY <1>3, <1>16 DEF recordSample, storeCallTrace, storeMethod, LoadTotal, LoadKind,
       StoreTotal, ProbeHash, ProbeCount, ProbeEmpty, LoadCount, StoreCount, Claim,
       AssignCount, AssignFrames, ProbeMethod, ProbeNoMethod, LoadMethodCount,
       StoreMethodCount, AssignMethodCount, AssignMethod, Return, Goto
  <2>2. calls' = [calls EXCEPT ![sample[h]] = reg[h] + 1] /\ to = "idle"
    BY <1>3, <2>1 DEF StoreKind, Return, Goto, TypeInv, TypeOK
  <2>3. sample[h] \in Kinds
    BY <1>3, <1>16 DEF TypeInv, SampleFits, KindSteps
  <2>4. TotalOwed = 0 /\ TotalOwed' = 0
    BY <1>6, <1>16, <2>2 DEF BeforeTotal
  <2>5. \A k \in Kinds : /\ Owed(k, BeforeKind) = IF sample[h] = k THEN 1 ELSE 0
                         /\ Owed(k, BeforeKind)' = 0
    BY <1>5, <1>7, <1>16, <2>2 DEF BeforeKind, KindSteps
  <2>6. /\ calls'["total"] = calls["total"]
        /\ calls'[sample[h]] = calls[sample[h]] + 1
        /\ \A k \in Kinds \ {sample[h]} : calls'[k] = calls[k]
    BY <1>8, <1>10, <1>16, <2>2, <2>3
  <2>7. \A k \in Kinds : calls[k] \in Nat /\ taken[k] \in Nat
    BY <1>10
  <2>8. ASSUME NEW k \in Kinds
        PROVE  calls'[k] = taken'[k] - Owed(k, BeforeKind)'
    <3>1. CASE k = sample[h]
      BY <1>2, <1>8, <2>3, <2>5, <2>6, <2>7, <3>1
    <3>2. CASE k # sample[h]
      BY <1>2, <1>8, <2>5, <2>6, <2>7, <3>2
    <3>3. QED  BY <3>1, <3>2
  <2>9. QED  BY <1>8, <1>9, <2>2, <2>4, <2>6, <2>8
<1>17. CASE from \notin {"total_load", "total_store", "kind_load", "kind_store"}
  <2>1. UNCHANGED calls
    BY <1>3, <1>17 DEF recordSample, storeCallTrace, storeMethod, LoadTotal, LoadKind,
       StoreTotal, StoreKind, ProbeHash, ProbeCount, ProbeEmpty, LoadCount, StoreCount, Claim,
       AssignCount, AssignFrames, ProbeMethod, ProbeNoMethod, LoadMethodCount,
       StoreMethodCount, AssignMethodCount, AssignMethod, Return, Goto, tables
  <2>2. from \notin BeforeKind /\ to \notin BeforeKind
    BY <1>1, <1>17 DEF HandlerSteps, BeforeKind, BeforeTotal, KindSteps
  <2>3. from \notin BeforeTotal /\ to \notin BeforeTotal /\ to \notin {"total_store", "kind_store"}
    BY <2>2 DEF BeforeKind, BeforeTotal, KindSteps
  <2>4. QED  BY <1>2, <1>6, <1>7, <1>8, <1>9, <1>12, <2>1, <2>2, <2>3
<1>18. QED  BY <1>13, <1>14, <1>15, <1>16, <1>17
-----------------------------------------------------------------------------
(***************************************************************************)
(* The loop of storeCallTrace visits the slots in the order of their       *)
(* distance from the bucket, and is back there after all of them.          *)
(***************************************************************************)
LEMMA DistNext ==
  ASSUME NEW b \in Slots, NEW s \in Slots, NEW j \in Slots
  PROVE  /\ NextSlot(s) = b => Dist(b, j) <= Dist(b, s)
         /\ NextSlot(s) # b => Dist(b, NextSlot(s)) = Dist(b, s) + 1
<1>1. CASE s + 1 = MAX_CALLTRACES
  BY <1>1, TablesAssumption DEF Slots, Dist, NextSlot
<1>2. CASE s + 1 # MAX_CALLTRACES
  BY <1>2, TablesAssumption DEF Slots, Dist, NextSlot
<1>3. QED  BY <1>1, <1>2
-----------------------------------------------------------------------------
(***************************************************************************)
(* storeCallTrace on the one running thread h, with the trace t at slot s. *)
(***************************************************************************)
\* What holds of the handler and the tables before each of its steps.
InTable(h) ==
  /\ TypeInv /\ SerialInv /\ ~overlap /\ CountersExact /\ HashNonZero /\ TracesFit
  /\ TracesExact /\ PlacesExact
  /\ recordSample(h)

\* Assigning is a matter of h alone.
LEMMA WritingAlone ==
  ASSUME NEW h \in Threads, InTable(h), NEW i
  PROVE  /\ Writing(i) <=> pc[h] \in Assigning /\ slot[h] = i
         /\ Writing(i)' <=> pc'[h] \in Assigning /\ slot'[h] = i
<1>1. \A g \in Threads \ {h} : pc[g] = "idle" /\ pc'[g] = "idle"
  BY Alone DEF InTable
<1>2. "idle" \notin Assigning
  BY DEF Assigning
<1>3. QED  BY <1>1, <1>2 DEF Writing

LEMMA CountedAlone ==
  ASSUME NEW h \in Threads, InTable(h)
  PROVE  \A t \in Traces :
           /\ Counted(t) \in Nat
           /\ Counted(t) = taken[t] - IF pc[h] \in StoreSteps /\ sample[h] = t THEN 1 ELSE 0
           /\ Counted(t)' = taken[t] - IF pc'[h] \in StoreSteps /\ sample[h] = t THEN 1 ELSE 0
<1>1. SUFFICES ASSUME NEW t \in Traces
               PROVE  /\ Counted(t) \in Nat
                      /\ Counted(t) = taken[t] - IF pc[h] \in StoreSteps /\ sample[h] = t THEN 1 ELSE 0
                      /\ Counted(t)' = taken[t] - IF pc'[h] \in StoreSteps /\ sample[h] = t THEN 1 ELSE 0
  OBVIOUS
<1>2. /\ \A g \in Threads \ {h} : pc[g] = "idle" /\ pc'[g] = "idle"
      /\ taken' = taken /\ pc[h] # "idle"
  BY Alone DEF InTable
<1>3. pc'[h] # "idle" => sample'[h] = sample[h]
  BY SampleKept DEF InTable
<1>4. "idle" \notin StoreSteps
  BY DEF StoreSteps, BeforeTotal, StoreTraceSteps
<1>5. /\ Owed(t, StoreSteps) = IF pc[h] \in StoreSteps /\ sample[h] = t THEN 1 ELSE 0
      /\ Owed(t, StoreSteps)' = IF pc'[h] \in StoreSteps /\ sample[h] = t THEN 1 ELSE 0
  BY <1>2, <1>3, <1>4, OwedAlone
<1>6. taken[t] \in Nat /\ (sample[h] = t => taken[t] > 0)
  BY <1>2 DEF InTable, TypeInv, TypeOK, Outcomes, CountersExact
<1>7. QED  BY <1>2, <1>5, <1>6 DEF Counted

\* A step that moves neither tables nor counts keeps what they hold.
LEMMA TableKept ==
  ASSUME TracesExact, HashesBind, HashesPlaced, UNCHANGED <<hashes, traces>>,
         \A i \in Slots : Writing(i)' = Writing(i),
         \A t \in Traces : Counted(t)' = Counted(t)
  PROVE  TracesExact' /\ HashesBind' /\ HashesPlaced'
<1>1. \A i \in Slots : \A t : Listed(i, t)' <=> Listed(i, t)
  BY DEF Listed
<1>2. TracesExact'
  BY <1>1 DEF TracesExact
<1>3. HashesBind' /\ HashesPlaced'
  BY DEF HashesBind, HashesPlaced, Unpassed
<1>4. QED  BY <1>2, <1>3

\* The slots a handler can find, when it is writing none.
LEMMA SlotFacts ==
  ASSUME NEW h \in Threads, InTable(h), NEW i \in Slots, ~Writing(i)
  PROVE  /\ traces[i].count > 0 =>
              /\ traces[i].trace \in Traces /\ Listed(i, traces[i].trace)
              /\ hashes[i] = TraceHash[traces[i].trace]
         /\ hashes[i] # 0 => traces[i].count > 0
         /\ hashes[i] = 0 => traces[i].count = 0
         /\ \A t \in Traces : hashes[i] = TraceHash[t] => Listed(i, t)
<1>1. traces[i].count \in Nat
  BY DEF InTable, TypeInv, TypeOK, TraceSlot
<1>2. traces[i].count > 0 =>
        /\ traces[i].trace \in Traces /\ Listed(i, traces[i].trace)
        /\ hashes[i] = TraceHash[traces[i].trace]
  BY DEF InTable, TracesExact, PlacesExact, HashesBind, Listed
<1>3. ~(traces[i].count > 0) => hashes[i] = 0
  BY DEF InTable, PlacesExact, HashesBind
<1>4. \A t \in Traces : TraceHash[t] # 0
  BY DEF InTable, HashNonZero
<1>5. \A t \in Traces : hashes[i] = TraceHash[t] => Listed(i, t)
  BY <1>2, <1>3, <1>4, TablesAssumption
<1>6. QED  BY <1>1, <1>2, <1>3, <1>4, <1>5

\* The table is never full of other traces while a handler looks for its own.
LEMMA RoomForTrace ==
  ASSUME NEW h \in Threads, InTable(h), pc[h] = "probe_empty",
         \A i \in Slots : hashes[i] # 0 /\ hashes[i] # TraceHash[sample[h]]
  PROVE  FALSE
<1> DEFINE t == sample[h]
           R == { u \in Traces : taken[u] > 0 }
           f == [i \in Slots |-> traces[i].trace]
<1>1. t \in Traces /\ taken[t] > 0
  BY DEF InTable, TypeInv, SampleFits, StoreTraceSteps, CountersExact
<1>2. ASSUME NEW i \in Slots
      PROVE  /\ traces[i].trace \in R \ {t} /\ Listed(i, traces[i].trace)
             /\ hashes[i] = TraceHash[traces[i].trace]
  <2>1. ~Writing(i)
    BY WritingAlone DEF Assigning
  <2>2. /\ traces[i].trace \in Traces /\ Listed(i, traces[i].trace)
        /\ hashes[i] = TraceHash[traces[i].trace] /\ traces[i].count > 0
    BY <2>1, SlotFacts
  <2>3. traces[i].count = Counted(traces[i].trace)
    BY <2>2 DEF InTable, TracesExact
  <2>4. traces[i].trace # t
    BY <2>2
  <2>5. Counted(traces[i].trace) = taken[traces[i].trace]
    <3>1. taken[traces[i].trace] \in Nat
      BY <2>2 DEF InTable, TypeInv, TypeOK, Outcomes
    <3>2. QED  BY <2>2, <2>4, <3>1, CountedAlone
  <2>6. QED  BY <2>2, <2>3, <2>4, <2>5
<1>3. f \in [Slots -> R \ {t}]
  BY <1>2
<1>4. \A i, j \in Slots : f[i] = f[j] => i = j
  BY <1>2 DEF InTable, TracesExact
<1>5. IsFiniteSet(R) /\ t \in R
  BY <1>1, TablesAssumption, FS_Subset
<1>6. Cardinality(R) <= MAX_CALLTRACES
  BY DEF InTable, TracesFit
<1> HIDE DEF R, f, t
<1>7. QED  BY <1>3, <1>4, <1>5, <1>6, FullTable

\* The steps that store nothing in the table of traces.
LEMMA QuietTable ==
  ASSUME NEW h \in Threads, InTable(h),
         \/ LoadTotal(h) \/ StoreTotal(h) \/ LoadKind(h) \/ StoreKind(h)
         \/ ProbeHash(h) \/ ProbeCount(h) \/ ProbeEmpty(h) \/ LoadCount(h)
         \/ storeMethod(h)
  PROVE  TracesExact' /\ HashesBind' /\ HashesPlaced'
<1> DEFINE Quiet(from, to) ==
             /\ from \notin Assigning /\ to \notin Assigning
             /\ from \in StoreSteps <=> to \in StoreSteps
<1> USE DEF StoreSteps, BeforeTotal, StoreTraceSteps, Assigning
<1>1. UNCHANGED <<hashes, traces>>
  BY DEF LoadTotal, StoreTotal, LoadKind, StoreKind, ProbeHash, ProbeCount, ProbeEmpty, LoadCount,
     storeMethod, ProbeMethod, ProbeNoMethod, LoadMethodCount, StoreMethodCount,
     AssignMethodCount, AssignMethod, tables
<1>2. /\ pc[h] \notin Assigning /\ pc'[h] \notin Assigning
      /\ \A t \in Traces : pc[h] \in StoreSteps /\ sample[h] = t <=> pc'[h] \in StoreSteps /\ sample[h] = t
  <2>0. pc \in [Threads -> HandlerPcs]
    BY DEF InTable, TypeInv, TypeOK, HandlerPcs
  <2>1. CASE LoadTotal(h) \/ ProbeHash(h) \/ ProbeCount(h) \/ LoadCount(h) \/ LoadKind(h)
    BY <2>0, <2>1 DEF LoadTotal, ProbeHash, ProbeCount, LoadCount, LoadKind, Goto
  <2>2. CASE ProbeEmpty(h)
    BY <2>0, <2>2 DEF ProbeEmpty, Goto
  <2>3. CASE StoreTotal(h)
    BY <2>0, <2>3, TablesAssumption DEF StoreTotal, Goto
  <2>4. CASE StoreKind(h)
    BY <2>0, <2>4 DEF StoreKind, Return, Goto
  <2>5. CASE storeMethod(h)
    BY <2>0, <2>5 DEF storeMethod, ProbeMethod, ProbeNoMethod, LoadMethodCount, StoreMethodCount,
       AssignMethodCount, AssignMethod, Return, Goto
  <2>6. QED  BY <2>1, <2>2, <2>3, <2>4, <2>5
<1>3. \A i \in Slots : Writing(i)' = Writing(i)
  BY <1>2, WritingAlone DEF Writing
<1>4. \A t \in Traces : Counted(t)' = Counted(t)
  BY <1>2, CountedAlone
<1>5. QED  BY <1>1, <1>3, <1>4, TableKept DEF InTable, PlacesExact

\* What the loop of storeCallTrace finds out.
LEMMA ProbeLearns ==
  ASSUME NEW h \in Threads, InTable(h),
         ProbeHash(h) \/ ProbeCount(h) \/ ProbeEmpty(h) \/ LoadCount(h)
  PROVE  /\ sample[h] \in Traces /\ sample' = sample
         /\ ProbeKnows(pc'[h], hashes, TraceHash[sample[h]], slot'[h])
         /\ UNCHANGED <<hashes, traces>>
         /\ pc'[h] = "count_store" => reg'[h] = traces[slot[h]].count /\ slot' = slot
         /\ pc'[h] # "assign_frames"
<1> DEFINE hash == TraceHash[sample[h]]
           s == slot[h]
           b == Bucket(hash)
<1>1. /\ pc \in [Threads -> HandlerPcs] /\ slot \in [Threads -> Slots] /\ reg \in [Threads -> Nat]
      /\ hashes \in [Slots -> Nat] /\ traces \in [Slots -> TraceSlot] /\ s \in Slots
  BY DEF InTable, TypeInv, TypeOK, HandlerPcs
<1>2. /\ pc[h] \in {"probe_hash", "probe_count", "probe_empty", "count_load"}
      /\ UNCHANGED <<hashes, traces, sample>>
  BY DEF ProbeHash, ProbeCount, ProbeEmpty, LoadCount, Goto, tables, locals
<1>3. pc[h] \in StoreTraceSteps
  BY <1>2 DEF StoreTraceSteps
<1>4. sample[h] \in Traces /\ b \in Slots /\ hash \in Nat /\ hash # 0
  <2>1. sample[h] \in Traces
    BY <1>3 DEF InTable, TypeInv, SampleFits
  <2>2. QED  BY <2>1, HashType DEF InTable, HashNonZero, hashCallTrace
<1>5. ProbeKnows(pc[h], hashes, hash, s)
  BY <1>3 DEF InTable, PlacesExact, HandlersKnow
<1>6. ~Writing(s) /\ \A j \in Slots : ~Writing(j)
  BY <1>1, <1>2, WritingAlone DEF Assigning
<1>7. CASE ProbeHash(h)
  <2>1. /\ pc[h] = "probe_hash" /\ slot' = slot
        /\ pc'[h] = IF hashes[s] = hash THEN "probe_count" ELSE "probe_empty"
    BY <1>1, <1>7 DEF ProbeHash, Goto, locals, hashCallTrace
  <2>2. ProbeKnows(pc'[h], hashes, hash, s)
    BY <1>5, <2>1 DEF ProbeKnows, Assigning
  <2>3. QED  BY <1>2, <1>4, <2>1, <2>2
<1>8. CASE ProbeCount(h)
  <2>1. /\ pc[h] = "probe_count" /\ slot' = slot
        /\ pc'[h] = IF traces[s].count > 0 THEN "count_load" ELSE "probe_empty"
    BY <1>1, <1>8 DEF ProbeCount, Goto, locals
  <2>2. hashes[s] = hash
    BY <1>5, <2>1 DEF ProbeKnows
  <2>3. traces[s].count > 0
    BY <1>1, <1>4, <1>6, <2>2, SlotFacts
  <2>4. ProbeKnows(pc'[h], hashes, hash, s)
    BY <2>1, <2>2, <2>3 DEF ProbeKnows, Assigning
  <2>5. QED  BY <1>2, <1>4, <2>1, <2>3, <2>4
<1>9. CASE LoadCount(h)
  <2>1. /\ pc[h] = "count_load" /\ slot' = slot /\ pc'[h] = "count_store"
        /\ reg'[h] = traces[s].count
    BY <1>1, <1>9 DEF LoadCount, Load, Goto
  <2>2. ProbeKnows(pc'[h], hashes, hash, s)
    BY <1>5, <2>1 DEF ProbeKnows, Assigning
  <2>3. QED  BY <1>2, <1>4, <2>1, <2>2
<1>10. CASE ProbeEmpty(h)
  <2>1. /\ \A j \in Slots : Dist(b, j) < Dist(b, s) => hashes[j] # 0 /\ hashes[j] # hash
        /\ hashes[s] # hash /\ pc[h] = "probe_empty"
    <3>1. pc[h] = "probe_empty"
      BY <1>10 DEF ProbeEmpty, Goto
    <3>2. QED  BY <1>5, <3>1 DEF ProbeKnows, Unpassed
  <2>2. \A j \in Slots : Dist(b, j) \in Nat /\ (Dist(b, j) = Dist(b, s) => j = s)
    BY <1>1, <1>4, DistFacts
  <2>3. CASE hashes[s] = 0
    <3>1. pc'[h] = "claim" /\ slot' = slot
      BY <1>1, <1>10, <2>3 DEF ProbeEmpty, Goto
    <3>2. ASSUME NEW j \in Slots, hashes[j] = hash
          PROVE  FALSE
      <4>1. ~(Dist(b, s) < Dist(b, j))
        BY <1>1, <1>4, <2>3, <3>2 DEF InTable, PlacesExact, HashesPlaced, Unpassed
      <4>2. j # s
        BY <2>1, <3>2
      <4>3. Dist(b, j) < Dist(b, s)
        BY <1>1, <2>2, <4>1, <4>2
      <4>4. QED  BY <2>1, <3>2, <4>3
    <3>3. ProbeKnows("claim", hashes, hash, s)
      BY <2>1, <2>3, <3>2 DEF ProbeKnows, Unpassed, Assigning
    <3>4. QED  BY <1>2, <1>4, <3>1, <3>3
  <2>4. CASE hashes[s] # 0
    <3>1. /\ slot'[h] = NextSlot(s)
          /\ pc'[h] = IF NextSlot(s) = b THEN "claim" ELSE "probe_hash"
      BY <1>1, <1>10, <2>4 DEF ProbeEmpty, SetSlot, Goto, hashCallTrace
    <3>2. ASSUME NextSlot(s) = b
          PROVE  FALSE
      <4>1. \A j \in Slots : Dist(b, j) <= Dist(b, s)
        BY <1>1, <1>4, <3>2, DistNext
      <4>2. \A j \in Slots : hashes[j] # 0 /\ hashes[j] # hash
        BY <1>1, <2>1, <2>2, <2>4, <4>1
      <4>3. QED  BY <2>1, <4>2, RoomForTrace
    <3>3. Dist(b, NextSlot(s)) = Dist(b, s) + 1
      BY <1>1, <1>4, <3>2, DistNext
    <3>4. \A j \in Slots : Dist(b, j) < Dist(b, NextSlot(s)) => hashes[j] # 0 /\ hashes[j] # hash
      BY <1>1, <2>1, <2>2, <2>4, <3>3
    <3>5. ProbeKnows("probe_hash", hashes, hash, NextSlot(s))
      BY <3>4 DEF ProbeKnows, Unpassed, Assigning
    <3>6. QED  BY <1>2, <1>4, <3>1, <3>2, <3>5
  <2>5. QED  BY <2>3, <2>4
<1>11. QED  BY <1>7, <1>8, <1>9, <1>10

\* ++ of the count of the slot that was found.
LEMMA StoreCountExact ==
  ASSUME NEW h \in Threads, InTable(h), StoreCount(h)
  PROVE  TracesExact' /\ HashesBind' /\ HashesPlaced'
<1>0. PICK t \in Traces, s \in Slots : t = sample[h] /\ s = slot[h]
  <2>1. pc[h] \in StoreTraceSteps
    BY DEF StoreCount, Goto, StoreTraceSteps
  <2>2. QED  BY <2>1 DEF InTable, TypeInv, TypeOK, SampleFits
<1>1. /\ pc[h] = "count_store" /\ pc'[h] = "method_probe" /\ hashes' = hashes
      /\ traces' = [traces EXCEPT ![s].count = reg[h] + 1]
      /\ traces \in [Slots -> TraceSlot] /\ s \in Slots
  BY <1>0 DEF StoreCount, Goto, InTable, TypeInv, TypeOK
<1>2. /\ t \in Traces /\ hashes[s] = TraceHash[t] /\ reg[h] = traces[s].count
  BY <1>0, <1>1 DEF InTable, TypeInv, SampleFits, StoreTraceSteps, PlacesExact, HandlersKnow, ProbeKnows
<1>3. \A i : ~Writing(i) /\ ~Writing(i)'
  BY <1>0, <1>1, WritingAlone DEF Assigning
<1>4. Listed(s, t) /\ traces[s].count = Counted(t)
  <2>1. Listed(s, t)
    BY <1>1, <1>2, <1>3, SlotFacts
  <2>2. QED  BY <1>1, <1>2, <2>1 DEF InTable, TracesExact
<1>5. /\ Counted(t) \in Nat /\ Counted(t)' = Counted(t) + 1
      /\ \A u \in Traces \ {t} : Counted(u)' = Counted(u)
  <2>1. \A u \in Traces : taken[u] \in Nat
    BY DEF InTable, TypeInv, TypeOK, Outcomes
  <2>2. pc[h] \in StoreSteps /\ pc'[h] \notin StoreSteps
    BY <1>1 DEF StoreSteps, StoreTraceSteps, BeforeTotal
  <2>3. QED  BY <1>2, <2>1, <2>2, <1>0, CountedAlone
<1>6. /\ traces'[s].count = Counted(t) + 1 /\ traces'[s].trace = t
      /\ \A i \in Slots \ {s} : traces'[i] = traces[i]
  BY <1>1, <1>2, <1>4 DEF TraceSlot, Listed
<1>7. \A i \in Slots, u \in Traces : Listed(i, u)' <=> Listed(i, u)
  BY <1>3, <1>4, <1>5, <1>6 DEF Listed
<1>8. \A i \in Slots : traces'[i].trace = traces[i].trace /\ (traces'[i].count > 0 <=> traces[i].count > 0)
  BY <1>4, <1>5, <1>6 DEF Listed
<1>9. HashesBind' /\ HashesPlaced'
  BY <1>1, <1>3, <1>8 DEF InTable, PlacesExact, HashesBind, HashesPlaced, Unpassed
<1>10. /\ \A i \in Slots : \A u \in Traces : Listed(i, u) => traces[i].count = Counted(u)
       /\ \A i \in Slots : ~Writing(i) /\ traces[i].count > 0 => traces[i].trace \in Traces
       /\ \A i, j \in Slots : \A u \in Traces : Listed(i, u) /\ Listed(j, u) => i = j
       /\ \A u \in Traces : Counted(u) > 0 => \E i \in Slots : Listed(i, u)
  BY DEF InTable, TracesExact
<1>11. ASSUME NEW i \in Slots, NEW u \in Traces, Listed(i, u)'
       PROVE  traces'[i].count = Counted(u)'
  <2>1. CASE i = s
    BY <1>4, <1>5, <1>6, <1>11, <2>1 DEF Listed
  <2>2. CASE i # s
    <3>1. Listed(i, u) /\ u # t
      BY <1>2, <1>4, <1>7, <1>10, <1>11, <2>2
    <3>2. QED  BY <1>5, <1>6, <1>10, <2>2, <3>1
  <2>3. QED  BY <2>1, <2>2
<1>12. \A u \in Traces : Counted(u)' > 0 => \E i \in Slots : Listed(i, u)'
  BY <1>1, <1>4, <1>5, <1>7, <1>10
<1>13. TracesExact'
  BY <1>3, <1>7, <1>8, <1>10, <1>11, <1>12 DEF TracesExact
<1>14. QED  BY <1>9, <1>13

\* An empty slot is taken for the hash.
LEMMA ClaimExact ==
  ASSUME NEW h \in Threads, InTable(h), Claim(h)
  PROVE  TracesExact' /\ HashesBind' /\ HashesPlaced' /\ slot' = slot
         /\ hashes'[slot[h]] = TraceHash[sample[h]]
<1> DEFINE hash == TraceHash[sample[h]]
           s == slot[h]
<1>1. /\ pc[h] = "claim" /\ pc'[h] = "assign_count" /\ slot' = slot /\ traces' = traces
      /\ hashes' = [hashes EXCEPT ![s] = hash]
      /\ hashes \in [Slots -> Nat] /\ s \in Slots
  BY DEF Claim, Goto, locals, hashCallTrace, InTable, TypeInv, TypeOK
<1>2. /\ sample[h] \in Traces /\ hash # 0
      /\ Unpassed(hashes, hash, s) /\ hashes[s] = 0 /\ \A j \in Slots : hashes[j] # hash
  BY <1>1 DEF InTable, TypeInv, SampleFits, StoreTraceSteps, PlacesExact, HandlersKnow, ProbeKnows,
              HashNonZero
<1>3. \A i : ~Writing(i) /\ (Writing(i)' <=> i = s)
  BY <1>1, WritingAlone DEF Assigning
<1>4. traces[s].count = 0
  BY <1>1, <1>2, <1>3, SlotFacts
<1>5. \A u \in Traces : Counted(u)' = Counted(u)
  BY <1>1, CountedAlone DEF StoreSteps, StoreTraceSteps
<1>6. \A i \in Slots, u \in Traces : Listed(i, u)' <=> Listed(i, u)
  BY <1>1, <1>3, <1>4 DEF Listed
<1>7. TracesExact'
  BY <1>1, <1>3, <1>5, <1>6 DEF InTable, TracesExact
<1>8. hashes'[s] = hash /\ \A i \in Slots \ {s} : hashes'[i] = hashes[i]
  BY <1>1
<1>9. HashesBind'
  BY <1>1, <1>3, <1>8 DEF InTable, PlacesExact, HashesBind
<1>10. ASSUME NEW i \in Slots, hashes'[i] # 0
       PROVE  /\ \A j \in Slots : hashes'[j] = hashes'[i] => j = i
              /\ Unpassed(hashes', hashes'[i], i)
  <2>1. CASE i = s
    BY <1>1, <1>2, <1>8, <2>1 DEF Unpassed
  <2>2. CASE i # s
    <3>1. /\ hashes'[i] = hashes[i] /\ hashes[i] # 0
          /\ \A j \in Slots : hashes[j] = hashes[i] => j = i
          /\ Unpassed(hashes, hashes[i], i)
      BY <1>8, <1>10, <2>2 DEF InTable, PlacesExact, HashesPlaced
    <3>2. QED  BY <1>1, <1>2, <1>8, <2>2, <3>1 DEF Unpassed
  <2>3. QED  BY <2>1, <2>2
<1>11. QED  BY <1>1, <1>7, <1>8, <1>9, <1>10 DEF HashesPlaced

LEMMA AssignCountExact ==
  ASSUME NEW h \in Threads, InTable(h), AssignCount(h)
  PROVE  TracesExact' /\ HashesBind' /\ HashesPlaced' /\ slot' = slot
         /\ hashes'[slot[h]] = TraceHash[sample[h]] /\ traces'[slot[h]].count = 1
<1> DEFINE s == slot[h]
<1>1. /\ pc[h] = "assign_count" /\ pc'[h] = "assign_frames" /\ slot' = slot /\ hashes' = hashes
      /\ traces' = [traces EXCEPT ![s].count = 1]
      /\ traces \in [Slots -> TraceSlot] /\ s \in Slots
  BY DEF AssignCount, Goto, locals, InTable, TypeInv, TypeOK
<1>2. hashes[s] = TraceHash[sample[h]]
  BY <1>1 DEF InTable, StoreTraceSteps, PlacesExact, HandlersKnow, ProbeKnows, Assigning
<1>3. \A i : (Writing(i) <=> i = s) /\ (Writing(i)' <=> i = s)
  BY <1>1, WritingAlone DEF Assigning
<1>4. traces'[s].count = 1 /\ \A i \in Slots \ {s} : traces'[i] = traces[i]
  BY <1>1 DEF TraceSlot
<1>5. \A u \in Traces : Counted(u)' = Counted(u)
  BY <1>1, CountedAlone DEF StoreSteps, StoreTraceSteps
<1>6. \A i \in Slots, u \in Traces : Listed(i, u)' <=> Listed(i, u)
  BY <1>3, <1>4 DEF Listed
<1>7. \A i \in Slots, u \in Traces : Listed(i, u) => traces'[i] = traces[i]
  BY <1>3, <1>4 DEF Listed
<1>8. TracesExact'
  BY <1>3, <1>4, <1>5, <1>6, <1>7 DEF InTable, TracesExact
<1>9. HashesBind' /\ HashesPlaced'
  BY <1>1, <1>3, <1>4 DEF InTable, PlacesExact, HashesBind, HashesPlaced, Unpassed
<1>10. QED  BY <1>1, <1>2, <1>4, <1>8, <1>9

\* The slot is filled: the first sample of its trace.
LEMMA AssignFramesExact ==
  ASSUME NEW h \in Threads, InTable(h), AssignFrames(h)
  PROVE  TracesExact' /\ HashesBind' /\ HashesPlaced'
<1>0. PICK t \in Traces, s \in Slots : t = sample[h] /\ s = slot[h]
  <2>1. pc[h] \in StoreTraceSteps
    BY DEF AssignFrames, Goto, StoreTraceSteps
  <2>2. QED  BY <2>1 DEF InTable, TypeInv, TypeOK, SampleFits
<1>1. /\ pc[h] = "assign_frames" /\ pc'[h] = "method_probe" /\ hashes' = hashes
      /\ traces' = [traces EXCEPT ![s].trace = t]
      /\ traces \in [Slots -> TraceSlot] /\ s \in Slots
  BY <1>0 DEF AssignFrames, Goto, InTable, TypeInv, TypeOK
<1>2. /\ t \in Traces /\ hashes[s] = TraceHash[t] /\ traces[s].count = 1 /\ hashes[s] # 0
  BY <1>0, <1>1 DEF InTable, TypeInv, SampleFits, StoreTraceSteps, PlacesExact, HandlersKnow, ProbeKnows,
              Assigning, HashNonZero
<1>3. \A i : (Writing(i) <=> i = s) /\ ~Writing(i)'
  BY <1>0, <1>1, WritingAlone DEF Assigning
<1>4. \A i \in Slots : ~Listed(i, t)
  <2>1. SUFFICES ASSUME NEW i \in Slots, Listed(i, t) PROVE FALSE
    OBVIOUS
  <2>2. i # s /\ traces[i].count > 0 /\ traces[i].trace = t /\ ~Writing(i)
    BY <1>3, <2>1 DEF Listed
  <2>3. hashes[i] = hashes[s]
    BY <1>2, <2>2, SlotFacts
  <2>4. QED  BY <1>1, <1>2, <2>2, <2>3 DEF InTable, PlacesExact, HashesPlaced
<1>5. Counted(t) = 0 /\ Counted(t)' = 1 /\ \A u \in Traces \ {t} : Counted(u)' = Counted(u)
  <2>1. \A u \in Traces : taken[u] \in Nat
    BY DEF InTable, TypeInv, TypeOK, Outcomes
  <2>2. pc[h] \in StoreSteps /\ pc'[h] \notin StoreSteps
    BY <1>1 DEF StoreSteps, StoreTraceSteps, BeforeTotal
  <2>3. ~(Counted(t) > 0)
    BY <1>2, <1>4 DEF InTable, TracesExact
  <2>4. QED  BY <1>2, <2>1, <2>2, <2>3, <1>0, CountedAlone
<1>6. /\ traces'[s].count = 1 /\ traces'[s].trace = t
      /\ \A i \in Slots \ {s} : traces'[i] = traces[i]
  BY <1>1, <1>2 DEF TraceSlot
<1>7. Listed(s, t)' /\ \A u \in Traces : Listed(s, u)' => u = t
  BY <1>3, <1>6 DEF Listed
<1>8. \A i \in Slots \ {s}, u \in Traces : Listed(i, u)' <=> Listed(i, u)
  BY <1>3, <1>6 DEF Listed
<1>9. \A u \in Traces : ~Listed(s, u)
  BY <1>3 DEF Listed
<1>10. /\ \A i \in Slots : \A u \in Traces : Listed(i, u) => traces[i].count = Counted(u)
       /\ \A i \in Slots : ~Writing(i) /\ traces[i].count > 0 => traces[i].trace \in Traces
       /\ \A i, j \in Slots : \A u \in Traces : Listed(i, u) /\ Listed(j, u) => i = j
       /\ \A u \in Traces : Counted(u) > 0 => \E i \in Slots : Listed(i, u)
  BY DEF InTable, TracesExact
<1>11. \A i \in Slots, u \in Traces : Listed(i, u)' => traces'[i].count = Counted(u)'
  <2>1. ASSUME NEW i \in Slots, NEW u \in Traces, Listed(i, u)'
        PROVE  traces'[i].count = Counted(u)'
    <3>1. CASE i = s
      BY <1>5, <1>6, <1>7, <2>1, <3>1
    <3>2. CASE i # s
      BY <1>4, <1>5, <1>6, <1>8, <1>10, <2>1, <3>2
    <3>3. QED  BY <3>1, <3>2
  <2>2. QED  BY <2>1
<1>12. \A i \in Slots : ~Writing(i)' /\ traces'[i].count > 0 => traces'[i].trace \in Traces
  BY <1>2, <1>3, <1>6, <1>10
<1>13. \A i, j \in Slots : \A u \in Traces : Listed(i, u)' /\ Listed(j, u)' => i = j
  BY <1>4, <1>7, <1>8, <1>10
<1>14. \A u \in Traces : Counted(u)' > 0 => \E i \in Slots : Listed(i, u)'
  BY <1>1, <1>5, <1>7, <1>8, <1>9, <1>10
<1>15. TracesExact'
  BY <1>11, <1>12, <1>13, <1>14 DEF TracesExact
<1>16. HashesBind'
  BY <1>1, <1>2, <1>3, <1>6 DEF InTable, PlacesExact, HashesBind
<1>17. HashesPlaced'
  BY <1>1 DEF InTable, PlacesExact, HashesPlaced, Unpassed
<1>18. QED  BY <1>15, <1>16, <1>17

\* One step of a handler that runs alone.
LEMMA HandlerTable ==
  ASSUME NEW h \in Threads, InTable(h)
  PROVE  TracesExact' /\ PlacesExact'
<1>1. \A g \in Threads \ {h} : pc'[g] = "idle"
  BY Alone DEF InTable
<1>2. ASSUME pc'[h] \in StoreTraceSteps =>
               /\ ProbeKnows(pc'[h], hashes', TraceHash[sample'[h]], slot'[h])
               /\ pc'[h] = "count_store" => reg'[h] = traces'[slot'[h]].count
               /\ pc'[h] = "assign_frames" => traces'[slot'[h]].count = 1
      PROVE  HandlersKnow'
  <2>1. "idle" \notin StoreTraceSteps
    BY DEF StoreTraceSteps
  <2>2. QED  BY <1>1, <1>2, <2>1 DEF HandlersKnow
<1>3. /\ pc \in [Threads -> HandlerPcs] /\ slot \in [Threads -> Slots]
      /\ (pc'[h] # "idle" => sample'[h] = sample[h])
  BY SampleKept DEF InTable, TypeInv, TypeOK, HandlerPcs
<1>4. CASE LoadTotal(h) \/ LoadKind(h) \/ StoreKind(h) \/ storeMethod(h)
  <2>1. pc'[h] \notin StoreTraceSteps
    BY <1>3, <1>4 DEF LoadTotal, LoadKind, StoreKind, storeMethod, ProbeMethod, ProbeNoMethod,
       LoadMethodCount, StoreMethodCount, AssignMethodCount, AssignMethod, Return, Goto,
       StoreTraceSteps
  <2>2. QED  BY <1>2, <1>4, <2>1, QuietTable DEF PlacesExact
<1>5. CASE StoreTotal(h)
  <2>1. ASSUME pc'[h] \in StoreTraceSteps
        PROVE  /\ ProbeKnows(pc'[h], hashes', TraceHash[sample'[h]], slot'[h])
               /\ pc'[h] \notin {"count_store", "assign_frames"}
    <3>1. /\ sample[h] \in Traces /\ pc'[h] = "probe_hash"
          /\ slot'[h] = Bucket(TraceHash[sample[h]]) /\ sample' = sample
      BY <1>3, <1>5, <2>1 DEF StoreTotal, Goto, SetSlot, StoreTraceSteps, hashCallTrace
    <3>2. Bucket(TraceHash[sample[h]]) \in Slots
      BY <3>1, HashType DEF hashCallTrace
    <3>3. \A j \in Slots : ~(Dist(Bucket(TraceHash[sample[h]]), j) < Dist(Bucket(TraceHash[sample[h]]), slot'[h]))
      BY <3>1, <3>2, DistFacts
    <3>4. QED  BY <3>1, <3>3 DEF ProbeKnows, Unpassed, Assigning
  <2>2. QED  BY <1>2, <1>5, <2>1, QuietTable DEF PlacesExact
<1>6. CASE ProbeHash(h) \/ ProbeCount(h) \/ ProbeEmpty(h) \/ LoadCount(h)
  <2>1. /\ sample' = sample
        /\ ProbeKnows(pc'[h], hashes, TraceHash[sample[h]], slot'[h])
        /\ UNCHANGED <<hashes, traces>>
        /\ pc'[h] = "count_store" => reg'[h] = traces[slot[h]].count /\ slot' = slot
        /\ pc'[h] # "assign_frames"
    BY <1>6, ProbeLearns
  <2>2. ProbeKnows(pc'[h], hashes', TraceHash[sample'[h]], slot'[h])
    BY <2>1 DEF ProbeKnows, Unpassed
  <2>3. HandlersKnow'
    BY <1>2, <2>1, <2>2
  <2>4. QED  BY <1>6, <2>3, QuietTable DEF PlacesExact
<1>7. CASE StoreCount(h)
  <2>1. pc'[h] \notin StoreTraceSteps
    BY <1>3, <1>7 DEF StoreCount, Goto, StoreTraceSteps
  <2>2. QED  BY <1>2, <1>7, <2>1, StoreCountExact DEF PlacesExact
<1>8. CASE Claim(h)
  <2>1. pc'[h] = "assign_count"
    BY <1>3, <1>8 DEF Claim, Goto
  <2>2. ProbeKnows(pc'[h], hashes', TraceHash[sample'[h]], slot'[h])
    BY <1>3, <1>8, <2>1, ClaimExact DEF ProbeKnows
  <2>3. QED  BY <1>2, <1>8, <2>1, <2>2, ClaimExact DEF PlacesExact
<1>9. CASE AssignCount(h)
  <2>1. pc'[h] = "assign_frames"
    BY <1>3, <1>9 DEF AssignCount, Goto
  <2>2. ProbeKnows(pc'[h], hashes', TraceHash[sample'[h]], slot'[h])
    BY <1>3, <1>9, <2>1, AssignCountExact DEF ProbeKnows
  <2>3. QED  BY <1>2, <1>9, <2>1, <2>2, AssignCountExact DEF PlacesExact
<1>10. CASE AssignFrames(h)
  <2>1. pc'[h] \notin StoreTraceSteps
    BY <1>3, <1>10 DEF AssignFrames, Goto, StoreTraceSteps
  <2>2. QED  BY <1>2, <1>10, <2>1, AssignFramesExact DEF PlacesExact
<1>11. QED
  BY <1>4, <1>5, <1>6, <1>7, <1>8, <1>9, <1>10 DEF InTable, recordSample, storeCallTrace
-----------------------------------------------------------------------------
(***************************************************************************)
(* The invariant is kept, by handlers and signals first.                   *)
(***************************************************************************)
LEMMA HandlerExact ==
  ASSUME TypeInv, SerialInv, ExactInv, NEW h \in Threads, recordSample(h)
  PROVE  ExactInv'
<1>1. UNCHANGED <<ap, info, overlap, sigaction>> /\ pc[h] # "idle"
  BY HandlerLocals
<1>2. ap' \notin CopySteps => info'.samples = << >>
  BY <1>1 DEF ExactInv
<1>3. SUFFICES ASSUME ~overlap
               PROVE  CountersExact' /\ TableExact' /\ Cleared' /\ CopyExact'
  BY <1>1, <1>2 DEF ExactInv
<1>4. ap \notin Busy /\ UNCHANGED taken
  BY <1>3, Alone
<1>5. Cleared' /\ CopyExact' /\ ap \notin Clearing
  BY <1>1, <1>4 DEF Cleared, CopyExact, CopySteps, Busy, Clearing, SaveSteps
<1>6. CountersExact'
  BY <1>3, HandlerCounters DEF ExactInv
<1>7. ASSUME HashNonZero, TracesFit'
      PROVE  TracesExact' /\ PlacesExact'
  <2>1. TracesFit
    BY <1>4, <1>7 DEF TracesFit
  <2>2. Sampling
    BY <1>1 DEF Sampling, Handling
  <2>3. InTable(h)
    BY <1>3, <1>5, <1>7, <2>1, <2>2 DEF ExactInv, TableExact, InTable
  <2>4. QED  BY <2>3, HandlerTable
<1>8. QED  BY <1>5, <1>6, <1>7 DEF TableExact, HashNonZero

\* More traces taken, fewer that fit.
LEMMA TakenFit ==
  ASSUME TypeInv, NEW o \in Outcomes, taken' = [taken EXCEPT ![o] = @ + 1], TracesFit'
  PROVE  TracesFit
<1> DEFINE R == { t \in Traces : taken[t] > 0 }
           S == { t \in Traces : taken'[t] > 0 }
<1>1. taken \in [Outcomes -> Nat] /\ Traces \subseteq Outcomes
  BY DEF TypeInv, TypeOK, Outcomes
<1>2. R \subseteq S
  BY <1>1
<1>3. IsFiniteSet(S)
  BY TablesAssumption, FS_Subset
<1>4. /\ Cardinality(R) <= Cardinality(S)
      /\ Cardinality(R) \in Nat /\ Cardinality(S) \in Nat
  BY <1>2, <1>3, FS_Subset, FS_CardinalityType
<1>5. Cardinality(S) <= MAX_CALLTRACES
  BY DEF TracesFit
<1> HIDE DEF R, S
<1>6. Cardinality(R) <= MAX_CALLTRACES
  BY <1>4, <1>5, TablesAssumption
<1>7. QED  BY <1>6 DEF TracesFit, R

\* A handler that is entered owes what it was entered for.
LEMMA SignalExact ==
  ASSUME TypeInv, SerialInv, ExactInv, NEW h \in Threads, NEW o \in Produced, sigprofHandler(h, o)
  PROVE  ExactInv'
<1>1. /\ sigaction = "handler" /\ pc[h] = "idle"
      /\ pc' = [pc EXCEPT ![h] = "total_load"]
      /\ sample' = [sample EXCEPT ![h] = o]
      /\ taken' = [taken EXCEPT ![o] = @ + 1]
      /\ overlap' = (overlap \/ Handling # {})
      /\ UNCHANGED <<sigaction, calls, hashes, traces, slot, reg, ap, info>>
  BY DEF sigprofHandler, tables, attach
<1>2. ap \notin Busy
  BY <1>1 DEF SerialInv, HandlerOff, Unarmed
<1>3. ap' \notin CopySteps => info'.samples = << >>
  BY <1>1 DEF ExactInv
<1>4. SUFFICES ASSUME ~overlap, Handling = {}
               PROVE  CountersExact' /\ TableExact' /\ Cleared' /\ CopyExact'
  BY <1>1, <1>3 DEF ExactInv
<1>5. Cleared' /\ CopyExact' /\ ap \notin Clearing
  BY <1>1, <1>2 DEF Cleared, CopyExact, CopySteps, Busy, Clearing, SaveSteps
<1>6. /\ \A g \in Threads : pc[g] = "idle"
      /\ pc'[h] = "total_load" /\ sample'[h] = o /\ \A g \in Threads \ {h} : pc'[g] = "idle"
  <2>1. \A g \in Threads : pc[g] = "idle"
    BY <1>4 DEF Handling
  <2>2. QED  BY <1>1, <2>1 DEF TypeInv, TypeOK
<1>7. /\ o \in Outcomes /\ taken \in [Outcomes -> Nat] /\ Kinds \subseteq Outcomes
      /\ Traces \subseteq Outcomes
  BY ThreadsAssumption DEF TypeInv, TypeOK, Outcomes
<1>8. \A u, S : "idle" \notin S /\ "total_load" \in S =>
        Owed(u, S) = 0 /\ Owed(u, S)' = IF u = o THEN 1 ELSE 0
  BY <1>6 DEF Owed
<1>9. CountersExact'
  <2>1. Total' = Total + 1 /\ Total \in Int
    <3>1. taken \in [Outcomes -> Int]
      BY <1>7
    <3>2. FoldFunction(Plus, 0, [taken EXCEPT ![o] = @ + 1]) = FoldFunction(Plus, 0, taken) + 1
      BY <1>7, <3>1, OutcomesFinite, SumStep
    <3>3. QED  BY <1>1, <3>2, TotalType DEF Total
  <2>2. TotalOwed = 0 /\ TotalOwed' = 1
    BY <1>6 DEF TotalOwed, BeforeTotal
  <2>3. calls'["total"] = Total' - TotalOwed'
    BY <1>1, <1>4, <2>1, <2>2 DEF ExactInv, CountersExact
  <2>4. ASSUME NEW k \in Kinds
        PROVE  calls'[k] = taken'[k] - Owed(k, BeforeKind)'
    <3>1. Owed(k, BeforeKind) = 0 /\ Owed(k, BeforeKind)' = IF k = o THEN 1 ELSE 0
      BY <1>8 DEF BeforeKind, BeforeTotal, KindSteps
    <3>2. calls[k] = taken[k] - Owed(k, BeforeKind) /\ taken[k] \in Nat
      BY <1>4, <1>7 DEF ExactInv, CountersExact
    <3>3. taken'[k] = taken[k] + IF k = o THEN 1 ELSE 0
      BY <1>1, <1>7
    <3>4. QED  BY <1>1, <3>1, <3>2, <3>3
  <2>5. taken'[o] > 0
    BY <1>1, <1>7
  <2>6. QED  BY <1>6, <2>3, <2>4, <2>5 DEF CountersExact
<1>10. ASSUME HashNonZero, TracesFit'
       PROVE  TracesExact' /\ PlacesExact'
  <2>1. TracesFit
    BY <1>1, <1>7, <1>10, TakenFit
  <2>2. TracesExact /\ PlacesExact
    BY <1>1, <1>4, <1>5, <1>10, <2>1 DEF ExactInv, TableExact, Sampling
  <2>3. \A i \in Slots : ~Writing(i) /\ ~Writing(i)'
    BY <1>6 DEF Writing, Assigning
  <2>4. ASSUME NEW t \in Traces
        PROVE  Counted(t)' = Counted(t)
    <3>1. Owed(t, StoreSteps) = 0 /\ Owed(t, StoreSteps)' = IF t = o THEN 1 ELSE 0
      BY <1>8 DEF StoreSteps, BeforeTotal, StoreTraceSteps
    <3>2. taken[t] \in Nat /\ taken'[t] = taken[t] + IF t = o THEN 1 ELSE 0
      BY <1>1, <1>7
    <3>3. QED  BY <3>1, <3>2 DEF Counted
  <2>5. TracesExact' /\ HashesBind' /\ HashesPlaced'
    <3>1. \A i \in Slots : Writing(i)' = Writing(i)
      BY <2>3 DEF Writing
    <3>2. QED  BY <1>1, <2>2, <2>4, <3>1, TableKept DEF PlacesExact
  <2>6. HandlersKnow'
    BY <1>6 DEF HandlersKnow, StoreTraceSteps
  <2>7. QED  BY <2>5, <2>6 DEF PlacesExact
<1>11. QED  BY <1>5, <1>9, <1>10 DEF TableExact, HashNonZero
-----------------------------------------------------------------------------
(***************************************************************************)
(* The attach thread.                                                      *)
(***************************************************************************)
\* A step that touches no handler, no counter and neither table.
LEMMA KeptExact ==
  ASSUME UNCHANGED <<pc, sample, slot, reg, calls, hashes, traces, taken>>
  PROVE  /\ CountersExact => CountersExact'
         /\ TracesExact => TracesExact'
         /\ TableExact /\ (Sampling' => Sampling) => TableExact'
<1>1. \A i : Writing(i)' <=> Writing(i)
  BY DEF Writing
<1>2. \A t, S : Owed(t, S)' = Owed(t, S)
  BY DEF Owed
<1>3. CountersExact => CountersExact'
  BY <1>2 DEF CountersExact, Total, TotalOwed
<1>4. \A t : Counted(t)' = Counted(t)
  BY <1>2 DEF Counted
<1>5. \A i, t : Listed(i, t)' <=> Listed(i, t)
  BY <1>1 DEF Listed
<1>6. TracesExact => TracesExact'
  BY <1>1, <1>4, <1>5 DEF TracesExact
<1>7. PlacesExact => PlacesExact'
  BY <1>1 DEF PlacesExact, HashesBind, HashesPlaced, HandlersKnow
<1>8. TracesFit' => TracesFit
  BY DEF TracesFit
<1>9. QED  BY <1>3, <1>6, <1>7, <1>8 DEF TableExact, HashNonZero

\* Requests and system calls.
LEMMA OffTablesExact ==
  ASSUME ExactInv,
         UNCHANGED <<pc, sample, slot, reg, calls, hashes, traces, taken, overlap, info>>,
         {ap, ap'} \cap (Clearing \cup SaveSteps \cup {"sort_methods"}) = {},
         \/ sigaction' = sigaction /\ ap' # "start_sigaction"
         \/ sigaction' = "default" /\ ap' # "start_sigaction"
         \/ ap = "start_sigaction"
  PROVE  ExactInv'
<1>1. Sampling' => Sampling
  BY DEF Sampling, Handling
<1>2. Cleared' /\ CopyExact' /\ ap \notin Clearing
  BY DEF Cleared, CopyExact, Clearing, SaveSteps, CopySteps
<1>3. info'.samples = << >>
  BY DEF ExactInv, CopySteps, SaveSteps
<1>4. QED  BY <1>1, <1>2, <1>3, KeptExact DEF ExactInv

LEMMA RequestExact ==
  ASSUME ExactInv,
         \/ StartProfiling \/ StopProfiling \/ LeaveLoop \/ stop
         \/ setTimer(TRUE, "start_sigaction", "start_itimer", "reading")
  PROVE  ExactInv'
<1> USE DEF Clearing, SaveSteps
<1>1. CASE StartProfiling \/ StopProfiling \/ LeaveLoop
  <2>1. /\ UNCHANGED <<pc, sample, slot, reg, calls, hashes, traces, taken, overlap, info, sigaction>>
        /\ ap = "reading" /\ ap' \in {"reading", "start_calls", "stop_sigaction", "save_calls", "done"}
    BY <1>1 DEF StartProfiling, StopProfiling, LeaveLoop, Attach, locals, tables
  <2>2. QED  BY <2>1, OffTablesExact
<1>2. CASE stop
  <2>1. /\ UNCHANGED <<pc, sample, slot, reg, calls, hashes, traces, taken, overlap, info>>
        /\ sigaction' \in {"default", sigaction}
        /\ ap \in {"stop_sigaction", "stop_itimer"} /\ ap' \in {"stop_itimer", "save_calls"}
    BY <1>2 DEF stop, setTimer, setSigaction, Attach, locals, tables
  <2>2. QED  BY <2>1, OffTablesExact
<1>3. CASE setTimer(TRUE, "start_sigaction", "start_itimer", "reading")
  <2>1. /\ UNCHANGED <<pc, sample, slot, reg, calls, hashes, traces, taken, overlap, info>>
        /\ \/ ap = "start_sigaction" /\ ap' = "start_itimer"
           \/ ap = "start_itimer" /\ ap' = "reading" /\ sigaction' = sigaction
    BY <1>3 DEF setTimer, setSigaction, Attach, locals, tables
  <2>2. QED  BY <2>1, OffTablesExact
<1>4. QED  BY <1>1, <1>2, <1>3

\* Tables and counters after start(), when no handler ran meanwhile.
LEMMA ZeroedExact ==
  ASSUME Handling = {}, taken = [o \in Outcomes |-> 0]
  PROVE  /\ calls = NoCalls => CountersExact
         /\ hashes = NoHashes /\ traces = NoTraces => TableExact
<1>1. \A h \in Threads : pc[h] = "idle"
  BY DEF Handling
<1>2. /\ TotalOwed = 0 /\ \A o : Owed(o, BeforeKind) = 0 /\ Owed(o, StoreSteps) = 0
      /\ \A i : ~Writing(i)
  BY <1>1 DEF TotalOwed, Owed, Writing, Assigning, BeforeKind, BeforeTotal, KindSteps, StoreSteps,
              StoreTraceSteps
<1>3. Total = 0
  BY OutcomesFinite, SumZero DEF Total
<1>4. \A k \in Kinds : taken[k] = 0 /\ NoCalls[k] = 0
  BY DEF Outcomes, NoCalls, Counters
<1>5. NoCalls["total"] = 0
  BY DEF NoCalls, Counters
<1>6. calls = NoCalls => CountersExact
  BY <1>1, <1>2, <1>3, <1>4, <1>5 DEF CountersExact
<1>7. ASSUME hashes = NoHashes, traces = NoTraces
      PROVE  TracesExact /\ PlacesExact
  <2>1. \A t \in Traces : Counted(t) = 0
    BY <1>2 DEF Counted, Outcomes
  <2>2. \A i \in Slots : traces[i].count = 0 /\ hashes[i] = 0
    BY <1>7 DEF NoHashes, NoTraces, EmptyTrace
  <2>3. \A i \in Slots : \A t : ~Listed(i, t)
    BY <2>2 DEF Listed
  <2>4. TracesExact
    BY <2>1, <2>2, <2>3 DEF TracesExact
  <2>5. PlacesExact
    BY <1>1, <2>2 DEF PlacesExact, HashesBind, HashesPlaced, HandlersKnow, StoreTraceSteps
  <2>6. QED  BY <2>4, <2>5
<1>8. QED  BY <1>6, <1>7 DEF TableExact

LEMMA StartExact ==
  ASSUME TypeInv, SerialInv, ExactInv, start
  PROVE  ExactInv'
<1> USE DEF Clearing, SaveSteps, CopySteps
<1>1. CASE setTimer(TRUE, "start_sigaction", "start_itimer", "reading")
  BY <1>1, RequestExact
<1>2. CASE /\ Attach("start_calls", "start_hashes")
           /\ calls' = NoCalls
           /\ taken' = [o \in Outcomes |-> 0]
           /\ overlap' = (Handling # {})
           /\ UNCHANGED <<sigaction, itimer, running, alive, tables, info>>
  <2>1. /\ ap = "start_calls" /\ ap' = "start_hashes"
        /\ UNCHANGED <<pc, info>>
    BY <1>2 DEF Attach
  <2>2. Handling' = Handling
    BY <2>1 DEF Handling
  <2>3. ~overlap' => CountersExact'
    <3>1. ASSUME Handling' = {}, taken' = [o \in Outcomes |-> 0], calls' = NoCalls
          PROVE  CountersExact'
      <4>1. (Handling = {} /\ taken = [o \in Outcomes |-> 0] /\ calls = NoCalls => CountersExact)'
        BY ZeroedExact, PTL
      <4>2. QED  BY <3>1, <4>1
    <3>2. QED  BY <1>2, <2>2, <3>1
  <2>4. Cleared' /\ CopyExact'
    BY <1>2, <2>1 DEF Cleared, CopyExact
  <2>5. info'.samples = << >>
    BY <2>1 DEF ExactInv
  <2>6. QED  BY <2>1, <2>3, <2>4, <2>5 DEF ExactInv
<1>3. CASE \/ /\ AttachOnTables("start_hashes", "start_traces")
              /\ hashes' = NoHashes
              /\ UNCHANGED <<alive, calls, traces, methods, info>>
           \/ /\ AttachOnTables("start_traces", "start_methods")
              /\ traces' = NoTraces
              /\ UNCHANGED <<alive, calls, hashes, methods, info>>
  <2>1. /\ ap \in Clearing /\ ap' \in {"start_traces", "start_methods"}
        /\ UNCHANGED <<pc, sample, slot, reg, taken, calls, info>>
        /\ overlap' = (overlap \/ Handling # {})
    BY <1>3 DEF AttachOnTables, Attach, locals
  <2>2. ~overlap' => CountersExact'
    <3>1. CountersExact => CountersExact'
      BY <2>1 DEF CountersExact, Total, TotalOwed, Owed
    <3>2. QED  BY <2>1, <3>1 DEF ExactInv
  <2>3. ~overlap' => Cleared'
    BY <1>3, <2>1 DEF ExactInv, Cleared, AttachOnTables, Attach
  <2>4. CopyExact'
    BY <2>1 DEF CopyExact
  <2>5. QED  BY <2>1, <2>2, <2>3, <2>4 DEF ExactInv
<1>4. CASE /\ AttachOnTables("start_methods", "start_sigaction")
           /\ methods' = NoMethods
           /\ UNCHANGED <<alive, calls, hashes, traces, info>>
  <2>1. /\ ap = "start_methods" /\ ap' = "start_sigaction"
        /\ UNCHANGED <<pc, sample, slot, reg, taken, calls, hashes, traces, info>>
        /\ overlap' = (overlap \/ Handling # {})
    BY <1>4 DEF AttachOnTables, Attach, locals
  <2>2. ASSUME ~overlap'
        PROVE  CountersExact' /\ TableExact'
    <3>1. /\ CountersExact /\ Handling = {} /\ taken = [o \in Outcomes |-> 0]
          /\ hashes = NoHashes /\ traces = NoTraces
      BY <2>1, <2>2 DEF ExactInv, Cleared
    <3>2. CountersExact'
      BY <2>1, <3>1, KeptExact
    <3>3. Handling' = {} /\ taken' = [o \in Outcomes |-> 0] /\ hashes' = NoHashes /\ traces' = NoTraces
      BY <2>1, <3>1 DEF Handling
    <3>4. (Handling = {} /\ taken = [o \in Outcomes |-> 0] /\ hashes = NoHashes /\ traces = NoTraces
             => TableExact)'
      BY ZeroedExact, PTL
    <3>5. QED  BY <3>2, <3>3, <3>4
  <2>3. Cleared' /\ CopyExact'
    BY <2>1 DEF Cleared, CopyExact
  <2>4. QED  BY <2>1, <2>2, <2>3 DEF ExactInv
<1>5. QED  BY <1>1, <1>2, <1>3, <1>4 DEF start
-----------------------------------------------------------------------------
(***************************************************************************)
(* The result.                                                             *)
(***************************************************************************)
ResultSteps == StopSteps \ {"stop_sigaction", "stop_itimer"}

\* A step of writeResult on the tables, when no handler runs.
LEMMA OnTablesExact ==
  ASSUME TypeInv, SerialInv, ExactInv, NEW from \in ResultSteps, NEW to \in ResultSteps,
         AttachOnTables(from, to), UNCHANGED <<calls, hashes>>,
         ~overlap /\ Handling = {} => TableExact' /\ CopyExact',
         to \notin CopySteps => info'.samples = info.samples /\ from \notin CopySteps
  PROVE  ExactInv'
<1>1. /\ UNCHANGED <<pc, sample, slot, reg, taken, sigaction>> /\ ap = from /\ ap' = to
      /\ overlap' = (overlap \/ Handling # {})
  BY DEF AttachOnTables, Attach, locals
<1>2. ap \notin Clearing /\ Cleared'
  BY <1>1 DEF ResultSteps, StopSteps, Clearing, Cleared
<1>3. ASSUME ~overlap'
      PROVE  CountersExact' /\ TableExact' /\ CopyExact'
  <2>1. CountersExact
    BY <1>1, <1>3 DEF ExactInv
  <2>2. CountersExact'
    BY <1>1, <2>1 DEF CountersExact, Total, TotalOwed, Owed
  <2>3. QED  BY <1>1, <1>3, <2>2
<1>4. ap' \notin CopySteps => info'.samples = << >>
  BY <1>1 DEF ExactInv
<1>5. QED  BY <1>2, <1>3, <1>4 DEF ExactInv

\* The table is left as it is.
LEMMA TableLeft ==
  ASSUME ExactInv, ~overlap, NEW from \in ResultSteps, NEW to \in ResultSteps,
         AttachOnTables(from, to), UNCHANGED <<calls, hashes, traces>>
  PROVE  TableExact' /\ CopyExact /\ ap = from /\ ap' = to
<1>1. /\ UNCHANGED <<pc, sample, slot, reg, taken, sigaction>> /\ ap = from /\ ap' = to
  BY DEF AttachOnTables, Attach, locals
<1>2. TableExact /\ CopyExact
  BY <1>1 DEF ExactInv, ResultSteps, StopSteps, Clearing
<1>3. Sampling' => Sampling
  BY <1>1 DEF Sampling, Handling, ResultSteps, StopSteps
<1>4. QED  BY <1>1, <1>2, <1>3, KeptExact

\* Sorting moves the traces and keeps what is listed.
LEMMA SortExact ==
  ASSUME Handling = {}, UNCHANGED <<pc, sample, slot, taken>>, TracesExact,
         traces' \in QSort(traces)
  PROVE  TracesExact'
<1>1. PICK p : Rearranges(p, traces, traces')
  BY QSortPermutes
<1>2. /\ \A i \in Slots : p[i] \in Slots /\ traces'[i] = traces[p[i]]
      /\ \A i, j \in Slots : p[i] = p[j] => i = j
      /\ \A j \in Slots : \E i \in Slots : p[i] = j
  BY <1>1 DEF Rearranges
<1>3. \A i : ~Writing(i) /\ ~Writing(i)'
  BY DEF Writing, Handling, Assigning
<1>4. \A t : Counted(t)' = Counted(t)
  BY DEF Counted, Owed
<1>5. \A i \in Slots : \A t : Listed(i, t)' <=> Listed(p[i], t)
  BY <1>2, <1>3 DEF Listed
<1>6. /\ \A i \in Slots : \A t \in Traces : Listed(i, t) => traces[i].count = Counted(t)
      /\ \A i \in Slots : ~Writing(i) /\ traces[i].count > 0 => traces[i].trace \in Traces
      /\ \A i, j \in Slots : \A t \in Traces : Listed(i, t) /\ Listed(j, t) => i = j
      /\ \A t \in Traces : Counted(t) > 0 => \E i \in Slots : Listed(i, t)
  BY DEF TracesExact
<1>7. \A i \in Slots : \A t \in Traces : Listed(i, t)' => traces'[i].count = Counted(t)'
  BY <1>2, <1>4, <1>5, <1>6
<1>8. \A i \in Slots : ~Writing(i)' /\ traces'[i].count > 0 => traces'[i].trace \in Traces
  BY <1>2, <1>3, <1>6
<1>9. \A i, j \in Slots : \A t \in Traces : Listed(i, t)' /\ Listed(j, t)' => i = j
  BY <1>2, <1>5, <1>6
<1>10. ASSUME NEW t \in Traces, Counted(t)' > 0
       PROVE  \E i \in Slots : Listed(i, t)'
  <2>1. PICK j \in Slots : Listed(j, t)
    BY <1>4, <1>6, <1>10
  <2>2. PICK i \in Slots : p[i] = j
    BY <1>2
  <2>3. QED  BY <1>5, <2>1, <2>2
<1>11. QED  BY <1>7, <1>8, <1>9, <1>10 DEF TracesExact

LEMMA ResultExact ==
  ASSUME TypeInv, SerialInv, ExactInv, writeResult
  PROVE  ExactInv'
<1> USE DEF SaveSteps, CopySteps
<1>0. /\ info \in InfoType /\ traces \in [Slots -> TraceSlot]
      /\ {"save_calls", "sort_methods", "save_methods", "sort_traces", "save_traces", "save_ids", "send"}
           = ResultSteps
  BY DEF TypeInv, TypeOK, ResultSteps, StopSteps
<1>1. CASE saveCalls
  <2>1. /\ AttachOnTables("save_calls", "sort_methods") /\ UNCHANGED <<calls, hashes, traces>>
        /\ info'.calls = calls /\ info'.samples = info.samples
    BY <1>0, <1>1 DEF saveCalls, tables, InfoType
  <2>2. ~overlap => TableExact' /\ CopyExact'
    BY <1>0, <2>1, TableLeft DEF CopyExact
  <2>3. QED  BY <1>0, <2>1, <2>2, OnTablesExact
<1>2. CASE saveMethods
  <2>1. PICK from \in {"sort_methods", "save_methods"}, to \in {"save_methods", "sort_traces"} :
          /\ AttachOnTables(from, to) /\ UNCHANGED <<calls, hashes, traces>>
          /\ info'.calls = info.calls /\ info'.samples = info.samples
    <3>1. /\ UNCHANGED <<calls, hashes, traces>>
          /\ info'.calls = info.calls /\ info'.samples = info.samples
      BY <1>0, <1>2 DEF saveMethods, tables, InfoType
    <3>2. \/ AttachOnTables("sort_methods", "save_methods")
          \/ AttachOnTables("save_methods", "save_methods")
          \/ AttachOnTables("save_methods", "sort_traces")
      BY <1>2, Zenon DEF saveMethods
    <3>3. QED  BY <3>1, <3>2
  <2>2. ~overlap => TableExact' /\ CopyExact'
    BY <1>0, <2>1, TableLeft DEF CopyExact
  <2>3. QED  BY <1>0, <2>1, <2>2, OnTablesExact
<1>3. CASE /\ AttachOnTables("sort_traces", "save_traces")
           /\ traces' \in QSort(traces)
           /\ UNCHANGED <<alive, calls, hashes, methods, info>>
  <2>1. /\ ap = "sort_traces" /\ ap' = "save_traces"
        /\ UNCHANGED <<pc, sample, slot, taken, sigaction>>
    BY <1>3 DEF AttachOnTables, Attach, locals
  <2>2. ASSUME ~overlap, Handling = {}
        PROVE  TableExact' /\ CopyExact'
    <3>1. ~Sampling'
      BY <2>1, <2>2 DEF Sampling, Handling, SerialInv, HandlerOff, Unarmed, Busy
    <3>2. HashNonZero /\ TracesFit' => TracesExact
      BY <2>1, <2>2 DEF ExactInv, TableExact, TracesFit, Clearing
    <3>3. HashNonZero /\ TracesFit' => TracesExact'
      BY <1>3, <2>1, <2>2, <3>2, SortExact
    <3>4. info'.samples = << >> /\ info'.calls = info.calls /\ info.calls = calls
      BY <1>3, <2>1, <2>2 DEF ExactInv, CopyExact
    <3>5. \A i, j \in Slots : i < j => traces'[i].count >= traces'[j].count
      BY <1>3, QSortPermutes
    <3>6. CopyExact'
      BY <1>3, <2>1, <3>4, <3>5, TablesAssumption DEF CopyExact
    <3>7. QED  BY <3>1, <3>3, <3>6 DEF TableExact, HashNonZero
  <2>3. QED  BY <1>0, <1>3, <2>2, OnTablesExact
<1>4. CASE /\ Len(info.samples) < MAX_CALLTRACES
           /\ traces[Len(info.samples)].count # 0
           /\ AttachOnTables("save_traces", "save_traces")
           /\ info' = [info EXCEPT !.samples = Append(@, traces[Len(info.samples)])]
           /\ UNCHANGED <<alive, calls, tables>>
  <2> DEFINE n == Len(info.samples)
  <2>1. /\ AttachOnTables("save_traces", "save_traces") /\ UNCHANGED <<calls, hashes, traces>>
        /\ info'.calls = info.calls /\ info'.samples = Append(info.samples, traces[n])
        /\ info.samples \in Seq(TraceSlot) /\ n \in Nat /\ n \in Slots
    BY <1>0, <1>4, TablesAssumption DEF tables, InfoType, Slots
  <2>2. ASSUME ~overlap
        PROVE  TableExact' /\ CopyExact'
    <3>1. /\ TableExact' /\ ap = "save_traces" /\ ap' = "save_traces" /\ info.calls = calls
          /\ \A k \in DOMAIN info.samples :
               info.samples[k] = traces[k - 1] /\ traces[k - 1].count > 0
          /\ \A i, j \in Slots : i < j => traces[i].count >= traces[j].count
      BY <1>0, <2>1, <2>2, TableLeft DEF CopyExact
    <3>2. traces[n].count > 0
      BY <1>0, <1>4, <2>1 DEF TraceSlot
    <3>3. /\ Len(info'.samples) = n + 1
          /\ \A k \in 1 .. n : info'.samples[k] = info.samples[k]
          /\ info'.samples[n + 1] = traces[n]
          /\ DOMAIN info'.samples = 1 .. n + 1 /\ DOMAIN info.samples = 1 .. n
      BY <1>0, <2>1
    <3>4. \A k \in DOMAIN info'.samples :
            info'.samples[k] = traces[k - 1] /\ traces[k - 1].count > 0
      <4> HIDE DEF n
      <4>1. SUFFICES ASSUME NEW k \in 1 .. n + 1
                     PROVE  info'.samples[k] = traces[k - 1] /\ traces[k - 1].count > 0
        BY <3>3
      <4>2. CASE k = n + 1
        BY <2>1, <3>2, <3>3, <4>2
      <4>3. CASE k # n + 1
        <5>1. k \in 1 .. n
          BY <2>1, <4>3
        <5>2. QED  BY <3>1, <3>3, <5>1
      <4>4. QED  BY <4>2, <4>3
    <3>5. n + 1 <= MAX_CALLTRACES
      BY <1>4, <2>1, TablesAssumption
    <3>6. QED  BY <2>1, <3>1, <3>3, <3>4, <3>5 DEF CopyExact
  <2>3. QED  BY <1>0, <2>1, <2>2, OnTablesExact
<1>5. CASE /\ Len(info.samples) < MAX_CALLTRACES => traces[Len(info.samples)].count = 0
           /\ AttachOnTables("save_traces", "save_ids")
           /\ UNCHANGED <<alive, calls, tables, info>>
  <2>1. /\ AttachOnTables("save_traces", "save_ids") /\ UNCHANGED <<calls, hashes, traces, info>>
    BY <1>5 DEF tables
  <2>2. Len(info.samples) \in Slots => traces[Len(info.samples)].count = 0
    BY <1>5, TablesAssumption DEF Slots
  <2>3. ~overlap => TableExact' /\ CopyExact'
    BY <1>0, <2>1, <2>2, TableLeft DEF CopyExact
  <2>4. QED  BY <1>0, <2>1, <2>3, OnTablesExact
<1>6. CASE saveMethodIds
  <2>1. /\ AttachOnTables("save_ids", "send") /\ UNCHANGED <<calls, hashes, traces, info>>
    BY <1>6 DEF saveMethodIds, tables
  <2>2. ~overlap => TableExact' /\ CopyExact'
    BY <1>0, <2>1, TableLeft DEF CopyExact
  <2>3. QED  BY <1>0, <2>1, <2>2, OnTablesExact
<1>7. CASE sendResponse
  <2>1. /\ ap = "send" /\ ap' \in {"reading", "done"} /\ info' = NoInfo
        /\ UNCHANGED <<pc, sample, slot, reg, calls, hashes, traces, taken, overlap, sigaction>>
    BY <1>7 DEF sendResponse, Attach, locals, tables
  <2>2. (Sampling' => Sampling) /\ ap \notin Clearing
    BY <2>1 DEF Sampling, Handling, Clearing
  <2>3. Cleared' /\ CopyExact' /\ info'.samples = << >>
    BY <2>1 DEF Cleared, CopyExact, Clearing, NoInfo
  <2>4. QED  BY <2>1, <2>2, <2>3, KeptExact DEF ExactInv
<1>8. QED  BY <1>1, <1>2, <1>3, <1>4, <1>5, <1>6, <1>7 DEF writeResult, saveCallTraces

LEMMA NextExactInv == TypeInv /\ SerialInv /\ ExactInv /\ [Next]_vars => ExactInv'
<1> SUFFICES ASSUME TypeInv, SerialInv, ExactInv, [Next]_vars PROVE ExactInv'
  OBVIOUS
<1>1. CASE \E h \in Threads : recordSample(h)
  BY <1>1, HandlerExact
<1>2. CASE \E h \in Threads, o \in Produced : sigprofHandler(h, o)
  BY <1>2, SignalExact
<1>3. CASE Expire \/ Terminate \/ UNCHANGED vars
  <2>1. UNCHANGED <<pc, sample, slot, reg, calls, hashes, traces, taken, sigaction, ap, info, overlap>>
    BY <1>3 DEF Expire, Terminate, vars, signal, tables, locals, attach, history
  <2>2. Sampling' => Sampling
    BY <2>1 DEF Sampling, Handling
  <2>3. (Cleared => Cleared') /\ (CopyExact => CopyExact')
    BY <2>1 DEF Cleared, CopyExact
  <2>4. QED  BY <2>1, <2>2, <2>3, KeptExact DEF ExactInv
<1>4. CASE StartProfiling \/ StopProfiling \/ LeaveLoop \/ stop
  BY <1>4, RequestExact
<1>5. CASE start
  BY <1>5, StartExact
<1>6. CASE writeResult
  BY <1>6, ResultExact
<1>7. QED  BY <1>1, <1>2, <1>3, <1>4, <1>5, <1>6 DEF Next, Serve

LEMMA InitExactInv == Init => SerialInv /\ ExactInv
<1> SUFFICES ASSUME Init PROVE SerialInv /\ ExactInv
  OBVIOUS
<1>1. Handling = {}
  BY DEF Init, Handling
<1>2. SerialInv
  BY <1>1 DEF Init, SerialInv, HandlerOff, Unarmed, Busy, Clearing, SaveSteps, StartSteps
<1>3. CountersExact /\ TableExact
  BY <1>1, ZeroedExact DEF Init
<1>4. Cleared /\ CopyExact /\ info.samples = << >>
  BY DEF Init, Cleared, CopyExact, Clearing, SaveSteps, CopySteps, NoInfo
<1>5. QED  BY <1>2, <1>3, <1>4 DEF ExactInv

\* What has been copied when the result is sent is what was taken.
LEMMA ResultIsTaken ==
  ASSUME TypeInv, SerialInv, ExactInv
  PROVE  SerialResultExact
<1>1. SUFFICES ASSUME ap = "send", ~overlap
               PROVE  /\ info.calls["total"] = FoldFunction(Plus, 0, taken)
                      /\ \A k \in Kinds : info.calls[k] = taken[k]
                      /\ HashNonZero /\ TracesFit =>
                           \A t \in Traces :
                             { info.samples[i].count : i \in { j \in DOMAIN info.samples :
                                                                info.samples[j].trace = t } }
                               = IF taken[t] > 0 THEN {taken[t]} ELSE {}
  BY DEF SerialResultExact
<1>2. /\ CountersExact /\ TableExact /\ CopyExact
      /\ Handling = {} /\ info.calls = calls
  BY <1>1 DEF ExactInv, SerialInv, CopyExact, Clearing, Busy, SaveSteps
<1>3. \A h \in Threads : pc[h] = "idle"
  BY <1>2 DEF Handling
<1>4. /\ TotalOwed = 0 /\ \A o : Owed(o, BeforeKind) = 0 /\ Owed(o, StoreSteps) = 0
      /\ \A i : ~Writing(i)
  BY <1>3 DEF TotalOwed, Owed, Writing, Assigning, BeforeKind, BeforeTotal, KindSteps, StoreSteps,
              StoreTraceSteps
<1>5. /\ taken \in [Outcomes -> Nat] /\ Kinds \subseteq Outcomes /\ Traces \subseteq Outcomes
      /\ traces \in [Slots -> TraceSlot] /\ info.samples \in Seq(TraceSlot)
  BY DEF TypeInv, TypeOK, Outcomes
<1>6. info.calls["total"] = FoldFunction(Plus, 0, taken)
  BY <1>2, <1>4, TotalType DEF CountersExact, Total
<1>7. \A k \in Kinds : info.calls[k] = taken[k]
  BY <1>2, <1>4, <1>5 DEF CountersExact
<1>8. ASSUME HashNonZero, TracesFit, NEW t \in Traces
      PROVE  { info.samples[i].count : i \in { j \in DOMAIN info.samples :
                                                info.samples[j].trace = t } }
               = IF taken[t] > 0 THEN {taken[t]} ELSE {}
  <2> DEFINE n == Len(info.samples)
  <2>1. /\ n \in Nat /\ DOMAIN info.samples = 1 .. n /\ n <= MAX_CALLTRACES
        /\ \A k \in 1 .. n : info.samples[k] = traces[k - 1] /\ traces[k - 1].count > 0
        /\ \A i, j \in Slots : i < j => traces[i].count >= traces[j].count
        /\ n \in Slots => traces[n].count = 0
    BY <1>1, <1>2, <1>5 DEF CopyExact, CopySteps
  <2>2. \A k \in 1 .. n : k - 1 \in Slots
    BY <2>1, TablesAssumption DEF Slots
  <2>3. /\ \A i \in Slots : Listed(i, t) <=> traces[i].count > 0 /\ traces[i].trace = t
        /\ \A i \in Slots : Listed(i, t) => traces[i].count = taken[t]
        /\ taken[t] > 0 => \E i \in Slots : Listed(i, t)
    <3>1. TracesExact
      BY <1>2, <1>8 DEF TableExact
    <3>2. Counted(t) = taken[t]
      BY <1>4, <1>5 DEF Counted
    <3>3. QED  BY <1>4, <3>1, <3>2 DEF TracesExact, Listed
  <2>4. \A k \in 1 .. n : info.samples[k].trace = t => info.samples[k].count = taken[t] /\ taken[t] > 0
    BY <2>1, <2>2, <2>3
  <2>5. ASSUME taken[t] > 0
        PROVE  \E k \in 1 .. n : info.samples[k].trace = t
    <3>1. PICK i \in Slots : traces[i].count > 0 /\ traces[i].trace = t
      BY <2>3, <2>5
    <3>2. i < n
      <4>1. ASSUME ~(i < n) PROVE FALSE
        <5>1. n \in Slots /\ (n = i \/ n < i)
          BY <2>1, <4>1, TablesAssumption DEF Slots
        <5>2. traces[i].count \in Nat /\ traces[n].count \in Nat
          BY <1>5, <5>1 DEF TraceSlot
        <5>3. QED  BY <2>1, <3>1, <5>1, <5>2
      <4>2. QED  BY <4>1
    <3>3. i + 1 \in 1 .. n /\ (i + 1) - 1 = i
      BY <2>1, <3>2, TablesAssumption DEF Slots
    <3>4. QED  BY <2>1, <3>1, <3>3
  <2>6. taken[t] \in Nat
    BY <1>5
  <2> HIDE DEF n
  <2>7. CASE taken[t] > 0
    BY <2>1, <2>4, <2>5, <2>7
  <2>8. CASE ~(taken[t] > 0)
    BY <2>1, <2>4, <2>8
  <2>9. QED  BY <2>7, <2>8
<1>9. QED  BY <1>6, <1>7, <1>8

\* A result built while no two handlers overlapped, and none overlapped the
\* attach thread's work on the tables, is exact: each sampled trace is listed
\* once, with the number of its samples, and so is the total.
THEOREM SerialResultIsExact == Spec => []SerialResultExact
BY InitExactInv, NextSerialInv, NextExactInv, ResultIsTaken, TypeInvariant, PTL DEF Spec
===============================================================================
