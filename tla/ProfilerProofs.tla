---------------------------- MODULE ProfilerProofs ----------------------------
(***************************************************************************)
(* Proofs about Profiler.tla for every number of slots, every set of       *)
(* traces and methods and every hash function without collisions.          *)
(***************************************************************************)
EXTENDS Profiler, SampleTablesProofs

USE DEF Kinds, Counters, Outcomes
-----------------------------------------------------------------------------
(***************************************************************************)
(* Type correctness.                                                       *)
(***************************************************************************)
LEMMA ZeroedTypes ==
  /\ NoCalls \in [Counters -> Nat]
  /\ NoHashes \in [Slots -> Nat]
  /\ NoTraces \in [Slots -> TraceSlot]
  /\ NoMethods \in [Slots -> MethodSlot]
<1>1. NoCalls \in [Counters -> Nat] /\ NoHashes \in [Slots -> Nat]
  BY DEF NoCalls, NoHashes
<1>2. NoTraces \in [Slots -> TraceSlot]
  BY DEF NoTraces, EmptyTrace, TraceSlot
<1>3. NoMethods \in [Slots -> MethodSlot]
  BY DEF NoMethods, EmptyMethod, MethodSlot, MethodIds
<1>4. QED  BY <1>1, <1>2, <1>3

LEMMA InitTypeOK == Init => TypeOK
<1> SUFFICES ASSUME Init PROVE TypeOK
  OBVIOUS
<1>1. running \in BOOLEAN /\ timer \in BOOLEAN
  BY DEF Init
<1>2. /\ loop \in {"unloaded", "reading", "done", "crashed"}
      /\ \A r \in response : IsResponse(r)
  BY DEF Init
<1>3. recorded \in [Traces -> Nat] /\ topped \in [MethodIds -> Nat]
  BY DEF Init
<1>4. QED  BY <1>1, <1>2, <1>3, ZeroedTypes, Zenon DEF Init, TypeOK

LEMMA StoreCallTraceType ==
  ASSUME TypeOK, NEW t \in Traces, storeCallTrace(t)
  PROVE  hashes' \in [Slots -> Nat] /\ traces' \in [Slots -> TraceSlot]
<1>1. TraceHash[t] \in Nat
  BY TablesAssumption
<1>2. hashes \in [Slots -> Nat] /\ traces \in [Slots -> TraceSlot]
  BY DEF TypeOK
<1>3. PICK s \in Slots :
        \/ /\ traces' = [traces EXCEPT ![s].count = @ + 1]
           /\ UNCHANGED hashes
        \/ /\ hashes' = [hashes EXCEPT ![s] = TraceHash[t]]
           /\ traces' = [traces EXCEPT ![s] = [count |-> 1, trace |-> t]]
  BY DEF storeCallTrace, hashCallTrace
<1>4. QED  BY <1>1, <1>2, <1>3 DEF TraceSlot

LEMMA StoreMethodType ==
  ASSUME TypeOK, NEW m \in MethodIds, storeMethod(m)
  PROVE  methods' \in [Slots -> MethodSlot]
BY DEF TypeOK, storeMethod, MethodSlot

LEMMA RecordSampleType ==
  ASSUME TypeOK, NEW o \in Outcomes, recordSample(o)
  PROVE  TypeOK'
<1>1. calls' \in [Counters -> Nat]
  <2>1. calls \in [Counters -> Nat]
    BY DEF TypeOK
  <2>2. \/ calls' = [calls EXCEPT !["total"] = @ + 1, ![o] = @ + 1]
        \/ calls' = [calls EXCEPT !["total"] = @ + 1]
    BY DEF recordSample
  <2>3. QED  BY <2>1, <2>2
<1>2. /\ hashes' \in [Slots -> Nat]
      /\ traces' \in [Slots -> TraceSlot]
      /\ methods' \in [Slots -> MethodSlot]
      /\ recorded' \in [Traces -> Nat]
      /\ topped' \in [MethodIds -> Nat]
  <2>1. CASE UNCHANGED <<hashes, traces, methods, ghosts>>
    BY <2>1 DEF TypeOK, ghosts
  <2>2. CASE /\ o \in Traces
             /\ storeCallTrace(o)
             /\ storeMethod(TopMethod(o))
             /\ recorded' = [recorded EXCEPT ![o] = @ + 1]
             /\ topped' = [topped EXCEPT ![TopMethod(o)] = @ + 1]
    BY <2>2, StoreCallTraceType, StoreMethodType, TopMethodType DEF TypeOK
  <2>3. QED  BY <2>1, <2>2 DEF recordSample
<1>3. UNCHANGED <<running, timer, loop, response>>
  BY DEF recordSample
<1>4. QED  BY <1>1, <1>2, <1>3 DEF TypeOK, IsResponse

\* The response that writeResult builds from the tables it has sorted.
Result ==
  [ calls       |-> calls,
    methods     |-> saveMethods(methods'),
    samples     |-> saveCallTraces(traces'),
    methodInfos |-> MethodsOfMethods(saveMethods(methods'))
                      \cup MethodsOfTraces(saveCallTraces(traces')) ]

LEMMA WriteResultType ==
  ASSUME TypeOK, loop = "reading", writeResult
  PROVE  /\ calls' \in [Counters -> Nat]
         /\ hashes' \in [Slots -> Nat]
         /\ traces' \in [Slots -> TraceSlot]
         /\ methods' \in [Slots -> MethodSlot]
         /\ loop' \in {"unloaded", "reading", "done", "crashed"}
         /\ \A r \in response' : IsResponse(r)
<1>1. /\ calls' \in [Counters -> Nat] /\ hashes' \in [Slots -> Nat]
      /\ traces' \in [Slots -> TraceSlot] /\ methods' \in [Slots -> MethodSlot]
  BY QSortTraces, QSortMethods DEF TypeOK, writeResult
<1>2. loop' \in {"unloaded", "reading", "done", "crashed"}
  BY DEF writeResult
<1>3. ASSUME NEW table \in [Slots -> MethodSlot]
      PROVE  /\ \E S \in SUBSET Slots : saveMethods(table) \in [S -> MethodSlot]
             /\ MethodsOfMethods(saveMethods(table)) \subseteq MethodIds
  BY ZenonT(60) DEF saveMethods, Saved, MethodsOfMethods, MethodSlot
<1>4. ASSUME NEW table \in [Slots -> TraceSlot]
      PROVE  /\ \E S \in SUBSET Slots : saveCallTraces(table) \in [S -> TraceSlot]
             /\ MethodsOfTraces(saveCallTraces(table)) \subseteq MethodIds
  <2>1. /\ saveCallTraces(table) \in [Saved(table) -> TraceSlot]
        /\ Saved(table) \subseteq Slots
    BY DEF saveCallTraces, Saved
  <2>2. ASSUME NEW t \in Traces \cup {NULL}
        PROVE  FrameMethods(t) \subseteq MethodIds
    BY TablesAssumption DEF FrameMethods, MethodIds
  <2>3. QED  BY <2>1, <2>2 DEF MethodsOfTraces, TraceSlot
<1>5. CASE UNCHANGED response
  BY <1>1, <1>2, <1>5 DEF TypeOK, IsResponse
<1>6. CASE response' = { Result }
  <2>1. IsResponse(Result)
    BY <1>1, <1>3, <1>4 DEF TypeOK, IsResponse, Result
  <2>2. QED  BY <1>1, <1>2, <1>6, <2>1
<1>7. QED  BY <1>5, <1>6 DEF writeResult, Result

LEMMA StartType ==
  ASSUME TypeOK, start
  PROVE  /\ running' \in BOOLEAN /\ timer' \in BOOLEAN
         /\ calls' \in [Counters -> Nat]
         /\ hashes' \in [Slots -> Nat]
         /\ traces' \in [Slots -> TraceSlot]
         /\ methods' \in [Slots -> MethodSlot]
         /\ recorded' \in [Traces -> Nat]
         /\ topped' \in [MethodIds -> Nat]
<1>1. CASE UNCHANGED <<running, tables, timer, ghosts>>
  BY <1>1 DEF TypeOK, tables, ghosts
<1>2. CASE /\ running' = TRUE /\ setTimer(TRUE)
           /\ calls' = NoCalls /\ hashes' = NoHashes
           /\ traces' = NoTraces /\ methods' = NoMethods
           /\ recorded' = [t \in Traces |-> 0] /\ topped' = [m \in MethodIds |-> 0]
  <2>1. running' \in BOOLEAN /\ timer' \in BOOLEAN
    BY <1>2 DEF setTimer
  <2>2. recorded' \in [Traces -> Nat] /\ topped' \in [MethodIds -> Nat]
    BY <1>2
  <2>3. QED  BY <1>2, <2>1, <2>2, ZeroedTypes, Zenon
<1>3. QED  BY <1>1, <1>2, Zenon DEF start

LEMMA NextTypeOK == TypeOK /\ [Next]_vars => TypeOK'
<1> SUFFICES ASSUME TypeOK, [Next]_vars PROVE TypeOK'
  OBVIOUS
<1>1. CASE OnAttach
  BY <1>1 DEF OnAttach, TypeOK, tables, ghosts, IsResponse
<1>2. CASE StartProfiling
  <2>1. UNCHANGED <<loop, response>>
    BY <1>2 DEF StartProfiling
  <2>2. start
    BY <1>2 DEF StartProfiling
  <2>3. QED  BY <2>1, <2>2, StartType DEF TypeOK, IsResponse
<1>3. CASE StopProfiling
  <2>1. running' \in BOOLEAN /\ timer' \in BOOLEAN
    BY <1>3 DEF StopProfiling, stop, setTimer, TypeOK
  <2>2. UNCHANGED <<recorded, topped>>
    BY <1>3 DEF StopProfiling, ghosts
  <2>3. loop = "reading" /\ writeResult
    BY <1>3 DEF StopProfiling
  <2>4. QED  BY <2>1, <2>2, <2>3, WriteResultType DEF TypeOK
<1>4. CASE LeaveLoop
  BY <1>4 DEF LeaveLoop, TypeOK, tables, ghosts, IsResponse
<1>5. CASE \E o \in Outcomes : recordSample(o)
  BY <1>5, RecordSampleType
<1>6. CASE UNCHANGED vars
  BY <1>6 DEF vars, tables, ghosts, TypeOK, IsResponse
<1>7. QED  BY <1>1, <1>2, <1>3, <1>4, <1>5, <1>6 DEF Next

\* Every reachable state of the agent is well typed, for any number of slots.
THEOREM TypeCorrect == Spec => []TypeOK
BY InitTypeOK, NextTypeOK, PTL DEF Spec
-----------------------------------------------------------------------------
(***************************************************************************)
(* Counts.  While the timer is on, the hash stored beside an occupied slot *)
(* is the hash of its trace: this is what makes incrementing the count of  *)
(* a slot with the right hash correct.  The sort breaks it, but only after *)
(* the timer is off, and START clears the tables before the timer is on    *)
(* again.                                                                  *)
(***************************************************************************)
HashBinds ==
  timer =>
    /\ running
    /\ \A i \in Slots : traces[i].count > 0 => hashes[i] = TraceHash[traces[i].trace]

CountInv == NeverOverCounted /\ HashBinds

LEMMA StoreCallTraceCounts ==
  ASSUME TypeOK, CountInv, timer, NEW t \in Traces, storeCallTrace(t),
         recorded' = [recorded EXCEPT ![t] = @ + 1]
  PROVE  \A i \in Slots : traces'[i].count > 0 =>
           /\ traces'[i].trace \in Traces
           /\ traces'[i].count <= recorded'[traces'[i].trace]
           /\ hashes'[i] = TraceHash[traces'[i].trace]
<1>1. PICK s \in Slots :
        IF hashes[s] = TraceHash[t] /\ traces[s].count > 0
          THEN /\ traces' = [traces EXCEPT ![s].count = @ + 1]
               /\ UNCHANGED hashes
          ELSE /\ hashes' = [hashes EXCEPT ![s] = TraceHash[t]]
               /\ traces' = [traces EXCEPT ![s] = [count |-> 1, trace |-> t]]
  BY DEF storeCallTrace, hashCallTrace
<1>2. \A i \in Slots : traces[i].count > 0 =>
        /\ traces[i].trace \in Traces
        /\ traces[i].count <= recorded[traces[i].trace]
        /\ hashes[i] = TraceHash[traces[i].trace]
  BY DEF CountInv, NeverOverCounted, HashBinds, Occupied
<1>3. /\ traces \in [Slots -> TraceSlot] /\ hashes \in [Slots -> Nat]
      /\ recorded \in [Traces -> Nat]
  BY DEF TypeOK
<1>4. \A u \in Traces : recorded'[u] \in Nat /\ recorded'[u] >= recorded[u]
  BY <1>3
<1>5. recorded'[t] = recorded[t] + 1
  BY <1>3
<1>6. CASE hashes[s] = TraceHash[t] /\ traces[s].count > 0
  <2>1. traces[s].trace = t
    BY <1>2, <1>6, TablesAssumption
  <2>2. traces'[s] = [count |-> traces[s].count + 1, trace |-> t]
    BY <1>1, <1>3, <1>6, <2>1 DEF TraceSlot
  <2>3. \A i \in Slots \ {s} : traces'[i] = traces[i]
    BY <1>1, <1>3, <1>6
  <2>4. QED
    BY <1>1, <1>2, <1>3, <1>4, <1>5, <1>6, <2>2, <2>3 DEF TraceSlot
<1>7. CASE ~(hashes[s] = TraceHash[t] /\ traces[s].count > 0)
  <2>1. /\ traces'[s] = [count |-> 1, trace |-> t]
        /\ hashes'[s] = TraceHash[t]
        /\ \A i \in Slots \ {s} : traces'[i] = traces[i] /\ hashes'[i] = hashes[i]
    BY <1>1, <1>3, <1>7
  <2>2. QED
    BY <1>2, <1>3, <1>4, <1>5, <2>1 DEF TraceSlot
<1>8. QED  BY <1>6, <1>7

LEMMA StoreMethodCounts ==
  ASSUME TypeOK, CountInv, NEW m \in MethodIds, storeMethod(m),
         topped' = [topped EXCEPT ![m] = @ + 1]
  PROVE  \A i \in Slots : methods'[i].count > 0 =>
           methods'[i].count <= topped'[methods'[i].method]
<1>1. PICK s \in Slots :
        methods' = IF methods[s].method = m
                     THEN [methods EXCEPT ![s].count = @ + 1]
                     ELSE [methods EXCEPT ![s] = [count |-> 1, method |-> m]]
  BY DEF storeMethod
<1>2. \A i \in Slots : methods[i].count > 0 =>
        methods[i].count <= topped[methods[i].method]
  BY DEF CountInv, NeverOverCounted, Occupied
<1>3. methods \in [Slots -> MethodSlot] /\ topped \in [MethodIds -> Nat]
  BY DEF TypeOK
<1>4. /\ \A n \in MethodIds : topped'[n] \in Nat /\ topped'[n] >= topped[n]
      /\ topped'[m] = topped[m] + 1
  BY <1>3
<1>5. /\ \A i \in Slots \ {s} : methods'[i] = methods[i]
      /\ methods'[s].method = m
      /\ methods'[s].count = IF methods[s].method = m THEN methods[s].count + 1 ELSE 1
  BY <1>1, <1>3 DEF MethodSlot
<1>6. \A i \in Slots : methods[i].count \in Nat /\ methods[i].method \in MethodIds
  BY <1>3 DEF MethodSlot
<1>7. QED  BY <1>2, <1>3, <1>4, <1>5, <1>6

LEMMA RecordSampleCounts ==
  ASSUME TypeOK, CountInv, NEW o \in Outcomes, recordSample(o)
  PROVE  CountInv'
<1>1. CASE UNCHANGED <<hashes, traces, methods, ghosts>>
  BY <1>1 DEF CountInv, NeverOverCounted, HashBinds, Occupied, ghosts, recordSample
<1>2. CASE /\ o \in Traces
           /\ storeCallTrace(o)
           /\ storeMethod(TopMethod(o))
           /\ recorded' = [recorded EXCEPT ![o] = @ + 1]
           /\ topped' = [topped EXCEPT ![TopMethod(o)] = @ + 1]
  <2>1. timer /\ UNCHANGED <<running, timer>>
    BY DEF recordSample
  <2>2. \A i \in Slots : traces'[i].count > 0 =>
          /\ traces'[i].trace \in Traces
          /\ traces'[i].count <= recorded'[traces'[i].trace]
          /\ hashes'[i] = TraceHash[traces'[i].trace]
    BY <1>2, <2>1, StoreCallTraceCounts
  <2>3. \A i \in Slots : methods'[i].count > 0 =>
          methods'[i].count <= topped'[methods'[i].method]
    BY <1>2, StoreMethodCounts, TopMethodType
  <2>4. QED
    BY <2>1, <2>2, <2>3 DEF CountInv, NeverOverCounted, HashBinds, Occupied
<1>3. QED  BY <1>1, <1>2 DEF recordSample

LEMMA WriteResultCounts ==
  ASSUME TypeOK, CountInv, writeResult, UNCHANGED ghosts
  PROVE  NeverOverCounted'
<1>0. traces' \in QSort(traces) /\ methods' \in QSort(methods)
  BY DEF writeResult
<1>1. \A i \in Slots : \E j \in Slots : traces'[i] = traces[j]
  BY <1>0, QSortSlots
<1>2. \A i \in Slots : \E j \in Slots : methods'[i] = methods[j]
  BY <1>0, QSortSlots
<1>3. \A i \in Slots : traces'[i].count > 0 =>
        traces'[i].trace \in Traces /\ traces'[i].count <= recorded'[traces'[i].trace]
  <2>1. recorded' = recorded
    BY DEF ghosts
  <2>2. \A i \in Slots : traces[i].count > 0 =>
          traces[i].trace \in Traces /\ traces[i].count <= recorded[traces[i].trace]
    BY DEF CountInv, NeverOverCounted, Occupied
  <2>3. QED  BY <1>1, <2>1, <2>2
<1>4. \A i \in Slots : methods'[i].count > 0 =>
        methods'[i].count <= topped'[methods'[i].method]
  <2>1. topped' = topped
    BY DEF ghosts
  <2>2. \A i \in Slots : methods[i].count > 0 =>
          methods[i].count <= topped[methods[i].method]
    BY DEF CountInv, NeverOverCounted, Occupied
  <2>3. QED  BY <1>2, <2>1, <2>2
<1>5. QED  BY <1>3, <1>4 DEF NeverOverCounted, Occupied

LEMMA ClearedCounts ==
  ASSUME traces = NoTraces, methods = NoMethods
  PROVE  NeverOverCounted
BY DEF NoTraces, NoMethods, EmptyTrace, EmptyMethod, NeverOverCounted, Occupied

LEMMA StartCounts ==
  ASSUME CountInv, start
  PROVE  CountInv'
<1>1. CASE UNCHANGED <<running, tables, timer, ghosts>>
  BY <1>1 DEF CountInv, NeverOverCounted, HashBinds, Occupied, tables, ghosts
<1>2. CASE /\ running' = TRUE
           /\ traces' = NoTraces /\ methods' = NoMethods
  BY <1>2 DEF CountInv, NeverOverCounted, HashBinds, Occupied,
              NoTraces, NoMethods, EmptyTrace, EmptyMethod
<1>3. QED  BY <1>1, <1>2 DEF start

LEMMA NextCountInv == TypeOK /\ CountInv /\ [Next]_vars => CountInv'
<1> SUFFICES ASSUME TypeOK, CountInv, [Next]_vars PROVE CountInv'
  OBVIOUS
<1>1. CASE StartProfiling
  BY <1>1, StartCounts DEF StartProfiling
<1>2. CASE StopProfiling
  <2>1. ~timer'
    BY <1>2 DEF StopProfiling, stop, setTimer, CountInv, HashBinds
  <2>2. NeverOverCounted'
    BY <1>2, WriteResultCounts DEF StopProfiling
  <2>3. QED  BY <2>1, <2>2 DEF CountInv, HashBinds
<1>3. CASE \E o \in Outcomes : recordSample(o)
  BY <1>3, RecordSampleCounts
<1>4. CASE OnAttach \/ LeaveLoop \/ UNCHANGED vars
  BY <1>4 DEF OnAttach, LeaveLoop, vars, tables, ghosts,
              CountInv, NeverOverCounted, HashBinds, Occupied
<1>5. QED  BY <1>1, <1>2, <1>3, <1>4 DEF Next

LEMMA InitCountInv == Init => CountInv
BY ClearedCounts DEF Init, CountInv, HashBinds

\* No slot of either table ever counts more samples than were taken since
\* START (storeCallTrace, storeMethod), with any hash function that has no
\* collisions, table size and history of evictions.
THEOREM CountsAreSound == Spec => []NeverOverCounted
<1>1. Init => TypeOK /\ CountInv
  BY InitTypeOK, InitCountInv
<1>2. TypeOK /\ CountInv /\ [Next]_vars => (TypeOK /\ CountInv)'
  BY NextTypeOK, NextCountInv
<1>3. CountInv => NeverOverCounted
  BY DEF CountInv
<1>4. QED  BY <1>1, <1>2, <1>3, PTL DEF Spec
-----------------------------------------------------------------------------
(***************************************************************************)
(* The result.  A null id reaches saveMethodIds only from an occupied slot *)
(* of the method table, and such a slot never over-counts.                 *)
(***************************************************************************)
LEMMA WriteResultIds ==
  ASSUME TypeOK, NeverOverCounted', TypeOK',
         NULL \in MethodsOfMethods(saveMethods(methods'))
                   \cup MethodsOfTraces(saveCallTraces(traces'))
  PROVE  topped'[NULL] > 0
<1>1. NULL \notin MethodsOfTraces(saveCallTraces(traces'))
  BY DEF MethodsOfTraces, FrameMethods
<1>2. PICK i \in Saved(methods') : methods'[i].method = NULL
  BY <1>1 DEF MethodsOfMethods, saveMethods
<1>3. i \in Slots /\ methods'[i].count # 0
  BY <1>2 DEF Saved, Slots
<1>4. methods'[i].count \in Nat /\ topped'[NULL] \in Nat
  BY <1>3 DEF TypeOK, MethodSlot, MethodIds
<1>5. methods'[i].count <= topped'[NULL]
  BY <1>2, <1>3, <1>4 DEF NeverOverCounted, Occupied
<1>6. QED  BY <1>3, <1>4, <1>5

\* saveMethodIds asks for the name of a null method id only if a sample of
\* this session had one on top: ids of lower frames are filtered.
THEOREM CrashIsNullTop == Spec => []CrashNeedsNullTop
<1> DEFINE Inv == TypeOK /\ CountInv /\ CrashNeedsNullTop
<1>1. Init => Inv
  BY InitTypeOK, InitCountInv DEF Init, CrashNeedsNullTop
<1>2. Inv /\ [Next]_vars => Inv'
  <2> SUFFICES ASSUME Inv, [Next]_vars PROVE CrashNeedsNullTop'
    BY NextTypeOK, NextCountInv
  <2>1. TypeOK' /\ NeverOverCounted'
    BY NextTypeOK, NextCountInv DEF CountInv
  <2>2. CASE StopProfiling
    <3>1. CASE loop' = "crashed"
      <4>1. NULL \in MethodsOfMethods(saveMethods(methods'))
                      \cup MethodsOfTraces(saveCallTraces(traces'))
        BY <2>2, <3>1 DEF StopProfiling, writeResult
      <4>2. QED  BY <2>1, <4>1, WriteResultIds DEF CrashNeedsNullTop
    <3>2. QED  BY <3>1 DEF CrashNeedsNullTop
  <2>3. CASE StartProfiling \/ OnAttach \/ LeaveLoop
    BY <2>3 DEF StartProfiling, OnAttach, LeaveLoop, CrashNeedsNullTop
  <2>4. CASE \E o \in Outcomes : recordSample(o)
    BY <2>4 DEF recordSample, CrashNeedsNullTop
  <2>5. CASE UNCHANGED vars
    BY <2>5 DEF vars, ghosts, CrashNeedsNullTop
  <2>6. QED  BY <2>2, <2>3, <2>4, <2>5 DEF Next
<1>3. Inv => CrashNeedsNullTop
  OBVIOUS
<1>4. QED  BY <1>1, <1>2, <1>3, PTL DEF Spec

\* Every method id a response mentions has its MethodInfo in that response.
THEOREM ResponsesAreClosed == Spec => []ResponseClosed
<1>1. Init => ResponseClosed
  BY DEF Init, ResponseClosed
<1>2. ResponseClosed /\ [Next]_vars => ResponseClosed'
  <2> SUFFICES ASSUME ResponseClosed, [Next]_vars PROVE ResponseClosed'
    OBVIOUS
  <2>1. CASE UNCHANGED response
    BY <2>1 DEF ResponseClosed
  <2>2. CASE StopProfiling /\ response' # response
    <3>1. response' = { Result }
      BY <2>2 DEF StopProfiling, writeResult, Result
    <3>2. QED
      BY <3>1 DEF ResponseClosed, Result, MethodsOfMethods, MethodsOfTraces
  <2>3. QED
    BY <2>1, <2>2 DEF Next, OnAttach, StartProfiling, LeaveLoop, recordSample, vars
<1>3. QED  BY <1>1, <1>2, PTL DEF Spec
-----------------------------------------------------------------------------
(***************************************************************************)
(* The open-addressing tables: nothing is stored twice, and counts are     *)
(* exact as long as the table is large enough.                             *)
(***************************************************************************)
(***************************************************************************)
(* The table of call traces, while the timer is on.  A hash is stored in   *)
(* one slot at most, and no slot is empty between its bucket and the slot  *)
(* that holds it, so the probe finds it before it finds an empty slot.     *)
(***************************************************************************)
TracesPlaced ==
  timer =>
    \A i \in Slots : hashes[i] # 0 =>
      /\ traces[i].count > 0
      /\ \A j \in Slots : hashes[j] = hashes[i] => j = i
      /\ \A j \in Slots :
           Dist(Bucket(hashes[i]), j) < Dist(Bucket(hashes[i]), i) => hashes[j] # 0

\* What storeCallTrace does, in terms of the placement.
LEMMA StoreCallTraceCases ==
  ASSUME TypeOK, CountInv, TracesPlaced, HashNonZero, timer,
         NEW t \in Traces, storeCallTrace(t)
  PROVE  \E s \in Slots :
           \/ /\ traces[s].count > 0 /\ traces[s].trace = t
              /\ hashes' = hashes
              /\ traces' = [traces EXCEPT ![s].count = @ + 1]
           \/ /\ \A j \in Slots : hashes[j] # TraceHash[t]
              /\ hashes' = [hashes EXCEPT ![s] = TraceHash[t]]
              /\ traces' = [traces EXCEPT ![s] = [count |-> 1, trace |-> t]]
              /\ \/ /\ hashes[s] = 0
                    /\ \A j \in Slots :
                         Dist(Bucket(TraceHash[t]), j) < Dist(Bucket(TraceHash[t]), s)
                           => hashes[j] # 0
                 \/ /\ s = Bucket(TraceHash[t])
                    /\ \A j \in Slots : hashes[j] # 0
<1> DEFINE h == TraceHash[t]
           b == Bucket(h)
           stops == TraceStops(h)
<1>1. PICK s \in Slots :
        /\ ProbeEndsAt(b, s, stops)
        /\ IF hashes[s] = h /\ traces[s].count > 0
             THEN /\ traces' = [traces EXCEPT ![s].count = @ + 1]
                  /\ UNCHANGED hashes
             ELSE /\ hashes' = [hashes EXCEPT ![s] = h]
                  /\ traces' = [traces EXCEPT ![s] = [count |-> 1, trace |-> t]]
  BY DEF storeCallTrace, hashCallTrace
<1>2. h \in Nat /\ h # 0 /\ b \in Slots
  BY TablesAssumption, BucketType DEF HashNonZero
<1>3. \A i \in Slots : hashes[i] # 0 =>
        /\ traces[i].count > 0
        /\ \A j \in Slots :
             Dist(Bucket(hashes[i]), j) < Dist(Bucket(hashes[i]), i) => hashes[j] # 0
  BY DEF TracesPlaced
<1>4. CASE hashes[s] = h /\ traces[s].count > 0
  <2>1. traces[s].trace \in Traces /\ hashes[s] = TraceHash[traces[s].trace]
    BY <1>4 DEF CountInv, NeverOverCounted, HashBinds, Occupied
  <2>2. traces[s].trace = t
    BY <1>4, <2>1, TablesAssumption
  <2>3. QED  BY <1>1, <1>4, <2>2
<1>5. CASE ~(hashes[s] = h /\ traces[s].count > 0)
  <2>1. CASE /\ s \in TraceStops(h)
             /\ \A j \in Slots : Dist(b, j) < Dist(b, s) => j \notin TraceStops(h)
    <3>1. hashes[s] = 0
      BY <1>5, <2>1 DEF TraceStops
    <3>2. \A j \in Slots : Dist(b, j) < Dist(b, s) =>
            hashes[j] # 0 /\ ~(hashes[j] = h /\ traces[j].count > 0)
      BY <2>1 DEF TraceStops
    <3>3. ASSUME NEW j \in Slots, hashes[j] = h
          PROVE  FALSE
      <4>1. traces[j].count > 0 /\ j # s
        BY <1>2, <1>3, <3>1, <3>3
      <4>2. ~(Dist(b, j) < Dist(b, s))
        BY <3>2, <3>3, <4>1
      <4>3. Dist(b, s) < Dist(b, j)
        BY <1>2, <4>1, <4>2, DistFacts
      <4>4. QED  BY <1>2, <1>3, <3>1, <3>3, <4>3
    <3>4. QED  BY <1>1, <1>5, <3>1, <3>2, <3>3
  <2>2. CASE s = b /\ \A j \in Slots : j \notin TraceStops(h)
    <3>1. \A j \in Slots : hashes[j] # 0 /\ hashes[j] # h
      BY <1>3, <2>2 DEF TraceStops
    <3>2. QED  BY <1>1, <1>5, <2>2, <3>1
  <2>3. QED  BY <1>1, <1>2, <2>1, <2>2, ProbeFacts DEF TraceStops
<1>6. QED  BY <1>4, <1>5

LEMMA StoreCallTracePlaced ==
  ASSUME TypeOK, CountInv, TracesPlaced, HashNonZero, timer,
         NEW t \in Traces, storeCallTrace(t)
  PROVE  TracesPlaced'
<1> DEFINE h == TraceHash[t]
<1>1. PICK s \in Slots :
        \/ /\ hashes' = hashes
           /\ traces' = [traces EXCEPT ![s].count = @ + 1]
        \/ /\ \A j \in Slots : hashes[j] # h
           /\ hashes' = [hashes EXCEPT ![s] = h]
           /\ traces' = [traces EXCEPT ![s] = [count |-> 1, trace |-> t]]
           /\ \/ \A j \in Slots : Dist(Bucket(h), j) < Dist(Bucket(h), s) => hashes[j] # 0
              \/ s = Bucket(h)
  BY StoreCallTraceCases
<1>2. h \in Nat /\ h # 0 /\ Bucket(h) \in Slots
  BY TablesAssumption, BucketType DEF HashNonZero
<1>3. traces \in [Slots -> TraceSlot] /\ hashes \in [Slots -> Nat]
  BY DEF TypeOK
<1>4. \A i \in Slots : hashes[i] # 0 =>
        /\ traces[i].count > 0
        /\ \A j \in Slots : hashes[j] = hashes[i] => j = i
        /\ \A j \in Slots :
             Dist(Bucket(hashes[i]), j) < Dist(Bucket(hashes[i]), i) => hashes[j] # 0
  BY DEF TracesPlaced
<1>5. CASE hashes' = hashes /\ traces' = [traces EXCEPT ![s].count = @ + 1]
  <2>1. \A i \in Slots : traces[i].count > 0 => traces'[i].count > 0
    BY <1>3, <1>5 DEF TraceSlot
  <2>2. QED  BY <1>4, <1>5, <2>1 DEF TracesPlaced
<1>6. CASE /\ \A j \in Slots : hashes[j] # h
           /\ hashes' = [hashes EXCEPT ![s] = h]
           /\ traces' = [traces EXCEPT ![s] = [count |-> 1, trace |-> t]]
           /\ \/ \A j \in Slots : Dist(Bucket(h), j) < Dist(Bucket(h), s) => hashes[j] # 0
              \/ s = Bucket(h)
  <2>1. /\ hashes'[s] = h /\ traces'[s].count = 1
        /\ \A j \in Slots \ {s} : hashes'[j] = hashes[j] /\ traces'[j] = traces[j]
    BY <1>3, <1>6
  <2>2. \A j \in Slots : Dist(Bucket(h), j) < Dist(Bucket(h), s) => hashes[j] # 0
    BY <1>2, <1>6, DistFacts
  <2>3. ASSUME NEW i \in Slots, hashes'[i] # 0
        PROVE  /\ traces'[i].count > 0
               /\ \A j \in Slots : hashes'[j] = hashes'[i] => j = i
               /\ \A j \in Slots :
                    Dist(Bucket(hashes'[i]), j) < Dist(Bucket(hashes'[i]), i)
                      => hashes'[j] # 0
    <3>1. CASE i = s
      BY <1>2, <1>6, <2>1, <2>2, <3>1
    <3>2. CASE i # s
      BY <1>2, <1>4, <1>6, <2>1, <2>3, <3>2
    <3>3. QED  BY <3>1, <3>2
  <2>4. QED  BY <2>3 DEF TracesPlaced
<1>7. QED  BY <1>1, <1>5, <1>6

(***************************************************************************)
(* The two halves about traces of OneSlotEach and ExactWhenFits.           *)
(***************************************************************************)
TracesOnce ==
  \A i, j \in Slots :
    traces[i].count > 0 /\ traces[j].count > 0 /\ traces[i].trace = traces[j].trace
      => i = j

TracesExact ==
  TracesFit => \A t \in Traces : recorded[t] > 0 =>
    \E i \in Slots : traces[i] = [count |-> recorded[t], trace |-> t]

\* While the timer is on, a trace has one slot because its hash has one.
LEMMA PlacedOnce ==
  ASSUME TracesPlaced, CountInv, HashNonZero, timer
  PROVE  TracesOnce
BY DEF TracesPlaced, CountInv, NeverOverCounted, HashBinds, HashNonZero, TracesOnce,
       Occupied

LEMMA StoreCallTraceExact ==
  ASSUME TypeOK, TypeOK', CountInv, CountInv', TracesPlaced, TracesExact, HashNonZero, timer,
         NEW t \in Traces, storeCallTrace(t),
         recorded' = [recorded EXCEPT ![t] = @ + 1]
  PROVE  TracesExact'
<1> SUFFICES ASSUME TracesFit'
             PROVE  \A u \in Traces : recorded'[u] > 0 =>
                      \E i \in Slots : traces'[i] = [count |-> recorded'[u], trace |-> u]
  BY DEF TracesExact
<1>1. /\ traces \in [Slots -> TraceSlot] /\ hashes \in [Slots -> Nat]
      /\ recorded \in [Traces -> Nat]
  BY DEF TypeOK
<1>2. /\ recorded'[t] = recorded[t] + 1
      /\ \A u \in Traces \ {t} : recorded'[u] = recorded[u]
  BY <1>1
<1> DEFINE R == { u \in Traces : recorded[u] > 0 }
           S == { u \in Traces : recorded'[u] > 0 }
<1>3. IsFiniteSet(S) /\ R \subseteq S /\ Cardinality(S) <= MAX_CALLTRACES
  <2>1. R \subseteq S
    BY <1>1, <1>2
  <2>2. IsFiniteSet(S)
    BY TablesAssumption, FS_Subset
  <2>3. QED  BY <2>1, <2>2 DEF TracesFit
<1>4. TracesFit
  <2>1. IsFiniteSet(R) /\ Cardinality(R) <= Cardinality(S)
    BY <1>3, FS_Subset
  <2>2. Cardinality(R) \in Nat /\ Cardinality(S) \in Nat
    BY <1>3, <2>1, FS_CardinalityType
  <2>3. QED  BY <1>3, <2>1, <2>2, TablesAssumption DEF TracesFit
<1>5. \A u \in Traces : recorded[u] > 0 =>
        \E i \in Slots : traces[i] = [count |-> recorded[u], trace |-> u]
  BY <1>4 DEF TracesExact
<1>6. \A i \in Slots : traces[i].count > 0 =>
        /\ traces[i].trace \in Traces
        /\ hashes[i] = TraceHash[traces[i].trace]
        /\ recorded[traces[i].trace] > 0
  BY <1>1 DEF CountInv, NeverOverCounted, HashBinds, Occupied, TraceSlot
<1>7. TracesOnce
  BY PlacedOnce
<1>8. PICK s \in Slots :
        \/ /\ traces[s].count > 0 /\ traces[s].trace = t
           /\ traces' = [traces EXCEPT ![s].count = @ + 1]
        \/ /\ \A j \in Slots : hashes[j] # TraceHash[t]
           /\ traces' = [traces EXCEPT ![s] = [count |-> 1, trace |-> t]]
           /\ hashes[s] = 0 \/ \A j \in Slots : hashes[j] # 0
  BY StoreCallTraceCases
<1>9. CASE /\ traces[s].count > 0 /\ traces[s].trace = t
           /\ traces' = [traces EXCEPT ![s].count = @ + 1]
  <2>1. traces[s] = [count |-> recorded[t], trace |-> t]
    <3>1. PICK i \in Slots : traces[i] = [count |-> recorded[t], trace |-> t]
      BY <1>5, <1>6, <1>9
    <3>2. i = s
      BY <1>6, <1>7, <1>9, <3>1 DEF TracesOnce
    <3>3. QED  BY <3>1, <3>2
  <2>2. traces'[s] = [count |-> recorded'[t], trace |-> t]
    BY <1>1, <1>2, <1>9, <2>1 DEF TraceSlot
  <2>3. ASSUME NEW u \in Traces \ {t}, recorded'[u] > 0
        PROVE  \E i \in Slots : traces'[i] = [count |-> recorded'[u], trace |-> u]
    <3>1. PICK i \in Slots : traces[i] = [count |-> recorded[u], trace |-> u]
      BY <1>2, <1>5, <2>3
    <3>2. i # s /\ traces'[i] = traces[i]
      BY <1>1, <1>9, <2>3, <3>1
    <3>3. QED  BY <1>2, <3>1, <3>2
  <2>4. QED  BY <2>2, <2>3
<1>10. CASE /\ \A j \in Slots : hashes[j] # TraceHash[t]
            /\ traces' = [traces EXCEPT ![s] = [count |-> 1, trace |-> t]]
            /\ hashes[s] = 0 \/ \A j \in Slots : hashes[j] # 0
  <2>1. recorded[t] = 0
    <3>1. ASSUME recorded[t] > 0 PROVE FALSE
      <4>1. PICK i \in Slots : traces[i] = [count |-> recorded[t], trace |-> t]
        BY <1>5, <3>1
      <4>2. QED  BY <1>6, <1>10, <3>1, <4>1
    <3>2. QED  BY <1>1, <3>1
  <2>2. hashes[s] = 0
    <3>1. ASSUME \A j \in Slots : hashes[j] # 0 PROVE FALSE
      <4>1. \A i \in Slots : traces[i].count > 0
        BY <3>1 DEF TracesPlaced
      <4> DEFINE f == [i \in Slots |-> traces[i].trace]
      <4>2. \A i \in Slots : traces[i].trace \in S \ {t}
        BY <1>3, <1>6, <1>10, <4>1
      <4>3. f \in [Slots -> S \ {t}]
        BY <4>2
      <4>4. \A i, j \in Slots : f[i] = f[j] => i = j
        BY <1>7, <4>1 DEF TracesOnce
      <4>5. t \in S
        BY <1>1, <1>2
      <4> HIDE DEF f, S
      <4>6. QED  BY <1>3, <4>3, <4>4, <4>5, FullTable
    <3>2. QED  BY <1>10, <3>1
  <2>3. traces[s].count = 0
    <3>1. ASSUME traces[s].count > 0 PROVE FALSE
      BY <1>6, <2>2, <3>1 DEF HashNonZero
    <3>2. QED  BY <1>1, <3>1 DEF TraceSlot
  <2>4. traces'[s] = [count |-> recorded'[t], trace |-> t]
    BY <1>1, <1>2, <1>10, <2>1
  <2>5. ASSUME NEW u \in Traces \ {t}, recorded'[u] > 0
        PROVE  \E i \in Slots : traces'[i] = [count |-> recorded'[u], trace |-> u]
    <3>1. PICK i \in Slots : traces[i] = [count |-> recorded[u], trace |-> u]
      BY <1>2, <1>5, <2>5
    <3>2. recorded[u] > 0
      BY <1>2, <2>5
    <3>3. i # s
      BY <2>3, <3>1, <3>2
    <3>4. traces'[i] = traces[i]
      BY <1>1, <1>10, <3>3
    <3>5. QED  BY <1>2, <3>1, <3>4
  <2>6. QED  BY <2>4, <2>5
<1>11. QED  BY <1>8, <1>9, <1>10
-----------------------------------------------------------------------------
(***************************************************************************)
(* The table of methods.  Here the id marks the slot, and an evicted slot  *)
(* becomes empty again when a null id takes it over: nothing is said about *)
(* sessions in which that could have happened.                             *)
(***************************************************************************)
NoHoles == MethodsFit \/ topped[NULL] = 0

MethodBucket(m) == Bucket(hashMethod(m))

MethodsPlaced ==
  timer /\ NoHoles =>
    \A i \in Slots : methods[i].method # NULL =>
      /\ methods[i].count > 0
      /\ \A j \in Slots : methods[j].method = methods[i].method => j = i
      /\ \A j \in Slots :
           Dist(MethodBucket(methods[i].method), j) < Dist(MethodBucket(methods[i].method), i)
             => methods[j].method # NULL

MethodsOnce ==
  topped[NULL] = 0 =>
    \A i, j \in Slots :
      methods[i].count > 0 /\ methods[j].count > 0 /\ methods[i].method = methods[j].method
        => i = j

MethodsExact ==
  MethodsFit => \A m \in Methods : topped[m] > 0 =>
    \E i \in Slots : methods[i] = [count |-> topped[m], method |-> m]

LEMMA MethodBucketType ==
  ASSUME NEW m \in MethodIds
  PROVE  MethodBucket(m) \in Slots
<1>1. hashMethod(m) \in Nat
  BY TablesAssumption DEF hashMethod, MethodIds
<1>2. QED  BY <1>1, BucketType DEF MethodBucket

\* The samples of a session only grow, so what fits now did fit before.
LEMMA ToppedGrows ==
  ASSUME TypeOK, NEW m \in MethodIds, topped' = [topped EXCEPT ![m] = @ + 1]
  PROVE  /\ topped'[m] = topped[m] + 1
         /\ \A n \in MethodIds \ {m} : topped'[n] = topped[n]
         /\ MethodsFit' => MethodsFit
         /\ NoHoles' => NoHoles
         /\ IsFiniteSet({ n \in MethodIds : topped'[n] > 0 })
<1>1. topped \in [MethodIds -> Nat]
  BY DEF TypeOK
<1>2. /\ topped'[m] = topped[m] + 1
      /\ \A n \in MethodIds \ {m} : topped'[n] = topped[n]
  BY <1>1
<1> DEFINE R == { n \in MethodIds : topped[n] > 0 }
           S == { n \in MethodIds : topped'[n] > 0 }
<1>3. IsFiniteSet(MethodIds)
  BY TablesAssumption, FS_AddElement DEF MethodIds
<1>4. IsFiniteSet(S)
  BY <1>3, FS_Subset
<1>5. R \subseteq S
  BY <1>1, <1>2
<1>6. MethodsFit' => MethodsFit
  <2>1. IsFiniteSet(R) /\ Cardinality(R) <= Cardinality(S)
    BY <1>4, <1>5, FS_Subset
  <2>2. Cardinality(R) \in Nat /\ Cardinality(S) \in Nat
    BY <1>4, <2>1, FS_CardinalityType
  <2>3. QED  BY <2>1, <2>2, TablesAssumption DEF MethodsFit
<1>7. topped'[NULL] = 0 => topped[NULL] = 0
  BY <1>1, <1>2 DEF MethodIds
<1>8. QED  BY <1>2, <1>4, <1>6, <1>7 DEF NoHoles

\* What storeMethod does, in terms of the placement.
LEMMA StoreMethodCases ==
  ASSUME TypeOK, CountInv, MethodsPlaced, timer, NoHoles', NEW m \in MethodIds,
         storeMethod(m), topped' = [topped EXCEPT ![m] = @ + 1]
  PROVE  \E s \in Slots :
           \/ /\ methods[s].method = m
              /\ methods' = [methods EXCEPT ![s].count = @ + 1]
           \/ /\ m # NULL
              /\ \A j \in Slots : methods[j].method # m
              /\ methods' = [methods EXCEPT ![s] = [count |-> 1, method |-> m]]
              /\ \/ /\ methods[s].method = NULL
                    /\ \A j \in Slots :
                         Dist(MethodBucket(m), j) < Dist(MethodBucket(m), s)
                           => methods[j].method # NULL
                 \/ /\ s = MethodBucket(m)
                    /\ \A j \in Slots : methods[j].method # NULL
<1> DEFINE b == MethodBucket(m)
           stops == MethodStops(m)
<1>1. PICK s \in Slots :
        /\ ProbeEndsAt(b, s, stops)
        /\ methods' = IF methods[s].method = m
                        THEN [methods EXCEPT ![s].count = @ + 1]
                        ELSE [methods EXCEPT ![s] = [count |-> 1, method |-> m]]
  BY DEF storeMethod, MethodBucket
<1>2. b \in Slots
  BY MethodBucketType
<1>3. \A i \in Slots : methods[i].method # NULL =>
        /\ methods[i].count > 0
        /\ \A j \in Slots : methods[j].method = methods[i].method => j = i
        /\ \A j \in Slots :
             Dist(MethodBucket(methods[i].method), j)
                 < Dist(MethodBucket(methods[i].method), i)
               => methods[j].method # NULL
  BY ToppedGrows DEF MethodsPlaced
<1>4. CASE methods[s].method = m
  BY <1>1, <1>4
<1>5. CASE methods[s].method # m
  <2>1. CASE /\ s \in MethodStops(m)
             /\ \A j \in Slots : Dist(b, j) < Dist(b, s) => j \notin MethodStops(m)
    <3>1. methods[s].method = NULL /\ m # NULL
      BY <1>5, <2>1 DEF MethodStops
    <3>2. \A j \in Slots : Dist(b, j) < Dist(b, s) =>
            methods[j].method # NULL /\ methods[j].method # m
      BY <2>1 DEF MethodStops
    <3>3. ASSUME NEW j \in Slots, methods[j].method = m
          PROVE  FALSE
      <4>1. j # s
        BY <3>1, <3>3
      <4>2. Dist(b, s) < Dist(b, j)
        BY <1>2, <3>2, <3>3, <4>1, DistFacts
      <4>3. QED  BY <1>3, <3>1, <3>3, <4>2
    <3>4. QED  BY <1>1, <1>5, <3>1, <3>2, <3>3
  <2>2. CASE s = b /\ \A j \in Slots : j \notin MethodStops(m)
    <3>1. \A j \in Slots : methods[j].method # NULL /\ methods[j].method # m
      BY <2>2 DEF MethodStops
    <3>2. m # NULL
      <4> SUFFICES ASSUME m = NULL PROVE FALSE
        OBVIOUS
      <4> DEFINE S == { n \in MethodIds : topped'[n] > 0 }
                 f == [i \in Slots |-> methods[i].method]
      <4>1. /\ topped \in [MethodIds -> Nat] /\ methods \in [Slots -> MethodSlot]
            /\ topped'[m] = topped[m] + 1 /\ IsFiniteSet(S)
            /\ \A n \in MethodIds \ {m} : topped'[n] = topped[n]
        BY ToppedGrows DEF TypeOK
      <4>2. MethodsFit'
        BY <4>1 DEF NoHoles
      <4>3. \A i \in Slots : methods[i].count <= topped[methods[i].method]
        BY <1>3, <3>1 DEF CountInv, NeverOverCounted, Occupied
      <4>4. \A i \in Slots : methods[i].method \in S \ {m}
        BY <1>3, <3>1, <4>1, <4>3 DEF MethodSlot
      <4>5. f \in [Slots -> S \ {m}]
        BY <4>4
      <4>6. \A i, j \in Slots : f[i] = f[j] => i = j
        BY <1>3, <3>1
      <4>7. m \in S /\ Cardinality(S) <= MAX_CALLTRACES
        BY <4>1, <4>2 DEF MethodsFit
      <4> HIDE DEF f, S
      <4>8. QED  BY <4>1, <4>5, <4>6, <4>7, FullTable
    <3>3. QED  BY <1>1, <1>5, <2>2, <3>1, <3>2
  <2>3. QED  BY <1>1, <1>2, <2>1, <2>2, ProbeFacts DEF MethodStops
<1>6. QED  BY <1>4, <1>5

LEMMA StoreMethodPlaced ==
  ASSUME TypeOK, CountInv, MethodsPlaced, timer, NEW m \in MethodIds,
         storeMethod(m), topped' = [topped EXCEPT ![m] = @ + 1]
  PROVE  MethodsPlaced'
<1> SUFFICES ASSUME NoHoles'
             PROVE  \A i \in Slots : methods'[i].method # NULL =>
                      /\ methods'[i].count > 0
                      /\ \A j \in Slots : methods'[j].method = methods'[i].method => j = i
                      /\ \A j \in Slots :
                           Dist(MethodBucket(methods'[i].method), j)
                               < Dist(MethodBucket(methods'[i].method), i)
                             => methods'[j].method # NULL
  BY DEF MethodsPlaced
<1>1. PICK s \in Slots :
        \/ /\ methods[s].method = m
           /\ methods' = [methods EXCEPT ![s].count = @ + 1]
        \/ /\ m # NULL
           /\ \A j \in Slots : methods[j].method # m
           /\ methods' = [methods EXCEPT ![s] = [count |-> 1, method |-> m]]
           /\ \/ \A j \in Slots : Dist(MethodBucket(m), j) < Dist(MethodBucket(m), s)
                                   => methods[j].method # NULL
              \/ s = MethodBucket(m)
  BY StoreMethodCases
<1>2. MethodBucket(m) \in Slots /\ methods \in [Slots -> MethodSlot]
  BY MethodBucketType DEF TypeOK
<1>3. \A i \in Slots : methods[i].method # NULL =>
        /\ methods[i].count > 0
        /\ \A j \in Slots : methods[j].method = methods[i].method => j = i
        /\ \A j \in Slots :
             Dist(MethodBucket(methods[i].method), j)
                 < Dist(MethodBucket(methods[i].method), i)
               => methods[j].method # NULL
  BY ToppedGrows DEF MethodsPlaced
<1>4. CASE methods[s].method = m /\ methods' = [methods EXCEPT ![s].count = @ + 1]
  <2>1. \A i \in Slots : /\ methods'[i].method = methods[i].method
                         /\ methods[i].count > 0 => methods'[i].count > 0
    BY <1>2, <1>4 DEF MethodSlot
  <2>2. QED  BY <1>3, <2>1
<1>5. CASE /\ m # NULL
           /\ \A j \in Slots : methods[j].method # m
           /\ methods' = [methods EXCEPT ![s] = [count |-> 1, method |-> m]]
           /\ \/ \A j \in Slots : Dist(MethodBucket(m), j) < Dist(MethodBucket(m), s)
                                   => methods[j].method # NULL
              \/ s = MethodBucket(m)
  <2>1. /\ methods'[s].method = m /\ methods'[s].count = 1
        /\ \A j \in Slots \ {s} : methods'[j] = methods[j]
    BY <1>2, <1>5
  <2>2. \A j \in Slots : Dist(MethodBucket(m), j) < Dist(MethodBucket(m), s)
          => methods[j].method # NULL
    BY <1>2, <1>5, DistFacts
  <2>3. ASSUME NEW i \in Slots, methods'[i].method # NULL
        PROVE  /\ methods'[i].count > 0
               /\ \A j \in Slots : methods'[j].method = methods'[i].method => j = i
               /\ \A j \in Slots :
                    Dist(MethodBucket(methods'[i].method), j)
                        < Dist(MethodBucket(methods'[i].method), i)
                      => methods'[j].method # NULL
    <3>1. CASE i = s
      BY <1>5, <2>1, <2>2, <3>1
    <3>2. CASE i # s
      BY <1>3, <1>5, <2>1, <2>3, <3>2
    <3>3. QED  BY <3>1, <3>2
  <2>4. QED  BY <2>3
<1>6. QED  BY <1>1, <1>4, <1>5

\* While the timer is on, a method has one slot because it is placed.
LEMMA PlacedMethodsOnce ==
  ASSUME TypeOK, MethodsPlaced, CountInv, timer
  PROVE  MethodsOnce
<1> SUFFICES ASSUME topped[NULL] = 0,
                    NEW i \in Slots, NEW j \in Slots, methods[i].count > 0,
                    methods[i].method = methods[j].method
             PROVE  i = j
  BY DEF MethodsOnce
<1>1. methods[i].count <= topped[methods[i].method] /\ methods[i].count \in Nat
  BY DEF CountInv, NeverOverCounted, Occupied, TypeOK, MethodSlot
<1>2. methods[i].method # NULL
  BY <1>1
<1>3. QED  BY <1>2 DEF MethodsPlaced, NoHoles

LEMMA StoreMethodExact ==
  ASSUME TypeOK, CountInv, MethodsPlaced, MethodsExact, timer, NEW m \in MethodIds,
         storeMethod(m), topped' = [topped EXCEPT ![m] = @ + 1]
  PROVE  MethodsExact'
<1> SUFFICES ASSUME MethodsFit'
             PROVE  \A n \in Methods : topped'[n] > 0 =>
                      \E i \in Slots : methods'[i] = [count |-> topped'[n], method |-> n]
  BY DEF MethodsExact
<1> DEFINE S == { n \in MethodIds : topped'[n] > 0 }
<1>1. methods \in [Slots -> MethodSlot] /\ topped \in [MethodIds -> Nat]
  BY DEF TypeOK
<1>2. /\ topped'[m] = topped[m] + 1
      /\ \A n \in MethodIds \ {m} : topped'[n] = topped[n]
      /\ MethodsFit /\ IsFiniteSet(S)
      /\ NoHoles /\ NoHoles'
  BY ToppedGrows DEF NoHoles
<1>3. \A n \in Methods : topped[n] > 0 =>
        \E i \in Slots : methods[i] = [count |-> topped[n], method |-> n]
  BY <1>2 DEF MethodsExact
<1>4. \A i \in Slots : methods[i].method # NULL =>
        /\ methods[i].count > 0
        /\ \A j \in Slots : methods[j].method = methods[i].method => j = i
  BY <1>2 DEF MethodsPlaced
<1>5. \A i \in Slots : methods[i].method # NULL => topped[methods[i].method] > 0
  BY <1>1, <1>4 DEF CountInv, NeverOverCounted, Occupied, MethodSlot
<1>6. PICK s \in Slots :
        \/ /\ methods[s].method = m
           /\ methods' = [methods EXCEPT ![s].count = @ + 1]
        \/ /\ m # NULL
           /\ \A j \in Slots : methods[j].method # m
           /\ methods' = [methods EXCEPT ![s] = [count |-> 1, method |-> m]]
           /\ methods[s].method = NULL \/ \A j \in Slots : methods[j].method # NULL
  <2>1. NoHoles'
    BY <1>2
  <2>2. QED  BY <2>1, StoreMethodCases
<1>7. NULL \notin Methods /\ Methods \subseteq MethodIds
  BY TablesAssumption DEF MethodIds
<1>8. CASE methods[s].method = m /\ methods' = [methods EXCEPT ![s].count = @ + 1]
  <2>1. ASSUME m \in Methods
        PROVE  methods'[s] = [count |-> topped'[m], method |-> m]
    <3>1. PICK i \in Slots : methods[i] = [count |-> topped[m], method |-> m]
      BY <1>3, <1>5, <1>7, <1>8, <2>1
    <3>2. i = s
      BY <1>4, <1>7, <1>8, <2>1, <3>1
    <3>3. methods[s] = [count |-> topped[m], method |-> m]
      BY <3>1, <3>2
    <3>4. QED  BY <1>1, <1>2, <1>8, <3>3 DEF MethodSlot
  <2>2. ASSUME NEW n \in Methods \ {m}, topped'[n] > 0
        PROVE  \E i \in Slots : methods'[i] = [count |-> topped'[n], method |-> n]
    <3>1. PICK i \in Slots : methods[i] = [count |-> topped[n], method |-> n]
      BY <1>2, <1>3, <1>7, <2>2
    <3>2. i # s
      BY <1>8, <2>2, <3>1
    <3>3. methods'[i] = methods[i]
      BY <1>1, <1>8, <3>2
    <3>4. QED  BY <1>2, <1>7, <3>1, <3>3
  <2>3. QED  BY <2>1, <2>2
<1>9. CASE /\ m # NULL
           /\ \A j \in Slots : methods[j].method # m
           /\ methods' = [methods EXCEPT ![s] = [count |-> 1, method |-> m]]
           /\ methods[s].method = NULL \/ \A j \in Slots : methods[j].method # NULL
  <2>1. m \in Methods
    BY <1>9 DEF MethodIds
  <2>2. topped[m] = 0
    <3>1. ASSUME topped[m] > 0 PROVE FALSE
      <4>1. PICK i \in Slots : methods[i] = [count |-> topped[m], method |-> m]
        BY <1>3, <2>1, <3>1
      <4>2. QED  BY <1>9, <4>1
    <3>2. QED  BY <1>1, <3>1
  <2>3. methods[s].method = NULL
    <3> SUFFICES ASSUME \A j \in Slots : methods[j].method # NULL PROVE FALSE
      BY <1>9
    <3> DEFINE f == [i \in Slots |-> methods[i].method]
    <3>1. \A i \in Slots : methods[i].method \in S \ {m}
      BY <1>1, <1>2, <1>5, <1>9 DEF MethodSlot
    <3>2. f \in [Slots -> S \ {m}]
      BY <3>1
    <3>3. \A i, j \in Slots : f[i] = f[j] => i = j
      BY <1>4
    <3>4. m \in S /\ Cardinality(S) <= MAX_CALLTRACES
      BY <1>1, <1>2 DEF MethodsFit
    <3> HIDE DEF f, S
    <3>5. QED  BY <1>2, <3>2, <3>3, <3>4, FullTable
  <2>4. methods'[s] = [count |-> topped'[m], method |-> m]
    BY <1>1, <1>2, <1>9, <2>2
  <2>5. ASSUME NEW n \in Methods \ {m}, topped'[n] > 0
        PROVE  \E i \in Slots : methods'[i] = [count |-> topped'[n], method |-> n]
    <3>1. PICK i \in Slots : methods[i] = [count |-> topped[n], method |-> n]
      BY <1>2, <1>3, <1>7, <2>5
    <3>2. i # s
      BY <1>7, <2>3, <3>1
    <3>3. methods'[i] = methods[i]
      BY <1>1, <1>9, <3>2
    <3>4. QED  BY <1>2, <1>7, <3>1, <3>3
  <2>6. QED  BY <2>1, <2>4, <2>5
<1>10. QED  BY <1>6, <1>8, <1>9
-----------------------------------------------------------------------------
(***************************************************************************)
(* Both tables, through all steps.  While the timer is on the placements   *)
(* carry the argument; the sort keeps what they imply.                     *)
(***************************************************************************)
TracesInv  == HashNonZero => TracesPlaced /\ TracesOnce /\ TracesExact
MethodsInv == MethodsPlaced /\ MethodsOnce /\ MethodsExact
TablesInv  == TypeOK /\ CountInv /\ TracesInv /\ MethodsInv

LEMMA RecordSampleTables ==
  ASSUME TablesInv, TypeOK', CountInv', NEW o \in Outcomes, recordSample(o)
  PROVE  TracesInv' /\ MethodsInv'
<1>1. CASE UNCHANGED <<hashes, traces, methods, ghosts>>
  <2>1. timer' = timer
    BY DEF recordSample
  <2>2. TracesInv'
    BY <1>1, <2>1 DEF TablesInv, TracesInv, TracesPlaced, TracesOnce, TracesExact,
                      TracesFit, ghosts
  <2>3. MethodsInv'
    BY <1>1, <2>1 DEF TablesInv, MethodsInv, MethodsPlaced, MethodsOnce, MethodsExact,
                      MethodsFit, NoHoles, ghosts
  <2>4. QED  BY <2>2, <2>3
<1>2. CASE /\ o \in Traces
           /\ storeCallTrace(o)
           /\ storeMethod(TopMethod(o))
           /\ recorded' = [recorded EXCEPT ![o] = @ + 1]
           /\ topped' = [topped EXCEPT ![TopMethod(o)] = @ + 1]
  <2>1. timer /\ timer'
    BY DEF recordSample
  <2>2. TypeOK /\ CountInv
    BY DEF TablesInv
  <2>3. ASSUME HashNonZero
        PROVE  TracesPlaced' /\ TracesOnce' /\ TracesExact'
    <3>1. TracesPlaced /\ TracesExact
      BY <2>3 DEF TablesInv, TracesInv
    <3>2. TracesPlaced'
      BY <1>2, <2>1, <2>2, <2>3, <3>1, StoreCallTracePlaced
    <3>3. TracesOnce'
      BY <2>1, <2>3, <3>2
         DEF TracesPlaced, CountInv, NeverOverCounted, HashBinds, HashNonZero, TracesOnce,
             Occupied
    <3>4. TracesExact'
      BY <1>2, <2>1, <2>2, <2>3, <3>1, StoreCallTraceExact
    <3>5. QED  BY <3>2, <3>3, <3>4
  <2>4. TopMethod(o) \in MethodIds /\ MethodsPlaced /\ MethodsExact
    BY <1>2, TopMethodType DEF TablesInv, MethodsInv
  <2>5. MethodsPlaced'
    BY <1>2, <2>1, <2>2, <2>4, StoreMethodPlaced
  <2>6. MethodsOnce'
    <3> SUFFICES ASSUME topped'[NULL] = 0,
                        NEW i \in Slots, NEW j \in Slots, methods'[i].count > 0,
                        methods'[i].method = methods'[j].method
                 PROVE  i = j
      BY DEF MethodsOnce
    <3>1. methods'[i].count <= topped'[methods'[i].method] /\ methods'[i].count \in Nat
      BY DEF CountInv, NeverOverCounted, Occupied, TypeOK, MethodSlot
    <3>2. methods'[i].method # NULL
      BY <3>1
    <3>3. QED  BY <2>1, <2>5, <3>2 DEF MethodsPlaced, NoHoles
  <2>7. MethodsExact'
    BY <1>2, <2>1, <2>2, <2>4, StoreMethodExact
  <2>8. QED  BY <2>3, <2>5, <2>6, <2>7 DEF TracesInv, MethodsInv
<1>3. QED  BY <1>1, <1>2 DEF recordSample

LEMMA StopTables ==
  ASSUME TablesInv, StopProfiling
  PROVE  TracesInv' /\ MethodsInv'
<1>1. ~timer' /\ UNCHANGED <<recorded, topped>>
  BY DEF StopProfiling, stop, setTimer, TablesInv, CountInv, HashBinds, ghosts
<1>2. traces' \in QSort(traces) /\ methods' \in QSort(methods)
  BY DEF StopProfiling, writeResult
<1>3. PICK p : Rearranges(p, traces, traces')
  BY <1>2, QSortPermutes
<1>4. PICK q : Rearranges(q, methods, methods')
  BY <1>2, QSortPermutes
<1>5. TracesOnce => TracesOnce'
  BY <1>3 DEF TracesOnce, Rearranges
<1>6. TracesExact => TracesExact'
  <2> SUFFICES ASSUME TracesExact, TracesFit', NEW t \in Traces, recorded'[t] > 0
               PROVE  \E i \in Slots : traces'[i] = [count |-> recorded'[t], trace |-> t]
    BY DEF TracesExact
  <2>1. PICK j \in Slots : traces[j] = [count |-> recorded[t], trace |-> t]
    BY <1>1 DEF TracesExact, TracesFit
  <2>2. PICK i \in Slots : p[i] = j
    BY <1>3 DEF Rearranges
  <2>3. QED  BY <1>1, <1>3, <2>1, <2>2 DEF Rearranges
<1>7. MethodsOnce => MethodsOnce'
  BY <1>1, <1>4 DEF MethodsOnce, Rearranges
<1>8. MethodsExact => MethodsExact'
  <2> SUFFICES ASSUME MethodsExact, MethodsFit', NEW m \in Methods, topped'[m] > 0
               PROVE  \E i \in Slots : methods'[i] = [count |-> topped'[m], method |-> m]
    BY DEF MethodsExact
  <2>1. PICK j \in Slots : methods[j] = [count |-> topped[m], method |-> m]
    BY <1>1 DEF MethodsExact, MethodsFit
  <2>2. PICK i \in Slots : q[i] = j
    BY <1>4 DEF Rearranges
  <2>3. QED  BY <1>1, <1>4, <2>1, <2>2 DEF Rearranges
<1>9. QED
  BY <1>1, <1>5, <1>6, <1>7, <1>8
     DEF TablesInv, TracesInv, MethodsInv, TracesPlaced, MethodsPlaced

\* Cleared tables satisfy everything; this is the state after memset.
LEMMA ClearedTables ==
  ASSUME hashes = NoHashes, traces = NoTraces, methods = NoMethods,
         recorded = [t \in Traces |-> 0], topped = [m \in MethodIds |-> 0]
  PROVE  TracesInv /\ MethodsInv
<1>1. \A i \in Slots : /\ hashes[i] = 0
                       /\ traces[i].count = 0
                       /\ methods[i].count = 0 /\ methods[i].method = NULL
  BY DEF NoHashes, NoTraces, NoMethods, EmptyTrace, EmptyMethod
<1>2. TracesPlaced /\ TracesOnce /\ TracesExact
  BY <1>1 DEF TracesPlaced, TracesOnce, TracesExact
<1>3. MethodsPlaced /\ MethodsOnce /\ MethodsExact
  BY <1>1 DEF MethodsPlaced, MethodsOnce, MethodsExact, MethodIds
<1>4. QED  BY <1>2, <1>3 DEF TracesInv, MethodsInv

LEMMA StartTables ==
  ASSUME TablesInv, start
  PROVE  TracesInv' /\ MethodsInv'
<1>1. CASE UNCHANGED <<running, tables, timer, ghosts>>
  <2>1. TracesInv'
    BY <1>1 DEF TablesInv, TracesInv, TracesPlaced, TracesOnce, TracesExact, TracesFit,
                tables, ghosts
  <2>2. MethodsInv'
    BY <1>1 DEF TablesInv, MethodsInv, MethodsPlaced, MethodsOnce, MethodsExact,
                MethodsFit, NoHoles, tables, ghosts
  <2>3. QED  BY <2>1, <2>2
<1>2. CASE /\ hashes' = NoHashes /\ traces' = NoTraces /\ methods' = NoMethods
           /\ recorded' = [t \in Traces |-> 0] /\ topped' = [m \in MethodIds |-> 0]
  <2>1. \A i \in Slots : /\ hashes'[i] = 0
                         /\ traces'[i].count = 0
                         /\ methods'[i].count = 0 /\ methods'[i].method = NULL
    BY <1>2 DEF NoHashes, NoTraces, NoMethods, EmptyTrace, EmptyMethod
  <2>2. TracesPlaced' /\ TracesOnce' /\ TracesExact'
    BY <1>2, <2>1 DEF TracesPlaced, TracesOnce, TracesExact
  <2>3. MethodsPlaced' /\ MethodsOnce' /\ MethodsExact'
    BY <1>2, <2>1 DEF MethodsPlaced, MethodsOnce, MethodsExact, MethodIds
  <2>4. QED  BY <2>2, <2>3 DEF TracesInv, MethodsInv
<1>3. QED  BY <1>1, <1>2 DEF start

LEMMA InitTables == Init => TablesInv
BY InitTypeOK, InitCountInv, ClearedTables DEF Init, TablesInv

LEMMA NextTables == TablesInv /\ [Next]_vars => TablesInv'
<1> SUFFICES ASSUME TablesInv, [Next]_vars PROVE TracesInv' /\ MethodsInv'
  BY NextTypeOK, NextCountInv DEF TablesInv
<1>1. TypeOK' /\ CountInv'
  BY NextTypeOK, NextCountInv DEF TablesInv
<1>2. CASE StartProfiling
  BY <1>2, StartTables DEF StartProfiling
<1>3. CASE StopProfiling
  BY <1>3, StopTables
<1>4. CASE \E o \in Outcomes : recordSample(o)
  BY <1>1, <1>4, RecordSampleTables
<1>5. CASE OnAttach \/ LeaveLoop \/ UNCHANGED vars
  <2>1. UNCHANGED <<timer, hashes, traces, methods, recorded, topped>>
    BY <1>5 DEF OnAttach, LeaveLoop, vars, tables, ghosts
  <2>2. TracesInv'
    BY <2>1 DEF TablesInv, TracesInv, TracesPlaced, TracesOnce, TracesExact, TracesFit
  <2>3. MethodsInv'
    BY <2>1 DEF TablesInv, MethodsInv, MethodsPlaced, MethodsOnce, MethodsExact,
                MethodsFit, NoHoles
  <2>4. QED  BY <2>2, <2>3
<1>6. QED  BY <1>2, <1>3, <1>4, <1>5 DEF Next

\* The inductive invariant of both tables.
THEOREM TablesInvariant == Spec => []TablesInv
BY InitTables, NextTables, PTL DEF Spec

\* storeCallTrace and storeMethod never store a trace or a method twice, so
\* the flame graph adds up each one once, whatever was evicted before.
THEOREM NothingTwice == Spec => []OneSlotEach
<1>1. TablesInv => OneSlotEach
  BY DEF TablesInv, TracesInv, MethodsInv, TracesOnce, MethodsOnce, OneSlotEach, Occupied
<1>2. QED  BY <1>1, TablesInvariant, PTL

\* While the distinct traces (methods) of a session are no more than the
\* table has slots, every one is in the table with its exact count: the probe
\* loop neither misses a stored trace nor overwrites one.
THEOREM ExactUntilFull == Spec => []ExactWhenFits
<1>1. TablesInv => ExactWhenFits
  BY DEF TablesInv, TracesInv, MethodsInv, TracesExact, MethodsExact, ExactWhenFits
<1>2. QED  BY <1>1, TablesInvariant, PTL
-----------------------------------------------------------------------------
(***************************************************************************)
(* The agent of Profiler.tla implements ProfilerContract.tla.              *)
(***************************************************************************)
\* The saved prefix of a sorted table is the set of its occupied slots.
LEMMA SortedPrefix ==
  ASSUME NEW table, NEW i \in Slots,
         \A j \in Slots : table[j].count \in Nat,
         \A j, k \in Slots : j < k => table[j].count >= table[k].count
  PROVE  i \in Saved(table) <=> table[i].count > 0
<1>1. \A j \in 0 .. i : j \in Slots /\ (j < i \/ j = i)
  BY TablesAssumption DEF Slots
<1>2. i \in 0 .. i
  BY TablesAssumption DEF Slots
<1>3. QED  BY <1>1, <1>2 DEF Saved

\* What a report of the sorted tables says of a trace: never more than was
\* recorded, and exactly that while the traces fit.
LEMMA ReportedCounts ==
  ASSUME TablesInv', traces' \in QSort(traces), NEW t \in Traces
  PROVE  LET counts == SampleCounts(saveCallTraces(traces'), t)
         IN  /\ counts \subseteq 1 .. recorded'[t]
             /\ HashNonZero /\ TracesFit' /\ recorded'[t] > 0 => counts = {recorded'[t]}
<1> DEFINE saved == saveCallTraces(traces')
           counts == SampleCounts(saved, t)
<1>1. /\ traces' \in [Slots -> TraceSlot] /\ recorded' \in [Traces -> Nat]
      /\ \A i \in Slots : traces'[i].count \in Nat
  BY DEF TablesInv, TypeOK, TraceSlot
<1>2. \A i \in Slots : i \in Saved(traces') <=> traces'[i].count > 0
  <2>1. \A i, j \in Slots : i < j => traces'[i].count >= traces'[j].count
    BY QSortPermutes
  <2>2. QED  BY <1>1, <2>1, SortedPrefix
<1>3. /\ DOMAIN saved = Saved(traces') /\ Saved(traces') \subseteq Slots
      /\ \A i \in Saved(traces') : saved[i] = traces'[i]
  BY DEF saveCallTraces, Saved
<1>4. counts = { traces'[i].count : i \in { j \in Slots : /\ traces'[j].count > 0
                                                          /\ traces'[j].trace = t } }
  BY <1>2, <1>3 DEF SampleCounts
<1>5. \A i \in Slots : traces'[i].count > 0 /\ traces'[i].trace = t
        => traces'[i].count <= recorded'[t]
  BY DEF TablesInv, CountInv, NeverOverCounted, Occupied
<1>6. counts \subseteq 1 .. recorded'[t]
  BY <1>1, <1>4, <1>5
<1>7. ASSUME HashNonZero, TracesFit', recorded'[t] > 0
      PROVE  counts = {recorded'[t]}
  <2>1. TracesOnce' /\ TracesExact'
    BY <1>7 DEF TablesInv, TracesInv
  <2>2. PICK i \in Slots : traces'[i] = [count |-> recorded'[t], trace |-> t]
    BY <1>7, <2>1 DEF TracesExact
  <2>3. \A j \in Slots : traces'[j].count > 0 /\ traces'[j].trace = t => j = i
    BY <1>7, <2>1, <2>2 DEF TracesOnce
  <2>4. QED  BY <1>4, <1>7, <2>2, <2>3
<1>8. QED  BY <1>6, <1>7

\* The state function that the contract calls taken.
Taken == [o \in Outcomes |-> IF o \in Traces THEN recorded[o] ELSE calls[o]]

LEMMA TakenFacts ==
  /\ \A t \in Traces : Taken[t] = recorded[t]
  /\ \A k \in Kinds : Taken[k] = calls[k]
BY TablesAssumption DEF Taken, Outcomes

LEMMA ResultFaithful ==
  ASSUME TablesInv, TablesInv', StopProfiling
  PROVE  Contract!Faithful(Reported(Result))
<1> DEFINE r == Reported(Result)
<1>1. /\ r.total = calls["total"]
      /\ \A k \in Kinds : r.kinds[k] = calls[k]
      /\ \A t \in Traces : r.counts[t] = SampleCounts(saveCallTraces(traces'), t)
  BY DEF Reported, Result
<1>2. traces' \in QSort(traces) /\ recorded' = recorded
  BY DEF StopProfiling, writeResult, ghosts
<1>3. recorded \in [Traces -> Nat]
  BY DEF TablesInv, TypeOK
<1>4. \A t \in Traces : r.counts[t] \subseteq 1 .. Taken[t]
  BY <1>1, <1>2, ReportedCounts, TakenFacts
<1>5. \A k \in Kinds : r.kinds[k] = Taken[k]
  BY <1>1, TakenFacts
<1> DEFINE Seen == { t \in Traces : Taken[t] > 0 }
<1>6. Seen = { t \in Traces : recorded[t] > 0 }
  BY TakenFacts
<1>7. ASSUME TableHolds(Seen), NEW t \in Traces
      PROVE  r.counts[t] = IF t \in Seen THEN {Taken[t]} ELSE {}
  <2>1. CASE t \notin Seen
    <3>1. Taken[t] = 0
      BY <1>3, <2>1, TakenFacts
    <3>2. r.counts[t] = {}
      BY <1>4, <3>1
    <3>3. QED  BY <2>1, <3>2
  <2>2. CASE t \in Seen
    <3>1. HashNonZero
      BY <1>7 DEF TableHolds
    <3>2. TracesFit'
      BY <1>2, <1>6, <1>7 DEF TracesFit, TableHolds
    <3>3. r.counts[t] = {recorded[t]}
      BY <1>1, <1>2, <1>6, <2>2, <3>1, <3>2, ReportedCounts
    <3>4. QED  BY <2>2, <3>3, TakenFacts
  <2>3. QED  BY <2>1, <2>2
<1>8. QED
  BY <1>1, <1>4, <1>5, <1>7
     DEF Contract!Faithful, Contract!Seen, Taken

LEMMA InitImplements == Init => Contract!Init
<1> SUFFICES ASSUME Init PROVE Contract!Init
  OBVIOUS
<1>1. /\ timer = FALSE /\ response = {}
      /\ calls = [c \in Counters |-> 0] /\ recorded = [t \in Traces |-> 0]
  BY DEF Init, NoCalls
<1>2. calls["total"] = 0 /\ \A k \in Kinds : calls[k] = 0
  BY <1>1 DEF Counters
<1>3. Taken = [o \in Traces \cup Kinds |-> 0]
  BY <1>1, <1>2 DEF Taken, Outcomes
<1>4. { Reported(r) : r \in response } = {}
  BY <1>1
<1>5. QED  BY <1>1, <1>2, <1>3, <1>4 DEF Contract!Init, Contract!Zero, Taken

\* Every step of the agent is a step the contract allows, or none at all.
LEMMA NextImplements ==
  ASSUME TablesInv, TablesInv', [Next]_vars
  PROVE  [Contract!Next]_(Contract!vars)
<1>1. CASE OnAttach \/ LeaveLoop \/ UNCHANGED vars
  <2>1. UNCHANGED <<timer, calls, recorded, response>>
    BY <1>1 DEF OnAttach, LeaveLoop, vars, tables, ghosts
  <2>2. QED  BY <2>1 DEF Contract!vars
<1>2. CASE StartProfiling
  <2>1. CASE UNCHANGED <<running, tables, timer, ghosts>>
    <3>1. UNCHANGED <<timer, calls, recorded, response>>
      BY <1>2, <2>1 DEF StartProfiling, tables, ghosts
    <3>2. QED  BY <3>1 DEF Contract!vars
  <2>2. CASE /\ ~running /\ setTimer(TRUE) /\ calls' = NoCalls
             /\ recorded' = [t \in Traces |-> 0]
    <3>1. ~timer /\ timer' = TRUE /\ response' = response
      BY <1>2, <2>2 DEF StartProfiling, setTimer, TablesInv, CountInv, HashBinds
    <3>2. calls'["total"] = 0 /\ \A k \in Kinds : calls'[k] = 0
      BY <2>2 DEF NoCalls, Counters
    <3>3. Taken' = [o \in Traces \cup Kinds |-> 0]
      BY <2>2, <3>2 DEF Taken, Outcomes
    <3>4. Contract!Start
      BY <3>1, <3>2, <3>3 DEF Contract!Start, Contract!Zero, Taken
    <3>5. QED  BY <3>4 DEF Contract!Next
  <2>3. QED  BY <1>2, <2>1, <2>2 DEF StartProfiling, start
<1>3. CASE StopProfiling
  <2>1. /\ timer' = FALSE
        /\ UNCHANGED <<calls, recorded>>
    <3>1. UNCHANGED <<calls, recorded>>
      BY <1>3 DEF StopProfiling, writeResult, ghosts
    <3>2. timer' = FALSE
      BY <1>3 DEF StopProfiling, stop, setTimer, TablesInv, CountInv, HashBinds, TypeOK
    <3>3. QED  BY <3>1, <3>2
  <2>2. response' = response \/ response' = { Result }
    BY <1>3 DEF StopProfiling, writeResult, Result
  <2>3. Contract!Faithful(Reported(Result))
    BY <1>3, ResultFaithful
  <2>4. Contract!Stop
    <3>1. CASE response' = response
      BY <2>1, <3>1 DEF Contract!Stop
    <3>2. CASE response' = { Result }
      <4>1. { Reported(r) : r \in response' } = { Reported(Result) }
        BY <3>2
      <4>2. QED  BY <2>1, <2>3, <4>1 DEF Contract!Stop
    <3>3. QED  BY <2>2, <3>1, <3>2
  <2>5. QED  BY <2>4 DEF Contract!Next
<1>4. ASSUME NEW o \in Outcomes, recordSample(o)
      PROVE  Contract!Tick(o)
  <2>1. timer /\ UNCHANGED <<timer, response>>
    BY <1>4 DEF recordSample
  <2>2. calls \in [Counters -> Nat] /\ recorded \in [Traces -> Nat]
    BY DEF TablesInv, TypeOK
  <2>3. CASE /\ o \in Kinds /\ recorded' = recorded
             /\ calls' = [calls EXCEPT !["total"] = @ + 1, ![o] = @ + 1]
    <3>1. /\ calls'["total"] = calls["total"] + 1
          /\ calls'[o] = calls[o] + 1
          /\ \A k \in Kinds \ {o} : calls'[k] = calls[k]
      BY <2>2, <2>3 DEF Counters, Kinds
    <3>2. Taken' = [Taken EXCEPT ![o] = @ + 1]
      BY <2>3, <3>1, TablesAssumption, ZenonT(60) DEF Taken, Outcomes
    <3>3. QED  BY <2>1, <3>1, <3>2 DEF Contract!Tick, Taken
  <2>4. CASE /\ o \in Traces /\ recorded' = [recorded EXCEPT ![o] = @ + 1]
             /\ calls' = [calls EXCEPT !["total"] = @ + 1]
    <3>1. /\ calls'["total"] = calls["total"] + 1
          /\ \A k \in Kinds : calls'[k] = calls[k]
      BY <2>2, <2>4 DEF Counters, Kinds
    <3>2. Taken' = [Taken EXCEPT ![o] = @ + 1]
      BY <2>2, <2>4, <3>1, TablesAssumption, ZenonT(60) DEF Taken, Outcomes
    <3>3. QED  BY <2>1, <3>1, <3>2 DEF Contract!Tick, Taken
  <2>5. QED  BY <1>4, <2>3, <2>4 DEF recordSample, ghosts
<1>5. CASE \E o \in Outcomes : recordSample(o)
  <2>1. \E o \in Traces \cup Kinds : Contract!Tick(o)
    BY <1>4, <1>5 DEF Outcomes
  <2>2. QED  BY <2>1 DEF Contract!Next
<1>6. QED  BY <1>1, <1>2, <1>3, <1>5 DEF Next

\* The agent implements its contract: what STOP returns is what was sampled
\* since the last START, exactly as long as the traces fit the table.
THEOREM ContractIsKept == Spec => KeepsContract
<1>1. TablesInv /\ TablesInv' /\ [Next]_vars => [Contract!Next]_(Contract!vars)
  BY NextImplements
<1>2. QED
  BY <1>1, InitImplements, TablesInvariant, PTL DEF Spec, KeepsContract, Contract!Spec
=============================================================================
