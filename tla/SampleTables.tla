----------------------------- MODULE SampleTables -----------------------------
(***************************************************************************)
(* The data of the native agent's Profiler object (profiler.h): the        *)
(* open-addressing tables in which the SIGPROF handler counts call traces  *)
(* and top-of-stack methods, and the response that is built from them.     *)
(* There are no variables here: Profiler.tla runs these tables with one    *)
(* handler at a time, ConcurrentProfiler.tla with handlers interleaved.    *)
(*                                                                         *)
(* A call trace is a model value; two traces differ when their frames or   *)
(* their bytecode indexes differ.  Hash values are arbitrary naturals.     *)
(***************************************************************************)
EXTENDS Integers, Sequences, FiniteSets, Functions

CONSTANTS
  MAX_CALLTRACES,  \* number of slots of each table
  Traces,          \* the call traces AsyncGetCallTrace can produce
  Methods,         \* the jmethodIDs
  NULL,            \* the null jmethodID, and the content of a zeroed slot
  Frames,          \* Frames[t]: the method ids of trace t, top frame first
  TraceHash,       \* TraceHash[t]: the 64-bit hash of trace t
  MethodHash       \* MethodHash[m]: the 64-bit hash of method id m

(***************************************************************************)
(* The samples that carry no trace: no JNIEnv on the thread, and the       *)
(* num_frames codes -2, -9 and the rest.                                   *)
(***************************************************************************)
Kinds == {"non_java", "gc", "deopt", "unknown"}

(***************************************************************************)
(* Only 64-bit hash collisions are assumed away.  A frame may carry a null *)
(* method id (a method whose id was never allocated), and a hash may be 0. *)
(***************************************************************************)
ASSUME TablesAssumption ==
  /\ MAX_CALLTRACES \in Nat \ {0}
  /\ IsFiniteSet(Traces) /\ IsFiniteSet(Methods)
  /\ NULL \notin Traces \cup Methods
  /\ Traces \cap Kinds = {}
  /\ Frames \in [Traces -> Seq(Methods \cup {NULL})]
  /\ \A t \in Traces : Frames[t] # << >>
  /\ TraceHash \in [Traces -> Nat]
  /\ \A t, u \in Traces : TraceHash[t] = TraceHash[u] => t = u
  /\ MethodHash \in [Methods -> Nat]

MethodIds == Methods \cup {NULL}

Slots == 0 .. MAX_CALLTRACES - 1

\* Mutant: the hash is cut down to the number of the bucket.
TruncatedHash(t) == TraceHash[t] % MAX_CALLTRACES

hashCallTrace(t) == TraceHash[t]

\* The zero hash marks an empty slot, so no trace should have it.
HashNonZero == \A t \in Traces : TraceHash[t] # 0

\* The mixing steps of hashMethod map a null pointer to 0.
hashMethod(m) == IF m = NULL THEN 0 ELSE MethodHash[m]

Bucket(hash) == hash % MAX_CALLTRACES

TopMethod(t) == Frames[t][1]

EmptyTrace == [count |-> 0, trace |-> NULL]

\* Mutant: the table is filled with 0xff bytes instead of zeroes.
FilledMethod == [count |-> -1, method |-> NULL]

EmptyMethod == [count |-> 0, method |-> NULL]

NoHashes  == [i \in Slots |-> 0]
NoTraces  == [i \in Slots |-> EmptyTrace]
NoMethods == [i \in Slots |-> EmptyMethod]

TraceSlot  == [count : Nat, trace : Traces \cup {NULL}]
MethodSlot == [count : Nat, method : MethodIds]

Counters == Kinds \cup {"total"}
Outcomes == Traces \cup Kinds
NoCalls  == [c \in Counters |-> 0]
-----------------------------------------------------------------------------
(***************************************************************************)
(* The probe loop.  Slots are visited from the bucket upwards, wrapping at *)
(* the end of the array; Dist counts the slots visited before s.           *)
(***************************************************************************)
Dist(bucket, s) == IF s >= bucket THEN s - bucket ELSE s - bucket + MAX_CALLTRACES

\* Mutant: the probe gives up at the end of the array.
ProbeEndsAtNoWrap(bucket, s, stops) ==
  \/ /\ s \in stops /\ s >= bucket
     /\ \A j \in bucket .. s - 1 : j \notin stops
  \/ /\ s = bucket
     /\ \A j \in bucket .. MAX_CALLTRACES - 1 : j \notin stops

(***************************************************************************)
(* The loop is left at s: either s is the first slot that stops it, or no  *)
(* slot stops it and i is back at the bucket.                              *)
(***************************************************************************)
ProbeEndsAt(bucket, s, stops) ==
  \/ /\ s \in stops
     /\ \A j \in stops : Dist(bucket, s) <= Dist(bucket, j)
  \/ /\ s = bucket
     /\ stops = {}

\* Mutant: the call of qsort is missing.
Unsorted(table) == {table}

(***************************************************************************)
(* qsort with the descending comparator: any sorted permutation of table,  *)
(* since qsort is not stable.                                              *)
(***************************************************************************)
QSort(table) ==
  { [i \in Slots |-> table[p[i]]] :
      p \in { q \in Bijection(Slots, Slots) :
                \A i, j \in Slots : i < j => table[q[i]].count >= table[q[j]].count } }

\* The method ids the two loops insert into methodIds.
MethodsOfMethods(saved) == { saved[i].method : i \in DOMAIN saved }

\* Mutant: the test for a null id is missing.
FrameMethodsUnchecked(t) ==
  IF t = NULL THEN {} ELSE { Frames[t][k] : k \in DOMAIN Frames[t] }

\* Null ids are skipped, unlike in saveMethods.
FrameMethods(t) ==
  IF t = NULL THEN {} ELSE { Frames[t][k] : k \in DOMAIN Frames[t] } \ {NULL}

\* Mutant: only the top frame's method is inserted.
MethodsOfTopFrames(saved) == { TopMethod(saved[i].trace) : i \in DOMAIN saved }

MethodsOfTraces(saved) == UNION { FrameMethods(saved[i].trace) : i \in DOMAIN saved }
=============================================================================
