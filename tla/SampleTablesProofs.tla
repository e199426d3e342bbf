-------------------------- MODULE SampleTablesProofs --------------------------
(***************************************************************************)
(* Lemmas about the operators of SampleTables.tla, for every size of the   *)
(* tables and every hash function.                                         *)
(***************************************************************************)
EXTENDS SampleTables, FiniteSetTheorems, TLAPS

\* p rearranges the slots of a table into those of a sorted one.
Rearranges(p, table, sorted) ==
  /\ p \in [Slots -> Slots]
  /\ \A i \in Slots : sorted[i] = table[p[i]]
  /\ \A i, j \in Slots : p[i] = p[j] => i = j
  /\ \A j \in Slots : \E i \in Slots : p[i] = j

\* Sorting rearranges the slots of a table.
LEMMA QSortPermutes ==
  ASSUME NEW table, NEW sorted \in QSort(table)
  PROVE  /\ sorted = [i \in Slots |-> sorted[i]]
         /\ \E p : Rearranges(p, table, sorted)
         /\ \A i, j \in Slots : i < j => sorted[i].count >= sorted[j].count
<1>1. PICK p \in Bijection(Slots, Slots) :
        /\ sorted = [i \in Slots |-> table[p[i]]]
        /\ \A i, j \in Slots : i < j => table[p[i]].count >= table[p[j]].count
  BY DEF QSort
<1>2. /\ p \in [Slots -> Slots]
      /\ \A i, j \in Slots : p[i] = p[j] => i = j
      /\ \A j \in Slots : \E i \in Slots : p[i] = j
  BY DEF Bijection, Injection, Surjection, IsInjective
<1>3. \A i \in Slots : sorted[i] = table[p[i]]
  BY <1>1
<1>4. Rearranges(p, table, sorted)
  BY <1>2, <1>3 DEF Rearranges
<1>5. QED  BY <1>1, <1>3, <1>4

\* Every slot of a sorted table was a slot of the table.
LEMMA QSortSlots ==
  ASSUME NEW table, NEW sorted \in QSort(table)
  PROVE  /\ sorted = [i \in Slots |-> sorted[i]]
         /\ \A i \in Slots : \E j \in Slots : sorted[i] = table[j]
BY QSortPermutes DEF Rearranges

\* A sorted table has the type of the table.
LEMMA QSortTraces ==
  ASSUME NEW table \in [Slots -> TraceSlot], NEW sorted \in QSort(table)
  PROVE  sorted \in [Slots -> TraceSlot]
BY QSortPermutes, QSortSlots

LEMMA QSortMethods ==
  ASSUME NEW table \in [Slots -> MethodSlot], NEW sorted \in QSort(table)
  PROVE  sorted \in [Slots -> MethodSlot]
BY QSortPermutes, QSortSlots

\* The top frame of a trace is a method id.
LEMMA TopMethodType ==
  ASSUME NEW t \in Traces
  PROVE  TopMethod(t) \in MethodIds
BY TablesAssumption DEF TopMethod, MethodIds
-----------------------------------------------------------------------------
(***************************************************************************)
(* The probe loop.                                                         *)
(***************************************************************************)
\* Probing from a bucket visits different slots after different numbers of
\* steps.
LEMMA DistFacts ==
  ASSUME NEW b \in Slots, NEW i \in Slots, NEW j \in Slots
  PROVE  /\ Dist(b, i) \in Nat
         /\ Dist(b, i) = Dist(b, j) => i = j
         /\ Dist(b, b) = 0
BY TablesAssumption DEF Slots, Dist

\* Where the probe is left, in terms of the slots it passes.
LEMMA ProbeFacts ==
  ASSUME NEW b \in Slots, NEW s \in Slots, NEW stops \in SUBSET Slots,
         ProbeEndsAt(b, s, stops)
  PROVE  \/ /\ s \in stops
            /\ \A j \in Slots : Dist(b, j) < Dist(b, s) => j \notin stops
         \/ /\ s = b
            /\ \A j \in Slots : j \notin stops
<1>1. \A j \in Slots : Dist(b, j) \in Nat
  BY DistFacts
<1>2. QED  BY <1>1 DEF ProbeEndsAt

\* The bucket of a hash is a slot.
LEMMA BucketType ==
  ASSUME NEW h \in Nat
  PROVE  Bucket(h) \in Slots
BY TablesAssumption DEF Bucket, Slots

\* A table whose slots all hold different values, none of them x, leaves no
\* room for x: the values and x together are too many.
LEMMA FullTable ==
  ASSUME NEW R, IsFiniteSet(R), NEW x \in R, NEW f \in [Slots -> R \ {x}],
         \A i, j \in Slots : f[i] = f[j] => i = j
  PROVE  ~(Cardinality(R) <= MAX_CALLTRACES)
<1>1. f \in Injection(Slots, R \ {x})
  BY DEF Injection, IsInjective
<1>2. IsFiniteSet(R \ {x}) /\ Cardinality(R \ {x}) = Cardinality(R) - 1
  BY FS_RemoveElement
<1>3. Cardinality(R) \in Nat
  BY FS_CardinalityType
<1>4. Cardinality(Slots) = MAX_CALLTRACES
  BY FS_Interval, TablesAssumption DEF Slots
<1>5. Cardinality(Slots) <= Cardinality(R \ {x})
  BY <1>1, <1>2, FS_Injection
<1>6. QED  BY <1>2, <1>3, <1>4, <1>5, TablesAssumption
===============================================================================
