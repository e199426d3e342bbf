------------------------- MODULE MCConcurrentProfiler -------------------------
(***************************************************************************)
(* Instances of ConcurrentProfiler for TLC.  The traces share a bucket, so *)
(* that two handlers claim the same slot, and so do the methods.           *)
(***************************************************************************)
EXTENDS ConcurrentProfiler, TLC

CONSTANTS attacher, worker, t1, t2, m1, m2

MCThreads    == {attacher, worker}
MCTraces     == {t1, t2}
MCMethods    == {m1, m2}
MCFrames     == t1 :> <<m1>> @@ t2 :> <<m2, m1>>
MCTraceHash  == t1 :> 5 @@ t2 :> 3
MCMethodHash == m1 :> 7 @@ m2 :> 9

TracesAndGC == MCTraces \cup {"gc"}
=============================================================================
