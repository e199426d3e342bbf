------------------------------ MODULE MCProfiler ------------------------------
(***************************************************************************)
(* Instances of Profiler for TLC.  Three traces over two slots fill the    *)
(* trace table; the hashes make the probe wrap and collide.                *)
(***************************************************************************)
EXTENDS Profiler, TLC

CONSTANTS t1, t2, t3, m1, m2, m3

MCTraces  == {t1, t2, t3}
MCMethods == {m1, m2, m3}

\* t2 has a null id below its top frame.
MCFrames == t1 :> <<m1>> @@ t2 :> <<m2, NULL, m1>> @@ t3 :> <<m3, m2>>

\* t1 and t2 share the last bucket, whatever the (even) number of slots is.
MCTraceHash  == t1 :> 7 @@ t2 :> 19 @@ t3 :> 4
MCMethodHash == m1 :> 3 @@ m2 :> 15 @@ m3 :> 8

\* The edges: a trace that hashes to 0, and one whose top frame has no id.
EdgeFrames    == t1 :> <<m1>> @@ t2 :> <<m2, NULL, m1>> @@ t3 :> <<NULL, m2>>
EdgeTraceHash == t1 :> 7 @@ t2 :> 0 @@ t3 :> 4
=============================================================================
