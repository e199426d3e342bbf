--------------------------- MODULE ProfilerContract ---------------------------
(***************************************************************************)
(* What the agent promises to whoever sends it START and STOP: a report    *)
(* tells how often each call trace was seen since sampling was last        *)
(* started, and no more than that.  No tables, hashes or signals here.     *)
(***************************************************************************)
EXTENDS Integers

CONSTANTS
  Traces,    \* call traces
  Kinds,     \* classes of samples without a trace
  Fits(_)    \* Fits(S): reports are exact if S is the set of traces seen

VARIABLES
  sampling,  \* samples are being taken
  ticks,     \* samples taken since sampling was last started
  taken,     \* the same, for each trace and each kind
  report     \* the last report, if any: at most one

vars == <<sampling, ticks, taken, report>>

Zero == [o \in Traces \cup Kinds |-> 0]

Seen == { t \in Traces : taken[t] > 0 }

(***************************************************************************)
(* counts[t] is the set of counts listed for trace t.  A trace may only be *)
(* left out, or its count be too low, when there are too many traces.      *)
(***************************************************************************)
Faithful(r) ==
  /\ r.total = ticks
  /\ \A k \in Kinds : r.kinds[k] = taken[k]
  /\ \A t \in Traces : r.counts[t] \subseteq 1 .. taken[t]
  /\ Fits(Seen) =>
       \A t \in Traces : r.counts[t] = IF t \in Seen THEN {taken[t]} ELSE {}

Init ==
  /\ sampling = FALSE
  /\ ticks = 0
  /\ taken = Zero
  /\ report = {}

Start ==
  /\ ~sampling
  /\ sampling' = TRUE
  /\ ticks' = 0
  /\ taken' = Zero
  /\ UNCHANGED report

Tick(o) ==
  /\ sampling
  /\ ticks' = ticks + 1
  /\ taken' = [taken EXCEPT ![o] = @ + 1]
  /\ UNCHANGED <<sampling, report>>

\* A report may also get lost on its way out.
Stop ==
  /\ sampling' = FALSE
  /\ \/ UNCHANGED report
     \/ \E r \in report' : report' = {r} /\ Faithful(r)
  /\ UNCHANGED <<ticks, taken>>

Next ==
  \/ Start
  \/ Stop
  \/ \E o \in Traces \cup Kinds : Tick(o)

Spec == Init /\ [][Next]_vars
=============================================================================
