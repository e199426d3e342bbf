--------------------------- MODULE PerformanceTracker --------------------------
(***************************************************************************)
(* The performance tracker of easylogging: TIMED_SCOPE measures the time   *)
(* from its construction to its end and at checkpoints, with gettimeofday, *)
(* a clock that can be set while it measures.                              *)
(***************************************************************************)
EXTENDS Integers, Sequences, SequencesExt, TLC

CONSTANTS
  Units,      \* the timestamp units a tracker is made with
  Ratios,     \* kTimeFormats: how many of each unit are one of the next
  Word,       \* 2^64 in the code: an unsigned long long
  Steps,      \* how far the clock moves at a time, in the smallest unit
  MaxTime, MaxReports   \* bounds: the clock, and reports in a behaviour

\* Units are indices of kTimeFormats: 1 is the microsecond, 2 the millisecond.
\* What the constants must satisfy.
PerformanceTrackerAssumption ==
  /\ Units \subseteq 1..2 /\ Ratios \in Seq(Nat \ {0}) /\ Len(Ratios) >= 2
  /\ Steps \subseteq Int /\ {Word, MaxTime, MaxReports} \subseteq Nat /\ Word > MaxTime

VARIABLES
  now,      \* the clock
  elapsed,  \* the time that really passed
  sets,     \* how often the clock was set back
  conf,     \* performanceTracking of the logger
  flags,    \* the flags a tracker reads
  tracker,  \* the tracker alive, or None
  reports   \* what trackers reported

vars == <<now, elapsed, sets, conf, flags, tracker, reports>>

None == [alive |-> FALSE]
FlagNames == {"FixedTimeFormat", "DisablePerformanceTrackingCheckpointComparison"}

\* gettimeofday, with what the clock does not tell.
Reading == [clock |-> now, elapsed |-> elapsed, sets |-> sets]

Towards0(n, d) == IF n < 0 THEN -((-n) \div d) ELSE n \div d

\* getTimeDifference: milliseconds are divided before the conversion, and
\* division truncates towards zero.
getTimeDifference(end, start, unit) ==
  (IF unit = 1 THEN end - start ELSE Towards0(end - start, Ratios[1])) % Word

\* formatTime: divided by the ratios, from that of the tracker's unit on, as
\* long as it is more than the next one; the last is not used.
Shows(t, unit) ==
  FoldLeft(LAMBDA s, k : IF s.den * Ratios[k] >= t \/ s.unit < k THEN s
                         ELSE [den |-> s.den * Ratios[k], unit |-> k + 1],
           [den |-> 1, unit |-> unit], [k \in 1..Len(Ratios) - unit |-> unit + k - 1]).unit

\* getFormattedTimeTaken for the time since an earlier reading, at the end of
\* which the clock is at now.
Taken(kind, from) ==
  LET t == getTimeDifference(now, from.clock, tracker.unit) IN
  [kind |-> kind, time |-> t, unit |-> tracker.unit,
   shown |-> IF "FixedTimeFormat" \in flags THEN tracker.unit ELSE Shows(t, tracker.unit),
   passed |-> elapsed - from.elapsed, steady |-> from.sets = sets, wanted |-> tracker.wanted]

-------------------------------------------------------------------------------
Init ==
  /\ now = 0 /\ elapsed = 0 /\ sets = 0
  /\ conf \in BOOLEAN /\ flags \in SUBSET FlagNames
  /\ tracker = None /\ reports = <<>>

Runs(d) == d >= 0 /\ elapsed + d <= MaxTime /\ now' = now + d /\ elapsed' = elapsed + d

\* The clock runs, or somebody sets it back.
Tick(d) ==
  /\ \/ Runs(d) /\ UNCHANGED sets
     \/ d < 0 /\ now + d >= 0 /\ now' = now + d /\ sets' = sets + 1 /\ UNCHANGED elapsed
  /\ sets' <= 1
  /\ UNCHANGED <<conf, flags, tracker, reports>>

Reconfigure == conf' = ~conf /\ UNCHANGED <<now, elapsed, sets, flags, tracker, reports>>

\* The configuration is read once.  wanted is what it was then.
Construct(unit) ==
  /\ ~tracker.alive
  /\ tracker' = [alive |-> TRUE, m_enabled |-> conf, unit |-> unit, start |-> Reading,
                 last |-> Reading, m_hasChecked |-> FALSE, wanted |-> conf]
  /\ UNCHANGED <<now, elapsed, sets, conf, flags, reports>>

\* Mutant: the time of the last checkpoint is read before the report is written.
CheckpointBefore(d) ==
  /\ tracker.alive /\ tracker.m_enabled /\ Len(reports) < MaxReports
  /\ Runs(d) /\ UNCHANGED <<sets, conf, flags>>
  /\ reports' = Append(reports, Taken("whole", tracker.start))
                  \o (IF tracker.m_hasChecked THEN <<Taken("part", tracker.last)>> ELSE <<>>)
  /\ tracker' = [tracker EXCEPT !.m_hasChecked = TRUE,
                   !.last = [Reading EXCEPT !.elapsed = elapsed']]

\* checkpoint reports the time since the start and, from the second on, since
\* the last one.  Writing the report takes the time d; then the clock is read
\* again for the next.
Checkpoint(d) ==
  /\ tracker.alive /\ tracker.m_enabled /\ Len(reports) < MaxReports
  /\ Runs(d) /\ UNCHANGED <<sets, conf, flags>>
  /\ reports' = Append(reports, Taken("whole", tracker.start))
                  \o (IF tracker.m_hasChecked
                         /\ "DisablePerformanceTrackingCheckpointComparison" \notin flags
                      THEN <<Taken("part", tracker.last)>> ELSE <<>>)
  /\ tracker' = [tracker EXCEPT !.m_hasChecked = TRUE, !.last = Reading']

\* ~PerformanceTracker, of a tracker made with scopedLog.
Destroy ==
  /\ tracker.alive
  /\ tracker' = None
  /\ reports' = IF tracker.m_enabled THEN Append(reports, Taken("end", tracker.start)) ELSE reports
  /\ UNCHANGED <<now, elapsed, sets, conf, flags>>

Next ==
  \/ \E d \in Steps : Tick(d) \/ Checkpoint(d)
  \/ \E unit \in Units : Len(reports) < MaxReports /\ Construct(unit)
  \/ Reconfigure \/ Destroy

Spec == Init /\ [][Next]_vars

-------------------------------------------------------------------------------
(***************************************************************************)
(* Properties.                                                             *)
(***************************************************************************)

\* A time is measured as it passed, in whole units, when the clock was not set
\* back in between; and a part does not have the time reports took to write.
\* (With the clock set back the difference is negative and wraps around.)
TimesExact ==
  \A k \in DOMAIN reports :
    LET r == reports[k] IN
    r.steady => r.time = IF r.unit = 1 THEN r.passed ELSE r.passed \div Ratios[1]

\* "We store it locally so that if user happen to change configuration by the
\* end of scope or before calling checkpoint, we still depend on state of
\* configuraton at time of construction".
AsConstructed == \A k \in DOMAIN reports : reports[k].wanted

\* "units like second if > 1000 or minutes if > 60000 etc": the unit shown is
\* the largest the time has more than one of, and with FixedTimeFormat the
\* tracker's own.
Size(from, to) == FoldLeft(LAMBDA p, k : p * Ratios[k], 1, [k \in 1..to - from |-> from + k - 1])
UnitShown ==
  \A k \in DOMAIN reports :
    LET r == reports[k] IN
    IF "FixedTimeFormat" \in flags THEN r.shown = r.unit
    ELSE \A u \in r.unit + 1..Len(Ratios) : u <= r.shown <=> r.time > Size(r.unit, u)
===============================================================================
