------------------------------ MODULE HitCounters -----------------------------
(***************************************************************************)
(* Occasional logging in easylogging: LOG_EVERY_N, LOG_AFTER_N and         *)
(* LOG_N_TIMES statements, each counted by the HitCounter of its file and  *)
(* line (RegisteredHitCounters).                                           *)
(***************************************************************************)
EXTENDS Naturals, FiniteSets, FiniteSetsExt

CONSTANTS
  Every, After, Times,  \* the n of the statements of each kind (one line each)
  kMaxLogPerCounter,
  MaxHits               \* bound: how often each line is reached

\* What the constants must satisfy.
HitCountersAssumption ==
  /\ Every \cup After \cup Times \subseteq Nat
  /\ kMaxLogPerCounter \in Nat \ {0} /\ MaxHits \in Nat

Lines == ({"every"} \X Every) \cup ({"after"} \X After) \cup ({"times"} \X Times)

VARIABLES
  counters,   \* the lines with a registered counter
  hitCounts,  \* their counts
  hits,       \* history: how often the line was reached
  logged      \* history: how often it logged

vars == <<counters, hitCounts, hits, logged>>

TypeOK ==
  /\ counters \in SUBSET Lines
  /\ hitCounts \in [counters -> 0 .. Max({kMaxLogPerCounter + 1, MaxHits})]
  /\ hits \in [Lines -> 0 .. MaxHits] /\ logged \in [Lines -> 0 .. MaxHits]

Init ==
  /\ counters = {} /\ hitCounts = [l \in {} |-> 0]
  /\ hits = [l \in Lines |-> 0] /\ logged = [l \in Lines |-> 0]

\* Mutant: the counter starts again at 0.
validateHitCountsFromZero(h, n) == IF h >= kMaxLogPerCounter THEN 1 ELSE h + 1

\* HitCounter::validateHitCounts: the count is kept below the maximum.
validateHitCounts(h, n) ==
  (IF h >= kMaxLogPerCounter THEN IF n >= 1 THEN kMaxLogPerCounter % n ELSE 0 ELSE h) + 1

\* get, or registerNew.
CountOf(l) == IF l \in counters THEN hitCounts[l] ELSE 0

Reach(l, count, result) ==
  /\ hits[l] < MaxHits
  /\ counters' = counters \cup {l}
  /\ hitCounts' = [k \in counters' |-> IF k = l THEN count ELSE hitCounts[k]]
  /\ hits' = [hits EXCEPT ![l] = @ + 1]
  /\ logged' = [logged EXCEPT ![l] = IF result THEN @ + 1 ELSE @]

validateEveryN(n) ==
  LET h == validateHitCounts(CountOf(<<"every", n>>), n)
  IN  Reach(<<"every", n>>, h, n >= 1 /\ h # 0 /\ h % n = 0)

validateAfterN(n) ==
  LET h == CountOf(<<"after", n>>)
  IN  Reach(<<"after", n>>, IF h >= n THEN h ELSE h + 1, h >= n)

validateNTimes(n) ==
  LET h == CountOf(<<"times", n>>) + 1
  IN  Reach(<<"times", n>>, h, h <= n)

Next ==
  \/ \E n \in Every : validateEveryN(n)
  \/ \E n \in After : validateAfterN(n)
  \/ \E n \in Times : validateNTimes(n)

Spec == Init /\ [][Next]_vars

-------------------------------------------------------------------------------
\* A LOG_EVERY_N statement has logged once for every n hits, however often its
\* counter was wound back (RegisteredHitCounters::validateEveryN), unless n is
\* out of the counter's reach.
EveryNth ==
  \A n \in Every :
    n <= kMaxLogPerCounter =>
      logged[<<"every", n>>] = IF n = 0 THEN 0 ELSE hits[<<"every", n>>] \div n

\* LOG_AFTER_N and LOG_N_TIMES split the hits between them: the first logs all
\* but the first n hits, the second just these.
AfterAndTimes ==
  /\ \A n \in After : LET h == hits[<<"after", n>>]
                      IN  logged[<<"after", n>>] = IF h <= n THEN 0 ELSE h - n
  /\ \A n \in Times : logged[<<"times", n>>] = Min({hits[<<"times", n>>], n})
===============================================================================
