--------------------------- MODULE EasyLoggingProofs ---------------------------
(***************************************************************************)
(* Proofs about EasyLogging.tla, for every value of the constants that     *)
(* EasyLoggingAssumption admits: hit counters, configurations, the lines   *)
(* and files they are read from, statements and log files, performance     *)
(* tracking and dates.                                                     *)
(* A part's invariant is proved from its own Init and Next; at the end,    *)
(* those of the parts are put together.                                    *)
(***************************************************************************)
EXTENDS EasyLogging, FoldProofs, Integers, Sequences, FiniteSets, FiniteSetTheorems, SequenceTheorems, TLAPS

(***************************************************************************)
(* Hit counters.  A line with the count c was hit h times and logged g     *)
(* times.  The counter of LOG_EVERY_N is wound back to a count that leaves *)
(* the same remainder, and stays in reach of n.                            *)
(***************************************************************************)
OnLine(l, c, h, g) ==
  /\ g <= h
  /\ l[1] = "every" /\ l[2] = 0 => g = 0
  /\ l[1] = "every" /\ l[2] \in 1 .. kMaxLogPerCounter =>
       c <= kMaxLogPerCounter /\ c % l[2] = h % l[2] /\ g = h \div l[2]
  /\ l[1] = "after" => /\ c = (IF h <= l[2] THEN h ELSE l[2])
                       /\ g = (IF h <= l[2] THEN 0 ELSE h - l[2])
  /\ l[1] = "times" => c = h /\ g = (IF h <= l[2] THEN h ELSE l[2])
  /\ l[1] = "every" => c <= kMaxLogPerCounter + 1

HitInv ==
  /\ counters \in SUBSET HC!Lines
  /\ hitCounts \in [counters -> Nat]
  /\ hits \in [HC!Lines -> 0 .. MaxHits] /\ logged \in [HC!Lines -> 0 .. MaxHits]
  /\ \A l \in HC!Lines : OnLine(l, HC!CountOf(l), hits[l], logged[l])

LEMMA GreaterOf ==
  ASSUME NEW a \in Nat, NEW b \in Nat
  PROVE  HC!Max({a, b}) = (IF a >= b THEN a ELSE b) /\ HC!Min({a, b}) = (IF a <= b THEN a ELSE b)
<1> DEFINE S == {a, b}
           x == IF a >= b THEN a ELSE b
           y == IF a <= b THEN a ELSE b
<1>1. x \in S /\ (\A z \in S : x >= z) /\ \A v \in S : (\A z \in S : v >= z) => v = x
  OBVIOUS
<1>2. y \in S /\ (\A z \in S : y <= z) /\ \A v \in S : (\A z \in S : v <= z) => v = y
  OBVIOUS
<1> HIDE DEF S, x, y
<1>3. HC!Max(S) = x
  BY <1>1, Zenon DEF HC!Max
<1>4. HC!Min(S) = y
  BY <1>2, Zenon DEF HC!Min
<1>5. QED  BY <1>3, <1>4 DEF S, x, y

LEMMA Division ==
  ASSUME NEW x \in Nat, NEW n \in Nat \ {0}
  PROVE  x = n * (x \div n) + (x % n) /\ x \div n \in Nat /\ x % n \in 0 .. n - 1 /\ x % n <= x
<1>1. x \div n \in Nat
  OBVIOUS
<1>2. x % n \in 0 .. n - 1
  OBVIOUS
<1>3. x % n <= x
  OBVIOUS
<1>4. x = n * (x \div n) + (x % n)
  OBVIOUS
<1>5. QED  BY <1>1, <1>2, <1>3, <1>4

LEMMA DivisionUnique ==
  ASSUME NEW x \in Nat, NEW n \in Nat \ {0}, NEW q \in Nat, NEW r \in 0 .. n - 1, x = n * q + r
  PROVE  x % n = r /\ x \div n = q
<1> DEFINE p == x \div n
           s == x % n
<1>1. x = n * p + s /\ p \in Nat /\ s \in 0 .. n - 1
  BY Division
<1> HIDE DEF p, s
<1>2. p = q
  <2>1. ASSUME p < q PROVE FALSE
    <3>1. p + 1 <= q
      BY <1>1, <2>1
    <3>2. n * (p + 1) <= n * q /\ n * (p + 1) = n * p + n
      BY <1>1, <3>1
    <3>3. QED  BY <1>1, <3>2
  <2>2. ASSUME q < p PROVE FALSE
    <3>1. q + 1 <= p
      BY <1>1, <2>2
    <3>2. n * (q + 1) <= n * p /\ n * (q + 1) = n * q + n
      BY <1>1, <3>1
    <3>3. QED  BY <1>1, <3>2
  <2>3. QED  BY <1>1, <2>1, <2>2
<1>3. n * p = n * q /\ n * q \in Int
  BY <1>2
<1>4. s = r
  BY <1>1, <1>3
<1>5. QED  BY <1>2, <1>4 DEF p, s

LEMMA NextRemainder ==
  ASSUME NEW h \in Nat, NEW n \in Nat \ {0}
  PROVE  /\ ((h % n) + 1) % n = (h + 1) % n
         /\ (h + 1) \div n = (h \div n) + (IF (h + 1) % n = 0 THEN 1 ELSE 0)
         /\ h % n \in 0 .. n - 1 /\ h % n <= h /\ h \div n \in Nat
<1> DEFINE q == h \div n
           r == h % n
<1>1. h = n * q + r /\ q \in Nat /\ r \in 0 .. n - 1 /\ r <= h
  BY Division
<1> HIDE DEF q, r
<1>2. CASE r + 1 < n
  <2>1. h + 1 = n * q + (r + 1) /\ r + 1 = n * 0 + (r + 1) /\ r + 1 \in 0 .. n - 1 /\ r + 1 \in Nat /\ r + 1 # 0
    BY <1>1, <1>2
  <2>2. (h + 1) % n = r + 1 /\ (h + 1) \div n = q
    BY <1>1, <2>1, DivisionUnique
  <2>3. (r + 1) % n = r + 1
    BY <2>1, DivisionUnique
  <2>4. QED  BY <1>1, <2>1, <2>2, <2>3 DEF q, r
<1>3. CASE r + 1 = n
  <2>1. h + 1 = n * (q + 1) + 0 /\ r + 1 = n * 1 + 0 /\ 0 \in 0 .. n - 1 /\ r + 1 \in Nat /\ q + 1 \in Nat
    BY <1>1, <1>3
  <2>2. (h + 1) % n = 0 /\ (h + 1) \div n = q + 1
    BY <1>1, <2>1, DivisionUnique
  <2>3. (r + 1) % n = 0
    BY <2>1, DivisionUnique
  <2>4. QED  BY <1>1, <2>2, <2>3 DEF q, r
<1>4. r + 1 < n \/ r + 1 = n
  BY <1>1
<1>5. QED  BY <1>2, <1>3, <1>4

LEMMA SameRemainder ==
  ASSUME NEW c \in Nat, NEW h \in Nat, NEW n \in Nat \ {0}, c % n = h % n
  PROVE  (c + 1) % n = (h + 1) % n
<1>1. ((c % n) + 1) % n = (c + 1) % n /\ ((h % n) + 1) % n = (h + 1) % n
  BY NextRemainder
<1>2. QED  BY <1>1

LEMMA LineKinds ==
  ASSUME HC!HitCountersAssumption, NEW l \in HC!Lines
  PROVE  /\ l[2] \in Nat
         /\ \/ l[1] = "every" /\ l[2] \in Every /\ l = <<"every", l[2]>>
            \/ l[1] = "after" /\ l[2] \in AfterN /\ l = <<"after", l[2]>>
            \/ l[1] = "times" /\ l[2] \in Times /\ l = <<"times", l[2]>>
BY DEF HC!Lines, HC!HitCountersAssumption

LEMMA CountsOn ==
  ASSUME HC!HitCountersAssumption, HitInv, NEW l \in HC!Lines
  PROVE  HC!CountOf(l) \in Nat /\ hits[l] \in Nat /\ logged[l] \in Nat
BY DEF HitInv, HC!CountOf, HC!HitCountersAssumption

LEMMA EveryStep ==
  ASSUME HC!HitCountersAssumption, NEW l, l[1] = "every", l[2] \in Nat,
         NEW c \in Nat, NEW h \in Nat, NEW g \in Nat, OnLine(l, c, h, g),
         NEW v, v = HC!validateHitCounts(c, l[2])
  PROVE  /\ v \in Nat
         /\ OnLine(l, v, h + 1, IF l[2] >= 1 /\ v # 0 /\ v % l[2] = 0 THEN g + 1 ELSE g)
<1> DEFINE n == l[2]
           K == kMaxLogPerCounter
           r == n >= 1 /\ v # 0 /\ v % n = 0
<1>1. K \in Nat \ {0} /\ n \in Nat /\ g <= h /\ c <= K + 1
  BY DEF HC!HitCountersAssumption, OnLine
<1>2. v = (IF c >= K THEN IF n >= 1 THEN K % n ELSE 0 ELSE c) + 1
  BY DEF HC!validateHitCounts
<1>0. l[1] = "every" /\ l[2] = n /\ kMaxLogPerCounter = K /\ OnLine(l, c, h, g)
  OBVIOUS
<1> HIDE DEF n, K
<1>3. n >= 1 => K % n \in 0 .. n - 1 /\ K % n <= K
  <2>1. n >= 1 => n \in Nat \ {0} /\ K \in Nat
    BY <1>1
  <2>2. QED  BY <2>1, NextRemainder
<1>4. v \in Nat /\ v <= K + 1 /\ v # 0
  BY <1>1, <1>2, <1>3
<1>5. ASSUME n \in 1 .. K
      PROVE  /\ v <= K /\ v % n = (h + 1) % n
             /\ (IF r THEN g + 1 ELSE g) = (h + 1) \div n
  <2>1. c <= K /\ c % n = h % n /\ g = h \div n
    BY <1>0, <1>5 DEF OnLine
  <2>0. n \in Nat \ {0}
    BY <1>1, <1>5
  <2>2. v = (c % n) + 1 \/ (c < K /\ v = c + 1)
    BY <1>1, <1>2, <1>5, <2>1
  <2>3. c % n \in 0 .. n - 1 /\ ((c % n) + 1) % n = (c + 1) % n /\ (c + 1) % n = (h + 1) % n
    BY <2>0, <2>1, NextRemainder, SameRemainder
  <2>4. v <= K /\ v % n = (h + 1) % n
    BY <1>1, <1>5, <2>2, <2>3
  <2>5. (h + 1) \div n = (h \div n) + (IF (h + 1) % n = 0 THEN 1 ELSE 0)
    BY <2>0, NextRemainder
  <2>6. r <=> (h + 1) % n = 0
    BY <1>4, <1>5, <2>4
  <2> HIDE DEF r
  <2>7. QED  BY <2>1, <2>4, <2>5, <2>6
<1>6. n = 0 => g = 0 /\ ~r
  BY <1>0 DEF OnLine
<1> HIDE DEF r
<1>7. (IF r THEN g + 1 ELSE g) <= h + 1
  BY <1>1
<1>8. OnLine(l, v, h + 1, IF r THEN g + 1 ELSE g)
  BY <1>0, <1>4, <1>5, <1>6, <1>7 DEF OnLine
<1>9. QED  BY <1>4, <1>8 DEF r, n

LEMMA AfterStep ==
  ASSUME NEW l, l[1] = "after", l[2] \in Nat,
         NEW c \in Nat, NEW h \in Nat, NEW g \in Nat, OnLine(l, c, h, g)
  PROVE  OnLine(l, IF c >= l[2] THEN c ELSE c + 1, h + 1, IF c >= l[2] THEN g + 1 ELSE g)
BY DEF OnLine

LEMMA TimesStep ==
  ASSUME NEW l, l[1] = "times", l[2] \in Nat,
         NEW c \in Nat, NEW h \in Nat, NEW g \in Nat, OnLine(l, c, h, g)
  PROVE  OnLine(l, c + 1, h + 1, IF c + 1 <= l[2] THEN g + 1 ELSE g)
BY DEF OnLine

\* A hit changes the count of one line, and what was hit and logged on it.
LEMMA ReachStep ==
  ASSUME HC!HitCountersAssumption, HitInv, NEW l \in HC!Lines, NEW c \in Nat, NEW r \in BOOLEAN,
         HC!Reach(l, c, r), OnLine(l, c, hits[l] + 1, IF r THEN logged[l] + 1 ELSE logged[l])
  PROVE  HitInv'
<1> DEFINE g == IF r THEN logged[l] + 1 ELSE logged[l]
<1>1. /\ hits[l] < MaxHits /\ counters' = counters \cup {l}
      /\ hitCounts' = [k \in counters' |-> IF k = l THEN c ELSE hitCounts[k]]
      /\ hits' = [hits EXCEPT ![l] = hits[l] + 1] /\ logged' = [logged EXCEPT ![l] = g]
  BY DEF HC!Reach, HitInv
<1>2. hits[l] \in Nat /\ logged[l] \in Nat /\ g \in Nat /\ g <= hits[l] + 1 /\ MaxHits \in Nat
  BY CountsOn DEF OnLine, HC!HitCountersAssumption
<1> HIDE DEF g
<1>3. counters' \in SUBSET HC!Lines /\ hitCounts' \in [counters' -> Nat]
  BY <1>1 DEF HitInv
<1>4. hits' \in [HC!Lines -> 0 .. MaxHits] /\ logged' \in [HC!Lines -> 0 .. MaxHits]
  BY <1>1, <1>2 DEF HitInv
<1>5. \A k \in HC!Lines : HC!CountOf(k)' = IF k = l THEN c ELSE HC!CountOf(k)
  BY <1>1 DEF HC!CountOf
<1>6. \A k \in HC!Lines : /\ hits'[k] = IF k = l THEN hits[l] + 1 ELSE hits[k]
                          /\ logged'[k] = IF k = l THEN g ELSE logged[k]
  BY <1>1 DEF HitInv
<1>7. OnLine(l, c, hits[l] + 1, g)
  BY DEF g
<1>8. \A k \in HC!Lines : OnLine(k, HC!CountOf(k)', hits'[k], logged'[k])
  BY <1>5, <1>6, <1>7 DEF HitInv
<1>9. QED  BY <1>3, <1>4, <1>8 DEF HitInv

LEMMA InitHits ==
  ASSUME HC!HitCountersAssumption, HC!Init
  PROVE  HitInv
<1>1. /\ counters = {} /\ hitCounts = [l \in {} |-> 0]
      /\ hits = [l \in HC!Lines |-> 0] /\ logged = [l \in HC!Lines |-> 0]
      /\ kMaxLogPerCounter \in Nat \ {0} /\ MaxHits \in Nat
  BY DEF HC!Init, HC!HitCountersAssumption
<1>2. ASSUME NEW l \in HC!Lines
      PROVE  OnLine(l, HC!CountOf(l), hits[l], logged[l])
  <2>1. HC!CountOf(l) = 0 /\ hits[l] = 0 /\ logged[l] = 0
    BY <1>1 DEF HC!CountOf
  <2>2. \A n \in Nat \ {0} : 0 % n = 0 /\ 0 \div n = 0
    OBVIOUS
  <2>3. OnLine(l, 0, 0, 0)
    BY <1>1, <2>2, LineKinds DEF OnLine
  <2>4. QED  BY <2>1, <2>3
<1>3. QED  BY <1>1, <1>2 DEF HitInv

LEMMA NextHits ==
  ASSUME HC!HitCountersAssumption, HitInv, [HC!Next]_(HC!vars)
  PROVE  HitInv'
<1>1. ASSUME NEW n \in Every, HC!validateEveryN(n)
      PROVE  HitInv'
  <2> DEFINE l == <<"every", n>>
             v == HC!validateHitCounts(HC!CountOf(l), n)
             r == n >= 1 /\ v # 0 /\ v % n = 0
  <2>1. l \in HC!Lines /\ l[1] = "every" /\ l[2] = n /\ n \in Nat
    BY DEF HC!Lines, HC!HitCountersAssumption
  <2>2. HC!Reach(l, v, r) /\ r \in BOOLEAN
    BY <1>1 DEF HC!validateEveryN
  <2> HIDE DEF l
  <2>3. OnLine(l, HC!CountOf(l), hits[l], logged[l])
    BY <2>1 DEF HitInv
  <2>4. v \in Nat /\ OnLine(l, v, hits[l] + 1, IF r THEN logged[l] + 1 ELSE logged[l])
    BY <2>1, <2>3, CountsOn, EveryStep
  <2> HIDE DEF v, r
  <2>5. QED  BY <2>1, <2>2, <2>4, ReachStep
<1>2. ASSUME NEW n \in AfterN, HC!validateAfterN(n)
      PROVE  HitInv'
  <2> DEFINE l == <<"after", n>>
             h == HC!CountOf(l)
             c == IF h >= n THEN h ELSE h + 1
             r == h >= n
  <2>1. l \in HC!Lines /\ l[1] = "after" /\ l[2] = n /\ n \in Nat
    BY DEF HC!Lines, HC!HitCountersAssumption
  <2>2. HC!Reach(l, c, r) /\ r \in BOOLEAN
    BY <1>2 DEF HC!validateAfterN
  <2> HIDE DEF l
  <2>3. OnLine(l, h, hits[l], logged[l]) /\ h \in Nat /\ c \in Nat
    BY <2>1, CountsOn DEF HitInv
  <2>4. OnLine(l, c, hits[l] + 1, IF r THEN logged[l] + 1 ELSE logged[l])
    BY <2>1, <2>3, CountsOn, AfterStep
  <2> HIDE DEF c, r
  <2>5. QED  BY <2>1, <2>2, <2>3, <2>4, ReachStep
<1>3. ASSUME NEW n \in Times, HC!validateNTimes(n)
      PROVE  HitInv'
  <2> DEFINE l == <<"times", n>>
             c == HC!CountOf(l) + 1
             r == c <= n
  <2>1. l \in HC!Lines /\ l[1] = "times" /\ l[2] = n /\ n \in Nat
    BY DEF HC!Lines, HC!HitCountersAssumption
  <2>2. HC!Reach(l, c, r) /\ r \in BOOLEAN
    BY <1>3 DEF HC!validateNTimes
  <2> HIDE DEF l
  <2>3. OnLine(l, HC!CountOf(l), hits[l], logged[l]) /\ c \in Nat
    BY <2>1, CountsOn DEF HitInv
  <2>4. OnLine(l, c, hits[l] + 1, IF r THEN logged[l] + 1 ELSE logged[l])
    BY <2>1, <2>3, CountsOn, TimesStep
  <2> HIDE DEF c, r
  <2>5. QED  BY <2>1, <2>2, <2>3, <2>4, ReachStep
<1>4. CASE UNCHANGED HC!vars
  BY <1>4 DEF HC!vars, HitInv, HC!CountOf
<1>5. QED  BY <1>1, <1>2, <1>3, <1>4 DEF HC!Next

LEMMA HitsShow ==
  ASSUME HC!HitCountersAssumption, HitInv
  PROVE  HC!TypeOK /\ HC!AfterAndTimes /\ HC!EveryNth
<1>1. HC!TypeOK
  <2>1. HC!Max({kMaxLogPerCounter + 1, MaxHits})
          = IF kMaxLogPerCounter + 1 >= MaxHits THEN kMaxLogPerCounter + 1 ELSE MaxHits
    BY GreaterOf DEF HC!HitCountersAssumption
  <2>2. ASSUME NEW l \in counters
        PROVE  hitCounts[l] \in Nat /\ (hitCounts[l] <= kMaxLogPerCounter + 1 \/ hitCounts[l] <= MaxHits)
    <3>1. l \in HC!Lines /\ OnLine(l, hitCounts[l], hits[l], logged[l]) /\ hitCounts[l] \in Nat
          /\ hits[l] \in 0 .. MaxHits
      BY DEF HitInv, HC!CountOf
    <3>2. QED  BY <3>1, LineKinds DEF OnLine, HC!HitCountersAssumption
  <2>3. hitCounts \in [counters -> 0 .. HC!Max({kMaxLogPerCounter + 1, MaxHits})]
    BY <2>1, <2>2 DEF HitInv, HC!HitCountersAssumption
  <2>4. QED  BY <2>3 DEF HitInv, HC!TypeOK
<1>2. HC!EveryNth
  <2> SUFFICES ASSUME NEW n \in Every, n <= kMaxLogPerCounter
               PROVE  logged[<<"every", n>>] = IF n = 0 THEN 0 ELSE hits[<<"every", n>>] \div n
    BY DEF HC!EveryNth
  <2> DEFINE l == <<"every", n>>
  <2>1. l \in HC!Lines /\ l[1] = "every" /\ l[2] = n /\ n \in Nat
    BY DEF HC!Lines, HC!HitCountersAssumption
  <2> HIDE DEF l
  <2>2. OnLine(l, HC!CountOf(l), hits[l], logged[l])
    BY <2>1 DEF HitInv
  <2>3. n # 0 => n \in 1 .. kMaxLogPerCounter
    BY <2>1 DEF HC!HitCountersAssumption
  <2>4. logged[l] = IF n = 0 THEN 0 ELSE hits[l] \div n
    BY <2>1, <2>2, <2>3 DEF OnLine
  <2>5. QED  BY <2>4 DEF l
<1>3. HC!AfterAndTimes
  <2>1. ASSUME NEW n \in AfterN
        PROVE  logged[<<"after", n>>] = IF hits[<<"after", n>>] <= n THEN 0 ELSE hits[<<"after", n>>] - n
    <3>1. <<"after", n>> \in HC!Lines
      BY DEF HC!Lines
    <3>2. QED  BY <3>1 DEF HitInv, OnLine
  <2>2. ASSUME NEW n \in Times
        PROVE  logged[<<"times", n>>] = HC!Min({hits[<<"times", n>>], n})
    <3> DEFINE l == <<"times", n>>
    <3>1. l \in HC!Lines /\ l[1] = "times" /\ l[2] = n /\ n \in Nat
      BY DEF HC!Lines, HC!HitCountersAssumption
    <3> HIDE DEF l
    <3>2. hits[l] \in Nat /\ logged[l] = IF hits[l] <= n THEN hits[l] ELSE n
      BY <3>1, CountsOn DEF HitInv, OnLine
    <3>3. HC!Min({hits[l], n}) = IF hits[l] <= n THEN hits[l] ELSE n
      BY <3>1, <3>2, GreaterOf
    <3>4. QED  BY <3>2, <3>3 DEF l
  <2>3. QED  BY <2>1, <2>2 DEF HC!AfterAndTimes
<1>4. QED  BY <1>1, <1>2, <1>3

(***************************************************************************)
(* Logging: the files.  Their entries are typed and whole, an entry is     *)
(* counted where it is, and what was flushed holds nothing or has failed.  *)
(***************************************************************************)
Fields == {"disk", "buf", "failed", "past", "written", "lost"}

FileOf(d, b, e, p, w, l) ==
  [disk |-> d, buf |-> b, failed |-> e, past |-> p, written |-> w, lost |-> l]

FileIn(f, E) ==
  /\ f \in [disk : Seq(E), buf : Seq(E), failed : BOOLEAN, past : Nat, written : Nat, lost : BOOLEAN]
  /\ ~f.lost => f.written = f.past + Len(f.disk) + Len(f.buf)

Drained(f) == f.failed \/ f.buf = <<>>

LEMMA FileParts ==
  ASSUME NEW E, NEW f, FileIn(f, E)
  PROVE  \E d \in Seq(E), b \in Seq(E), e \in BOOLEAN, p \in Nat, w \in Nat, l \in BOOLEAN :
           f = FileOf(d, b, e, p, w, l) /\ (~l => w = p + Len(d) + Len(b))
BY DEF FileIn, FileOf

LEMMA FileIs ==
  ASSUME NEW E, NEW d \in Seq(E), NEW b \in Seq(E), NEW e \in BOOLEAN, NEW p \in Nat, NEW w \in Nat,
         NEW l \in BOOLEAN, ~l => w = p + Len(d) + Len(b)
  PROVE  FileIn(FileOf(d, b, e, p, w, l), E)
BY DEF FileIn, FileOf

LEMMA PartsOf ==
  ASSUME NEW d, NEW b, NEW e, NEW p, NEW w, NEW l
  PROVE  /\ FileOf(d, b, e, p, w, l).disk = d /\ FileOf(d, b, e, p, w, l).buf = b
         /\ FileOf(d, b, e, p, w, l).failed = e /\ FileOf(d, b, e, p, w, l).past = p
         /\ FileOf(d, b, e, p, w, l).written = w /\ FileOf(d, b, e, p, w, l).lost = l
BY DEF FileOf

\* A file is known by its fields.
Has(x, d, b, e, p, w, l) ==
  /\ x = [i \in Fields |-> x[i]]
  /\ x.disk = d /\ x.buf = b /\ x.failed = e /\ x.past = p /\ x.written = w /\ x.lost = l

LEMMA FileHas ==
  ASSUME NEW x, NEW d, NEW b, NEW e, NEW p, NEW w, NEW l, Has(x, d, b, e, p, w, l)
  PROVE  x = FileOf(d, b, e, p, w, l)
BY DEF Has, FileOf, Fields

LEMMA FailedIs ==
  ASSUME NEW d, NEW b, NEW e, NEW p, NEW w, NEW l, NEW t \in BOOLEAN
  PROVE  [FileOf(d, b, e, p, w, l) EXCEPT !.failed = t] = FileOf(d, b, t, p, w, l)
<1> DEFINE x == [FileOf(d, b, e, p, w, l) EXCEPT !.failed = t]
<1>1. Has(x, d, b, t, p, w, l)
  BY DEF FileOf, Fields, Has
<1> HIDE DEF x
<1>2. x = FileOf(d, b, t, p, w, l)
  BY <1>1, FileHas
<1>3. QED  BY <1>2 DEF x

\* What a file that failed, or lost its buffer, has in that field.
Yes == TRUE

LEMMA SyncedIs ==
  ASSUME NEW d, NEW b, NEW e, NEW p, NEW w, NEW l
  PROVE  /\ LG!Synced(FileOf(d, b, e, p, w, l)) = FileOf(d \o b, <<>>, e, p, w, l)
         /\ LG!Dropped(FileOf(d, b, e, p, w, l)) = FileOf(d, <<>>, e, p, w, Yes)
         /\ LG!Failed(FileOf(d, b, e, p, w, l)) = FileOf(d, b, Yes, p, w, l)
<1>1. Has(LG!Synced(FileOf(d, b, e, p, w, l)), d \o b, <<>>, e, p, w, l)
  BY DEF FileOf, LG!Synced, Fields, Has
<1>2. Has(LG!Dropped(FileOf(d, b, e, p, w, l)), d, <<>>, e, p, w, Yes)
  BY DEF FileOf, LG!Dropped, Fields, Has, Yes
<1>3. Has(LG!Failed(FileOf(d, b, e, p, w, l)), d, b, Yes, p, w, l)
  BY DEF FileOf, LG!Failed, Fields, Has, Yes
<1>4. LG!Synced(FileOf(d, b, e, p, w, l)) = FileOf(d \o b, <<>>, e, p, w, l)
  BY <1>1, FileHas
<1>5. LG!Dropped(FileOf(d, b, e, p, w, l)) = FileOf(d, <<>>, e, p, w, Yes)
  BY <1>2, FileHas
<1>6. LG!Failed(FileOf(d, b, e, p, w, l)) = FileOf(d, b, Yes, p, w, l)
  BY <1>3, FileHas
<1>7. QED  BY <1>4, <1>5, <1>6

LEMMA SyncedFile ==
  ASSUME NEW E, NEW f, FileIn(f, E)
  PROVE  /\ FileIn(LG!Synced(f), E) /\ LG!Synced(f).buf = <<>>
         /\ FileIn(LG!Dropped(f), E) /\ LG!Dropped(f).buf = <<>>
         /\ FileIn(LG!Failed(f), E) /\ Drained(LG!Failed(f))
<1>1. PICK d \in Seq(E), b \in Seq(E), e \in BOOLEAN, p \in Nat, w \in Nat, l \in BOOLEAN :
        f = FileOf(d, b, e, p, w, l) /\ (~l => w = p + Len(d) + Len(b))
  BY FileParts
<1>2. Yes \in BOOLEAN /\ Yes
  BY DEF Yes
<1>3. /\ d \o b \in Seq(E) /\ Len(d \o b) = Len(d) + Len(b) /\ <<>> \in Seq(E) /\ Len(<<>>) = 0
      /\ Len(d) \in Nat /\ Len(b) \in Nat
  OBVIOUS
<1>4. ~l => w = p + Len(d \o b) + Len(<<>>)
  BY <1>1, <1>3
<1>5. /\ LG!Synced(f) = FileOf(d \o b, <<>>, e, p, w, l)
      /\ LG!Dropped(f) = FileOf(d, <<>>, e, p, w, Yes)
      /\ LG!Failed(f) = FileOf(d, b, Yes, p, w, l)
  <2>1. f = FileOf(d, b, e, p, w, l)
    BY <1>1
  <2>2. QED  BY <2>1, SyncedIs
<1>6. FileIn(FileOf(d \o b, <<>>, e, p, w, l), E)
  BY <1>3, <1>4, FileIs
<1>7. FileIn(FileOf(d, <<>>, e, p, w, Yes), E)
  BY <1>2, <1>3, FileIs
<1>8. FileIn(FileOf(d, b, Yes, p, w, l), E)
  BY <1>1, <1>2, FileIs
<1>9. LG!Synced(f).buf = <<>> /\ LG!Dropped(f).buf = <<>> /\ LG!Failed(f).failed = Yes
  BY <1>5, PartsOf
<1>10. QED  BY <1>2, <1>5, <1>6, <1>7, <1>8, <1>9 DEF Drained

LEMMA FlushFile ==
  ASSUME NEW E, NEW f, FileIn(f, E), NEW g \in LG!Flush(f)
  PROVE  FileIn(g, E) /\ Drained(g)
<1>1. CASE f.buf = <<>>
  <2>1. g = f
    BY <1>1 DEF LG!Flush
  <2>2. QED  BY <1>1, <2>1 DEF Drained
<1>2. CASE f.buf # <<>> /\ f.failed
  <2>1. g \in {f, LG!Dropped(f), LG!Synced(f)}
    BY <1>2 DEF LG!Flush
  <2>2. QED  BY <1>2, <2>1, SyncedFile DEF Drained
<1>3. CASE f.buf # <<>> /\ ~f.failed /\ full
  <2>1. g = LG!Failed(f) \/ g = LG!Failed(LG!Dropped(f))
    BY <1>3 DEF LG!Flush
  <2>2. FileIn(LG!Dropped(f), E)
    BY SyncedFile
  <2>3. QED  BY <2>1, <2>2, SyncedFile
<1>4. CASE f.buf # <<>> /\ ~f.failed /\ ~full
  <2>1. g = LG!Synced(f)
    BY <1>4 DEF LG!Flush
  <2>2. QED  BY <2>1, SyncedFile DEF Drained
<1>5. QED  BY <1>1, <1>2, <1>3, <1>4

LEMMA RollFile ==
  ASSUME NEW E, NEW f, FileIn(f, E), NEW g \in LG!Roll(f)
  PROVE  FileIn(g, E) /\ Drained(g)
<1> DEFINE c == IF f.buf = <<>> THEN f ELSE IF full THEN LG!Dropped(f) ELSE LG!Synced(f)
           n == [c EXCEPT !.disk = <<>>, !.past = c.past + Len(c.disk)]
<1>1. FileIn(c, E) /\ c.buf = <<>>
  BY SyncedFile
<1>2. g = [n EXCEPT !.failed = FALSE] \/ g = [n EXCEPT !.failed = TRUE]
  BY DEF LG!Roll, LG!Failed
<1> HIDE DEF c
<1>3. PICK d \in Seq(E), b \in Seq(E), e \in BOOLEAN, p \in Nat, w \in Nat, l \in BOOLEAN :
        c = FileOf(d, b, e, p, w, l) /\ (~l => w = p + Len(d) + Len(b))
  BY <1>1, FileParts
<1>4. b = <<>>
  BY <1>1, <1>3, PartsOf
<1> DEFINE q == p + Len(d)
<1>5. q \in Nat /\ <<>> \in Seq(E) /\ Len(<<>>) = 0 /\ (~l => w = q + Len(<<>>) + Len(<<>>))
  BY <1>3, <1>4
<1>6. n = FileOf(<<>>, <<>>, e, q, w, l)
  <2>1. Has([FileOf(d, b, e, p, w, l) EXCEPT !.disk = <<>>, !.past = p + Len(d)], <<>>, b, e, p + Len(d), w, l)
    BY DEF FileOf, Fields, Has
  <2>2. [FileOf(d, b, e, p, w, l) EXCEPT !.disk = <<>>, !.past = p + Len(d)]
          = FileOf(<<>>, b, e, p + Len(d), w, l)
    BY <2>1, FileHas
  <2>3. c.past = p /\ c.disk = d
    BY <1>3, PartsOf
  <2>4. QED  BY <1>3, <1>4, <2>2, <2>3
<1> HIDE DEF n, q
<1>7. ASSUME NEW t \in BOOLEAN, g = [n EXCEPT !.failed = t]
      PROVE  FileIn(g, E) /\ Drained(g)
  <2>1. g = FileOf(<<>>, <<>>, t, q, w, l)
    BY <1>6, <1>7, FailedIs
  <2>2. FileIn(FileOf(<<>>, <<>>, t, q, w, l), E)
    BY <1>5, FileIs
  <2>3. QED  BY <2>1, <2>2, PartsOf DEF Drained
<1>8. QED  BY <1>2, <1>7

LEMMA CheckedFile ==
  ASSUME NEW E, NEW f, FileIn(f, E), NEW max, NEW g \in LG!ValidateFileRolling(f, max)
  PROVE  FileIn(g, E) /\ Drained(g)
<1>1. PICK h \in LG!Flush(f) : g \in LG!Roll(h) \/ g = h
  BY DEF LG!ValidateFileRolling
<1>2. FileIn(h, E) /\ Drained(h)
  BY <1>1, FlushFile
<1>3. QED  BY <1>1, <1>2, RollFile

\* The entries of a log: of a logger or of one that is gone, with the text of
\* one statement, or with none if several loggers may share a statement.
WholeEntries ==
  {e \in LG!Entries : e.text \in LG!Texts /\ (e.text = <<>> => "MultiLoggerSupport" \in flags)}

Entry(i, l, t) == [id |-> i, level |-> l, text |-> t]

LEMMA EntryParts ==
  ASSUME NEW e \in WholeEntries
  PROVE  /\ e = Entry(e.id, e.level, e.text) /\ e.id \in Ids \cup {NoValue} /\ e.level \in LogLevels
         /\ e.text \in Seq({"said", "notice"}) /\ e.text \in LG!Texts
         /\ (e.text = <<>> => "MultiLoggerSupport" \in flags)
BY DEF WholeEntries, LG!Entries, Entry

LEMMA EntryIs ==
  ASSUME NEW i \in Ids \cup {NoValue}, NEW l \in LogLevels, NEW t \in LG!Texts,
         t = <<>> => "MultiLoggerSupport" \in flags
  PROVE  Entry(i, l, t) \in WholeEntries
<1>1. t \in Seq({"said", "notice"})
  <2>1. \A S : <<>> \in Seq(S) /\ \A x \in S : <<x>> \in Seq(S)
    OBVIOUS
  <2>2. t = <<>> \/ t = <<"said">> \/ t = <<"notice">>
    BY DEF LG!Texts, LG!Blank
  <2>3. QED  BY <2>1, <2>2
<1>2. QED  BY <1>1 DEF WholeEntries, LG!Entries, Entry

\* What Orphaned makes of an entry.
Alone(e, i) == IF e.id = i THEN [e EXCEPT !.id = NoValue] ELSE e

LEMMA AloneIs ==
  ASSUME NEW e \in WholeEntries, NEW i
  PROVE  /\ Alone(e, i) \in WholeEntries /\ Alone(e, i).level = e.level
         /\ Alone(e, i).id = IF e.id = i THEN NoValue ELSE e.id
<1>1. e = Entry(e.id, e.level, e.text)
  BY EntryParts
<1>2. ASSUME NEW x, NEW y, NEW z
      PROVE  [Entry(x, y, z) EXCEPT !.id = NoValue] = Entry(NoValue, y, z)
  BY DEF Entry
<1>3. [e EXCEPT !.id = NoValue] = Entry(NoValue, e.level, e.text)
  BY <1>1, <1>2
<1>4. Entry(NoValue, e.level, e.text) \in WholeEntries
  BY EntryParts, EntryIs
<1>5. Entry(NoValue, e.level, e.text).id = NoValue /\ Entry(NoValue, e.level, e.text).level = e.level
  BY DEF Entry
<1>6. QED  BY <1>3, <1>4, <1>5 DEF Alone

AllAlone(b, i) == [k \in DOMAIN b |-> Alone(b[k], i)]

LEMMA OrphanedFile ==
  ASSUME NEW f, FileIn(f, WholeEntries), NEW i
  PROVE  /\ FileIn(LG!Orphaned(f, i), WholeEntries)
         /\ LG!Orphaned(f, i).buf = AllAlone(f.buf, i) /\ LG!Orphaned(f, i).failed = f.failed
<1>1. PICK d \in Seq(WholeEntries), b \in Seq(WholeEntries), e \in BOOLEAN, p \in Nat, w \in Nat, l \in BOOLEAN :
        f = FileOf(d, b, e, p, w, l) /\ (~l => w = p + Len(d) + Len(b))
  BY FileParts
<1>2. LG!Orphaned(FileOf(d, b, e, p, w, l), i) = FileOf(d, AllAlone(b, i), e, p, w, l)
  <2>1. Has(LG!Orphaned(FileOf(d, b, e, p, w, l), i), d, AllAlone(b, i), e, p, w, l)
    BY DEF LG!Orphaned, FileOf, Fields, Has, AllAlone, Alone
  <2>2. QED  BY <2>1, FileHas
<1>3. AllAlone(b, i) \in Seq(WholeEntries) /\ Len(AllAlone(b, i)) = Len(b)
  BY AloneIs DEF AllAlone
<1>4. FileIn(FileOf(d, AllAlone(b, i), e, p, w, l), WholeEntries)
  BY <1>1, <1>3, FileIs
<1>5. f.buf = b /\ f.failed = e
  BY <1>1, PartsOf
<1>6. LG!Orphaned(f, i) = FileOf(d, AllAlone(b, i), e, p, w, l)
  BY <1>1, <1>2
<1>7. QED  BY <1>4, <1>5, <1>6, PartsOf

\* Write's held: one more entry in the buffer.
Held(f, x) == [f EXCEPT !.buf = Append(@, x), !.written = @ + 1]

LEMMA HeldFile ==
  ASSUME NEW E, NEW f, FileIn(f, E), NEW x \in E
  PROVE  FileIn(Held(f, x), E) /\ Held(f, x).buf = Append(f.buf, x) /\ Held(f, x).failed = f.failed
<1>1. PICK d \in Seq(E), b \in Seq(E), e \in BOOLEAN, p \in Nat, w \in Nat, l \in BOOLEAN :
        f = FileOf(d, b, e, p, w, l) /\ (~l => w = p + Len(d) + Len(b))
  BY FileParts
<1> DEFINE c == Append(b, x)
           v == w + 1
<1>2. Held(FileOf(d, b, e, p, w, l), x) = FileOf(d, c, e, p, v, l)
  <2>1. Has(Held(FileOf(d, b, e, p, w, l), x), d, c, e, p, v, l)
    BY DEF Held, FileOf, Fields, Has
  <2> HIDE DEF c, v
  <2>2. QED  BY <2>1, FileHas
<1>3. c \in Seq(E) /\ v \in Nat /\ (~l => v = p + Len(d) + Len(c))
  BY <1>1
<1>4. f.buf = b /\ f.failed = e
  BY <1>1, PartsOf
<1>5. c = Append(f.buf, x)
  BY <1>4
<1> HIDE DEF c, v
<1>6. FileIn(FileOf(d, c, e, p, v, l), E)
  BY <1>1, <1>3, FileIs
<1>7. Held(f, x) = FileOf(d, c, e, p, v, l)
  BY <1>1, <1>2
<1>8. Held(f, x).buf = c /\ Held(f, x).failed = e
  BY <1>7, PartsOf
<1>9. QED  BY <1>4, <1>5, <1>6, <1>7, <1>8

\* Files that a call left alone or drained.
FilesIn(fs) == fs = [f \in LogFiles |-> fs[f]] /\ \A f \in LogFiles : FileIn(fs[f], WholeEntries)

Kept(fs, gs) == FilesIn(gs) /\ \A f \in LogFiles : gs[f] = fs[f] \/ Drained(gs[f])

Put(fs, f, g) == [fs EXCEPT ![f] = g]

LEMMA OneFile ==
  ASSUME NEW fs, FilesIn(fs), NEW f \in LogFiles, NEW g, FileIn(g, WholeEntries)
  PROVE  /\ FilesIn(Put(fs, f, g)) /\ Put(fs, f, g)[f] = g
         /\ \A h \in LogFiles : h # f => Put(fs, f, g)[h] = fs[h]
<1>1. Put(fs, f, g) = [h \in LogFiles |-> IF h = f THEN g ELSE fs[h]]
  BY DEF FilesIn, Put
<1>2. QED  BY <1>1 DEF FilesIn

LEMMA BuildFiles ==
  ASSUME LG!LoggingAssumption, NEW c \in Confs, NEW fs, FilesIn(fs), NEW gs \in LG!Build(c, fs)
  PROVE  Kept(fs, gs)
<1>1. CASE gs = fs
  BY <1>1 DEF Kept
<1>2. ASSUME c.file # NoValue, NEW g \in LG!ValidateFileRolling(fs[c.file], c.max),
             gs = Put(fs, c.file, g)
      PROVE  Kept(fs, gs)
  <2>1. c.file \in LogFiles
    BY <1>2 DEF LG!LoggingAssumption, LG!ConfType
  <2>2. FileIn(fs[c.file], WholeEntries)
    BY <2>1 DEF FilesIn
  <2>3. FileIn(g, WholeEntries) /\ Drained(g)
    BY <1>2, <2>2, CheckedFile
  <2> DEFINE h == c.file
  <2>4. h \in LogFiles /\ gs = Put(fs, h, g)
    BY <1>2, <2>1
  <2> HIDE DEF h
  <2>5. FilesIn(gs) /\ gs[h] = g /\ \A k \in LogFiles : k # h => gs[k] = fs[k]
    BY <2>3, <2>4, OneFile
  <2>6. QED  BY <2>3, <2>5 DEF Kept
<1>3. QED  BY <1>1, <1>2 DEF LG!Build, Put

(***************************************************************************)
(* Logging: what waits in a buffer.  The entries in the buffer of a file   *)
(* that has not failed are of loggers that write to it, or of none, and    *)
(* the counts of a logger cover its entries that wait.                     *)
(***************************************************************************)
Waiting(b, i, l) == {k \in DOMAIN b : b[k].id = i /\ b[k].level = l}

Covered(b, i, l, count, threshold) ==
  LET n == Cardinality(Waiting(b, i, l)) IN n <= count /\ (n > 0 => n < threshold)

Pending(g, f, lg, un) ==
  \/ g.failed
  \/ /\ \A k \in DOMAIN g.buf :
          g.buf[k].id # NoValue => g.buf[k].id \in DOMAIN lg /\ lg[g.buf[k].id].file = f
     /\ \A i \in DOMAIN lg, l \in LogLevels :
          lg[i].file = f => Covered(g.buf, i, l, un[i][l], lg[i].threshold)

Counting(lg, un) == NoValue \notin DOMAIN lg /\ \A i \in DOMAIN lg, l \in LogLevels : un[i][l] \in Nat

LEMMA WaitingFinite ==
  ASSUME NEW E, NEW b \in Seq(E), NEW i, NEW l
  PROVE  IsFiniteSet(Waiting(b, i, l)) /\ Cardinality(Waiting(b, i, l)) \in Nat
<1>1. Waiting(b, i, l) \subseteq 1 .. Len(b) /\ Len(b) \in Nat
  BY DEF Waiting
<1>2. IsFiniteSet(1 .. Len(b))
  BY <1>1, FS_Interval
<1>3. IsFiniteSet(Waiting(b, i, l))
  BY <1>1, <1>2, FS_Subset
<1>4. QED  BY <1>3, FS_CardinalityType

LEMMA NoneWaits ==
  ASSUME NEW b, NEW i, NEW l, \A k \in DOMAIN b : b[k].id # i, NEW count \in Nat, NEW threshold
  PROVE  Covered(b, i, l, count, threshold)
<1>1. Waiting(b, i, l) = {}
  BY DEF Waiting
<1>2. Cardinality(Waiting(b, i, l)) = 0
  BY <1>1, FS_EmptySet
<1>3. QED  BY <1>2 DEF Covered

LEMMA DrainedPends ==
  ASSUME NEW g, Drained(g), NEW f, NEW lg, NEW un, Counting(lg, un)
  PROVE  Pending(g, f, lg, un)
<1>1. CASE g.buf = <<>>
  <2>1. \A k \in DOMAIN g.buf : FALSE
    BY <1>1
  <2>2. ASSUME NEW i \in DOMAIN lg, NEW l \in LogLevels
        PROVE  Covered(g.buf, i, l, un[i][l], lg[i].threshold)
    BY <2>1, NoneWaits DEF Counting
  <2>3. QED  BY <2>1, <2>2 DEF Pending
<1>2. QED  BY <1>1 DEF Drained, Pending

\* Loggers but i stay as they are.
Others(i, lg, un, lg2, un2) ==
  /\ DOMAIN lg2 \subseteq DOMAIN lg \cup {i} /\ DOMAIN lg \subseteq DOMAIN lg2 \cup {i}
  /\ \A j \in DOMAIN lg2 : j # i => lg2[j] = lg[j] /\ un2[j] = un[j]

LEMMA OthersPend ==
  ASSUME NEW i, NEW lg, NEW un, NEW lg2, NEW un2, Others(i, lg, un, lg2, un2), Counting(lg2, un2),
         NEW g, NEW f, Pending(g, f, lg, un), \A k \in DOMAIN g.buf : g.buf[k].id # i
  PROVE  Pending(g, f, lg2, un2)
<1> SUFFICES ASSUME ~g.failed
             PROVE  Pending(g, f, lg2, un2)
  BY DEF Pending
<1>1. ASSUME NEW k \in DOMAIN g.buf, g.buf[k].id # NoValue
      PROVE  g.buf[k].id \in DOMAIN lg2 /\ lg2[g.buf[k].id].file = f
  BY <1>1 DEF Pending, Others
<1>2. ASSUME NEW j \in DOMAIN lg2, NEW l \in LogLevels, lg2[j].file = f
      PROVE  Covered(g.buf, j, l, un2[j][l], lg2[j].threshold)
  <2>1. CASE j = i
    BY <2>1, NoneWaits DEF Counting
  <2>2. CASE j # i
    BY <1>2, <2>2 DEF Pending, Others
  <2>3. QED  BY <2>1, <2>2
<1>3. QED  BY <1>1, <1>2 DEF Pending

LEMMA OrphansWait ==
  ASSUME NEW b \in Seq(WholeEntries), NEW i, i # NoValue
  PROVE  /\ \A k \in DOMAIN AllAlone(b, i) : AllAlone(b, i)[k].id # i
         /\ \A k \in DOMAIN AllAlone(b, i) : AllAlone(b, i)[k].id # NoValue =>
              k \in DOMAIN b /\ AllAlone(b, i)[k].id = b[k].id
         /\ \A j, l : j # i /\ j # NoValue => Waiting(AllAlone(b, i), j, l) = Waiting(b, j, l)
<1>1. DOMAIN AllAlone(b, i) = DOMAIN b /\ \A k \in DOMAIN b : AllAlone(b, i)[k] = Alone(b[k], i)
  BY DEF AllAlone
<1>2. ASSUME NEW k \in DOMAIN b
      PROVE  /\ AllAlone(b, i)[k].level = b[k].level
             /\ AllAlone(b, i)[k].id = IF b[k].id = i THEN NoValue ELSE b[k].id
  <2>1. b[k] \in WholeEntries
    OBVIOUS
  <2>2. QED  BY <1>1, <2>1, AloneIs
<1>3. QED  BY <1>1, <1>2 DEF Waiting

LEMMA OrphanedPends ==
  ASSUME NEW g, FileIn(g, WholeEntries), NEW i, i # NoValue, NEW f, NEW lg, NEW un, Counting(lg, un),
         Pending(g, f, lg, un)
  PROVE  /\ Pending(LG!Orphaned(g, i), f, lg, un)
         /\ \A k \in DOMAIN LG!Orphaned(g, i).buf : LG!Orphaned(g, i).buf[k].id # i
<1>1. LG!Orphaned(g, i).buf = AllAlone(g.buf, i) /\ LG!Orphaned(g, i).failed = g.failed
  BY OrphanedFile
<1>2. g.buf \in Seq(WholeEntries)
  BY DEF FileIn
<1> DEFINE b == AllAlone(g.buf, i)
<1>3. /\ \A k \in DOMAIN b : b[k].id # i
      /\ \A k \in DOMAIN b : b[k].id # NoValue => k \in DOMAIN g.buf /\ b[k].id = g.buf[k].id
      /\ \A j, l : j # i /\ j # NoValue => Waiting(b, j, l) = Waiting(g.buf, j, l)
  BY <1>2, OrphansWait
<1> HIDE DEF b
<1>4. ASSUME ~g.failed, NEW j \in DOMAIN lg, NEW l \in LogLevels, lg[j].file = f
      PROVE  Covered(b, j, l, un[j][l], lg[j].threshold)
  <2>1. CASE j = i
    BY <1>3, <2>1, NoneWaits DEF Counting
  <2>2. CASE j # i
    <3>1. Waiting(b, j, l) = Waiting(g.buf, j, l)
      BY <1>3, <2>2 DEF Counting
    <3>2. Covered(g.buf, j, l, un[j][l], lg[j].threshold)
      BY <1>4 DEF Pending
    <3>3. QED  BY <3>1, <3>2 DEF Covered
  <2>3. QED  BY <2>1, <2>2
<1>5. LG!Orphaned(g, i).buf = b
  BY <1>1 DEF b
<1>6. Pending(LG!Orphaned(g, i), f, lg, un)
  BY <1>1, <1>3, <1>4, <1>5 DEF Pending
<1>7. QED  BY <1>3, <1>5, <1>6

LEMMA HeldWaits ==
  ASSUME NEW E, NEW b \in Seq(E), NEW x, NEW i, NEW l, NEW count \in Nat, NEW threshold \in Nat,
         Covered(b, i, l, count, threshold)
  PROVE  /\ x.id # i \/ x.level # l => Covered(Append(b, x), i, l, count, threshold)
         /\ count + 1 < threshold => Covered(Append(b, x), i, l, count + 1, threshold)
<1>1. /\ Append(b, x) \in Seq(E \cup {x}) /\ Len(b) + 1 \notin 1 .. Len(b) /\ Len(b) \in Nat
      /\ DOMAIN b = 1 .. Len(b) /\ DOMAIN Append(b, x) = 1 .. Len(b) + 1
      /\ \A k \in 1 .. Len(b) : Append(b, x)[k] = b[k]
      /\ Append(b, x)[Len(b) + 1] = x
  OBVIOUS
<1>2. CASE x.id # i \/ x.level # l
  <2>1. Waiting(Append(b, x), i, l) = Waiting(b, i, l)
    BY <1>1, <1>2 DEF Waiting
  <2>2. QED  BY <2>1, WaitingFinite DEF Covered
<1>3. CASE x.id = i /\ x.level = l
  <2>1. Waiting(Append(b, x), i, l) = Waiting(b, i, l) \cup {Len(b) + 1}
    BY <1>1, <1>3 DEF Waiting
  <2>2. Len(b) + 1 \notin Waiting(b, i, l)
    BY <1>1 DEF Waiting
  <2>3. Cardinality(Waiting(Append(b, x), i, l)) = Cardinality(Waiting(b, i, l)) + 1
    BY <2>1, <2>2, WaitingFinite, FS_AddElement
  <2>4. QED  BY <1>3, <2>3, WaitingFinite DEF Covered
<1>4. QED  BY <1>2, <1>3

Counted(lg, un, un2, i, l, n) ==
  \A j \in DOMAIN lg, m \in LogLevels : un2[j][m] = IF j = i /\ m = l THEN n ELSE un[j][m]

\* One more entry, held in the buffer; the other files only see counts change.
LEMMA HeldPends ==
  ASSUME NEW g, FileIn(g, WholeEntries), NEW f, NEW lg, NEW un, Counting(lg, un), Pending(g, f, lg, un),
         NEW i \in DOMAIN lg, lg[i].file = f, NEW l \in LogLevels, NEW x \in WholeEntries, x.id = i, x.level = l,
         un[i][l] + 1 < lg[i].threshold, NEW un2, Counted(lg, un, un2, i, l, un[i][l] + 1),
         \A j \in DOMAIN lg : lg[j].threshold \in Nat
  PROVE  Pending(Held(g, x), f, lg, un2)
<1> SUFFICES ASSUME ~g.failed
             PROVE  Pending(Held(g, x), f, lg, un2)
  BY HeldFile DEF Pending
<1>1. g.buf \in Seq(WholeEntries) /\ Held(g, x).buf = Append(g.buf, x)
  <2>1. g.buf \in Seq(WholeEntries)
    BY DEF FileIn
  <2>2. QED  BY <2>1, HeldFile
<1>2. ASSUME NEW k \in DOMAIN Append(g.buf, x), Append(g.buf, x)[k].id # NoValue
      PROVE  Append(g.buf, x)[k].id \in DOMAIN lg /\ lg[Append(g.buf, x)[k].id].file = f
  <2>1. Append(g.buf, x)[k] = x \/ (k \in DOMAIN g.buf /\ Append(g.buf, x)[k] = g.buf[k])
    BY <1>1
  <2>2. QED  BY <1>2, <2>1 DEF Pending
<1>3. ASSUME NEW j \in DOMAIN lg, NEW m \in LogLevels, lg[j].file = f
      PROVE  Covered(Append(g.buf, x), j, m, un2[j][m], lg[j].threshold)
  <2>1. Covered(g.buf, j, m, un[j][m], lg[j].threshold) /\ un[j][m] \in Nat /\ lg[j].threshold \in Nat
    BY <1>3 DEF Pending, Counting
  <2>2. CASE j = i /\ m = l
    <3>1. Covered(Append(g.buf, x), j, m, un[j][m] + 1, lg[j].threshold)
      BY <1>1, <2>1, <2>2, HeldWaits
    <3>2. QED  BY <2>2, <3>1 DEF Counted
  <2>3. CASE j # i \/ m # l
    <3>1. x.id # j \/ x.level # m
      BY <2>3
    <3>2. Covered(Append(g.buf, x), j, m, un[j][m], lg[j].threshold)
      BY <1>1, <2>1, <3>1, HeldWaits
    <3>3. QED  BY <2>3, <3>2 DEF Counted
  <2>4. QED  BY <2>2, <2>3
<1>4. QED  BY <1>1, <1>2, <1>3 DEF Pending

LEMMA ElsewherePends ==
  ASSUME NEW g, NEW f, NEW lg, NEW un, Pending(g, f, lg, un), NEW i, lg[i].file # f,
         NEW un2, \A j \in DOMAIN lg : j # i => un2[j] = un[j]
  PROVE  Pending(g, f, lg, un2)
BY DEF Pending

(***************************************************************************)
(* Logging: the Writers alive.  Only the innermost may be about to be      *)
(* dispatched, and only the stream of its logger holds a text then.        *)
(***************************************************************************)
WriterFields == {"todo", "level", "text", "at", "proceed", "first", "msg", "pc"}

Writing(w, reg, fl) ==
  /\ w = [k \in WriterFields |-> w[k]]
  /\ w.todo \in Seq(Ids) /\ w.todo # <<>> /\ w.level \in LogLevels /\ w.text \in {"said", "notice"}
  /\ w.at \in reg \cup {NoValue} /\ w.proceed \in BOOLEAN /\ w.first \in BOOLEAN /\ w.msg \in LG!Texts
  /\ w.pc \in {"look", "next", "out", "abort"}
  /\ w.pc = "out" /\ w.proceed => w.at # NoValue
  /\ "MultiLoggerSupport" \notin fl => w.pc # "next" /\ Tail(w.todo) = <<>>

Quiet(w) == w.pc = "out" => ~w.proceed

AllQuiet(s, reg, fl) ==
  (\E S : s \in Seq(S)) /\ \A k \in 1 .. Len(s) : Writing(s[k], reg, fl) /\ Quiet(s[k])

Writers(s, reg, fl) ==
  /\ \E S : s \in Seq(S)
  /\ s # <<>> => AllQuiet(LG!Front(s), reg, fl) /\ Writing(LG!Last(s), reg, fl)

Silent(str, reg) == \A i \in reg : str[i] = <<>>

Streams(str, s, reg, fl) ==
  /\ \A i \in reg : str[i] # <<>> =>
       s # <<>> /\ LG!Last(s).pc = "out" /\ LG!Last(s).proceed /\ LG!Last(s).at = i
  /\ s # <<>> /\ LG!Last(s).pc = "out" /\ LG!Last(s).proceed /\ str[LG!Last(s).at] = <<>>
       => "MultiLoggerSupport" \in fl

LEMMA FrontOf ==
  ASSUME NEW S, NEW s \in Seq(S), s # <<>>
  PROVE  /\ LG!Front(s) \in Seq(S) /\ Len(LG!Front(s)) = Len(s) - 1 /\ Len(s) \in Nat \ {0}
         /\ LG!Last(s) = s[Len(s)] /\ \A k \in 1 .. Len(s) - 1 : LG!Front(s)[k] = s[k]
<1> DEFINE n == Len(s) - 1
           r == SubSeq(s, 1, n)
<1>1. Len(s) \in Nat \ {0} /\ n \in Nat /\ n = Len(s) - 1 /\ \A k \in 1 .. n : s[k] \in S
  OBVIOUS
<1> HIDE DEF n
<1>2. r \in Seq(S) /\ Len(r) = (IF 1 <= n THEN n - 1 + 1 ELSE 0)
      /\ \A k \in 1 .. n - 1 + 1 : r[k] = s[1 + k - 1]
  BY <1>1, SubSeqProperties
<1>3. LG!Front(s) = r /\ LG!Last(s) = s[Len(s)]
  BY DEF LG!Front, LG!Last, n
<1> HIDE DEF r
<1>4. Len(r) = n /\ \A k \in 1 .. n : r[k] = s[k]
  BY <1>1, <1>2
<1>5. QED  BY <1>1, <1>2, <1>3, <1>4

LEMMA PushOn ==
  ASSUME NEW S, NEW s \in Seq(S), NEW w
  PROVE  /\ Append(s, w) \in Seq(S \cup {w}) /\ Append(s, w) # <<>>
         /\ LG!Last(Append(s, w)) = w /\ LG!Front(Append(s, w)) = s
<1>1. /\ Append(s, w) \in Seq(S \cup {w}) /\ Len(Append(s, w)) = Len(s) + 1 /\ Append(s, w) # <<>>
      /\ Append(s, w)[Len(s) + 1] = w /\ \A k \in 1 .. Len(s) : Append(s, w)[k] = s[k]
  OBVIOUS
<1>2. LG!Last(Append(s, w)) = w
  BY <1>1 DEF LG!Last
<1> DEFINE r == Append(s, w)
<1>3. LG!Front(r) = s
  <2>1. r \in Seq(S \cup {w}) /\ r # <<>> /\ s \in Seq(S \cup {w})
    BY <1>1
  <2> HIDE DEF r
  <2>2. /\ LG!Front(r) \in Seq(S \cup {w}) /\ Len(LG!Front(r)) = Len(r) - 1
        /\ \A k \in 1 .. Len(r) - 1 : LG!Front(r)[k] = r[k]
    BY <2>1, FrontOf
  <2>3. Len(LG!Front(r)) = Len(s) /\ \A k \in 1 .. Len(s) : LG!Front(r)[k] = s[k]
    BY <1>1, <2>2 DEF r
  <2>4. QED  BY <2>1, <2>2, <2>3, SeqEqual
<1>4. QED  BY <1>1, <1>2, <1>3

LEMMA Push ==
  ASSUME NEW s, NEW reg, NEW fl, AllQuiet(s, reg, fl), NEW w, Writing(w, reg, fl)
  PROVE  /\ Writers(Append(s, w), reg, fl) /\ Append(s, w) # <<>>
         /\ LG!Last(Append(s, w)) = w /\ LG!Front(Append(s, w)) = s
BY PushOn DEF AllQuiet, Writers

LEMMA PushQuiet ==
  ASSUME NEW s, NEW reg, NEW fl, AllQuiet(s, reg, fl), NEW w, Writing(w, reg, fl), Quiet(w)
  PROVE  AllQuiet(Append(s, w), reg, fl)
<1>1. PICK S : s \in Seq(S)
  BY DEF AllQuiet
<1>2. Append(s, w) \in Seq(S \cup {w}) /\ Len(s) \in Nat
  BY <1>1, PushOn
<1>3. ASSUME NEW k \in 1 .. Len(Append(s, w))
      PROVE  Writing(Append(s, w)[k], reg, fl) /\ Quiet(Append(s, w)[k])
  <2>1. Append(s, w)[k] = w \/ (k \in 1 .. Len(s) /\ Append(s, w)[k] = s[k])
    BY <1>1
  <2>2. QED  BY <2>1 DEF AllQuiet
<1>4. QED  BY <1>2, <1>3 DEF AllQuiet

LEMMA QuietWriters ==
  ASSUME NEW s, NEW reg, NEW fl, AllQuiet(s, reg, fl)
  PROVE  Writers(s, reg, fl) /\ \A str : Silent(str, reg) => Streams(str, s, reg, fl)
<1>1. PICK S : s \in Seq(S)
  BY DEF AllQuiet
<1>2. ASSUME s # <<>>
      PROVE  /\ AllQuiet(LG!Front(s), reg, fl) /\ Writing(LG!Last(s), reg, fl)
             /\ Quiet(LG!Last(s))
  <2>1. /\ LG!Front(s) \in Seq(S) /\ Len(LG!Front(s)) = Len(s) - 1 /\ Len(s) \in Nat \ {0}
        /\ LG!Last(s) = s[Len(s)] /\ \A k \in 1 .. Len(s) - 1 : LG!Front(s)[k] = s[k]
    BY <1>1, <1>2, FrontOf
  <2>2. QED  BY <2>1 DEF AllQuiet
<1>3. QED  BY <1>1, <1>2 DEF Writers, Silent, Streams, Quiet

LEMMA SilentPush ==
  ASSUME NEW s, NEW reg, NEW fl, AllQuiet(s, reg, fl), NEW w, Quiet(w), NEW str, Silent(str, reg)
  PROVE  Streams(str, Append(s, w), reg, fl)
BY PushOn DEF AllQuiet, Silent, Streams, Quiet

LEMMA MoreLoggers ==
  ASSUME NEW s, NEW reg, NEW more, reg \subseteq more, NEW fl, Writers(s, reg, fl)
  PROVE  Writers(s, more, fl)
<1>1. \A w : Writing(w, reg, fl) => Writing(w, more, fl)
  BY DEF Writing
<1>2. QED  BY <1>1 DEF Writers, AllQuiet

LEMMA NewWriter ==
  ASSUME NEW ids \in Seq(Ids), ids # <<>>, NEW l \in LogLevels, NEW t \in {"said", "notice"}, NEW reg, NEW fl,
         "MultiLoggerSupport" \notin fl => Tail(ids) = <<>>
  PROVE  Writing(LG!Writer(ids, l, t), reg, fl) /\ Quiet(LG!Writer(ids, l, t))
BY DEF LG!Writer, LG!Blank, LG!Texts, Writing, WriterFields, Quiet

LEMMA NoticeWriter ==
  ASSUME LG!LoggingAssumption, NEW l \in {"Debug", "Warning"}, NEW reg, NEW fl
  PROVE  Writing(LG!Notice(l), reg, fl) /\ Quiet(LG!Notice(l))
<1>1. <<DefaultId>> \in Seq(Ids) /\ <<DefaultId>> # <<>> /\ Tail(<<DefaultId>>) = <<>> /\ l \in LogLevels
  BY DEF LG!LoggingAssumption
<1>2. QED  BY <1>1, NewWriter DEF LG!Notice

\* What Take makes of a Writer.
Taken(w, i, go, said) ==
  [w EXCEPT !.at = i, !.proceed = go, !.pc = "out", !.first = @ /\ ~go,
            !.msg = IF go /\ w.first THEN said ELSE @]

LEMMA TakenWriter ==
  ASSUME NEW w, NEW reg, NEW fl, Writing(w, reg, fl), NEW i \in reg, NoValue \notin reg, NEW go \in BOOLEAN,
         NEW said \in LG!Texts
  PROVE  /\ Writing(Taken(w, i, go, said), reg, fl) /\ Taken(w, i, go, said).pc = "out"
         /\ Taken(w, i, go, said).proceed = go /\ Taken(w, i, go, said).at = i
BY DEF Writing, WriterFields, Taken

LEMMA LostWriter ==
  ASSUME NEW w, NEW reg, NEW fl, Writing(w, reg, fl)
  PROVE  LET v == [w EXCEPT !.at = NoValue, !.proceed = FALSE, !.pc = "out"]
         IN Writing(v, reg, fl) /\ Quiet(v)
BY DEF Writing, WriterFields, Quiet

LEMMA AbortingWriter ==
  ASSUME NEW w, NEW reg, NEW fl, Writing(w, reg, fl)
  PROVE  Writing([w EXCEPT !.pc = "abort"], reg, fl) /\ Quiet([w EXCEPT !.pc = "abort"])
BY DEF Writing, WriterFields, Quiet

LEMMA LeavingWriter ==
  ASSUME NEW w, NEW reg, NEW fl, Writing(w, reg, fl), Tail(w.todo) # <<>>
  PROVE  LET v == [w EXCEPT !.todo = Tail(w.todo), !.pc = "next"]
         IN Writing(v, reg, fl) /\ Quiet(v)
<1>1. Tail(w.todo) \in Seq(Ids)
  BY DEF Writing
<1>2. QED  BY <1>1 DEF Writing, WriterFields, Quiet

LEMMA HushedWriter ==
  ASSUME NEW w, NEW reg, NEW fl, Writing(w, reg, fl)
  PROVE  /\ Writing([w EXCEPT !.proceed = FALSE], reg, fl)
         /\ [w EXCEPT !.proceed = FALSE].todo = w.todo
BY DEF Writing, WriterFields

(***************************************************************************)
(* Logging: the invariant.                                                 *)
(***************************************************************************)
LoggersIn(lg, un, str) ==
  /\ DefaultId \in DOMAIN lg /\ DOMAIN lg \subseteq Ids \ BadIds
  /\ lg \in [DOMAIN lg -> Confs] /\ un \in [DOMAIN lg -> [LogLevels -> Nat]]
  /\ str \in [DOMAIN lg -> LG!Texts]

LogInv ==
  /\ LoggersIn(loggers, unflushed, stream)
  /\ flags \in LoggingFlags /\ full \in BOOLEAN /\ calls \in 0 .. MaxCalls
  /\ aborted \in BOOLEAN /\ dangling \in BOOLEAN
  /\ FilesIn(files) /\ \A f \in LogFiles : Pending(files[f], f, loggers, unflushed)
  /\ Writers(stack, DOMAIN loggers, flags) /\ Streams(stream, stack, DOMAIN loggers, flags)

LEMMA FilesAfter ==
  ASSUME flags' = flags, NEW gs, gs = files', FilesIn(gs)
  PROVE  FilesIn(files)'
<1>1. WholeEntries' = WholeEntries
  BY DEF WholeEntries, LG!Entries, LG!Texts, LG!Blank
<1>2. QED  BY <1>1 DEF FilesIn

LEMMA LogInvAfter ==
  ASSUME LogInv, flags' = flags, FilesIn(files'), LoggersIn(loggers', unflushed', stream'),
         \A f \in LogFiles : Pending(files'[f], f, loggers', unflushed'),
         Writers(stack', DOMAIN loggers', flags), Streams(stream', stack', DOMAIN loggers', flags),
         full' \in BOOLEAN, calls' \in 0 .. MaxCalls, aborted' \in BOOLEAN, dangling' \in BOOLEAN
  PROVE  LogInv'
<1>1. FilesIn(files)'
  BY FilesAfter
<1>2. QED  BY <1>1 DEF LogInv

LEMMA Confed ==
  ASSUME LG!LoggingAssumption
  PROVE  /\ \A c \in Confs : c.file \in LogFiles \cup {NoValue} /\ c.threshold \in Nat
         /\ \A lg, un, str : LoggersIn(lg, un, str) =>
              /\ Counting(lg, un) /\ \A i \in DOMAIN lg : lg[i] \in Confs
              /\ NoValue \notin DOMAIN lg
<1>1. \A c \in Confs : c.file \in LogFiles \cup {NoValue} /\ c.threshold \in Nat
  BY DEF LG!LoggingAssumption, LG!ConfType
<1>2. NoValue \notin Ids
  BY DEF LG!LoggingAssumption
<1>3. QED  BY <1>1, <1>2 DEF LoggersIn, Counting

LEMMA CountsSet ==
  ASSUME NEW lg, NEW un \in [DOMAIN lg -> [LogLevels -> Nat]], NEW i \in DOMAIN lg, NEW l \in LogLevels, NEW v \in Nat,
         NEW un2, un2 = [un EXCEPT ![i][l] = v]
  PROVE  /\ un2 \in [DOMAIN lg -> [LogLevels -> Nat]] /\ \A j \in DOMAIN lg : j # i => un2[j] = un[j]
         /\ \A j \in DOMAIN lg, m \in LogLevels : un2[j][m] = IF j = i /\ m = l THEN v ELSE un[j][m]
OBVIOUS

LEMMA KeptPends ==
  ASSUME NEW lg, NEW un, Counting(lg, un), NEW fs, NEW gs, Kept(fs, gs),
         \A f \in LogFiles : Pending(fs[f], f, lg, un)
  PROVE  \A f \in LogFiles : Pending(gs[f], f, lg, un)
BY DrainedPends DEF Kept

\* What dispatch does to the file and the count.
LEMMA ToFileKeeps ==
  ASSUME LG!LoggingAssumption, LogInv, NEW i \in DOMAIN loggers, NEW l \in LogLevels, NEW t \in LG!Texts,
         t = <<>> => "MultiLoggerSupport" \in flags, LG!ToFile(i, l, t)
  PROVE  /\ FilesIn(files') /\ LoggersIn(loggers, unflushed', stream)
         /\ \A f \in LogFiles : Pending(files'[f], f, loggers, unflushed')
<1> DEFINE c == loggers[i]
           h == c.file
           x == Entry(i, l, t)
           n == unflushed[i][l]
<1>1. /\ Counting(loggers, unflushed) /\ NoValue \notin DOMAIN loggers /\ c \in Confs
      /\ h \in LogFiles \cup {NoValue} /\ c.threshold \in Nat /\ n \in Nat
      /\ \A j \in DOMAIN loggers : loggers[j].threshold \in Nat
      /\ unflushed \in [DOMAIN loggers -> [LogLevels -> Nat]]
  BY Confed DEF LogInv, LoggersIn
<1>2. CASE h = NoValue
  BY <1>2 DEF LG!ToFile, LogInv
<1>3. CASE h # NoValue
  <2>0. PICK f \in IF "StrictLogFileSizeCheck" \in flags THEN LG!ValidateFileRolling(files[h], c.max)
                   ELSE {files[h]} :
          \E r \in LG!Write(f, [id |-> i, level |-> l, text |-> t], n, c.threshold) :
            files' = [files EXCEPT ![h] = r[1]] /\ unflushed' = [unflushed EXCEPT ![i][l] = r[2]]
    BY <1>3 DEF LG!ToFile
  <2>1. PICK r \in LG!Write(f, [id |-> i, level |-> l, text |-> t], n, c.threshold) :
          files' = [files EXCEPT ![h] = r[1]] /\ unflushed' = [unflushed EXCEPT ![i][l] = r[2]]
    BY <2>0
  <2>2. h \in LogFiles /\ FilesIn(files) /\ FileIn(files[h], WholeEntries)
        /\ \A g \in LogFiles : Pending(files[g], g, loggers, unflushed)
    BY <1>1, <1>3 DEF LogInv, FilesIn
  <2>3. FileIn(f, WholeEntries) /\ Pending(f, h, loggers, unflushed)
    <3>1. CASE f = files[h]
      BY <3>1, <2>2
    <3>2. CASE f \in LG!ValidateFileRolling(files[h], c.max)
      <4>1. FileIn(f, WholeEntries) /\ Drained(f)
        BY <2>2, <3>2, CheckedFile
      <4>2. QED  BY <1>1, <4>1, DrainedPends
    <3>3. QED  BY <2>0, <3>1, <3>2
  <2>4. x \in WholeEntries /\ x.id = i /\ x.level = l /\ x = [id |-> i, level |-> l, text |-> t]
    <3>1. x \in WholeEntries
      BY EntryIs DEF LogInv, LoggersIn
    <3>2. QED  BY <3>1 DEF Entry
  <2>5. \/ f.failed /\ r = <<f, n>>
        \/ \E g \in LG!Flush(Held(f, x)) : r = <<g, 0>>
        \/ ~f.failed /\ n + 1 < c.threshold /\ r = <<Held(f, x), n + 1>>
    BY <1>1, <2>1, <2>4 DEF LG!Write, Held
  <2> HIDE DEF c, h, x, n
  <2>6. FileIn(Held(f, x), WholeEntries)
    BY <2>3, <2>4, HeldFile
  <2>7. r[2] \in Nat /\ FileIn(r[1], WholeEntries)
    <3>1. \A g \in LG!Flush(Held(f, x)) : FileIn(g, WholeEntries)
      BY <2>6, FlushFile
    <3>2. QED  BY <1>1, <2>3, <2>5, <2>6, <3>1
  <2>8. /\ unflushed' \in [DOMAIN loggers -> [LogLevels -> Nat]]
        /\ \A j \in DOMAIN loggers : j # i => unflushed'[j] = unflushed[j]
        /\ \A j \in DOMAIN loggers, m \in LogLevels :
             unflushed'[j][m] = IF j = i /\ m = l THEN r[2] ELSE unflushed[j][m]
    BY <1>1, <2>1, <2>7, CountsSet
  <2>9. Counting(loggers, unflushed')
    BY <1>1, <2>8 DEF Counting
  <2>10. Pending(r[1], h, loggers, unflushed')
    <3>1. CASE f.failed /\ r = <<f, n>>
      BY <3>1 DEF Pending
    <3>2. ASSUME NEW g \in LG!Flush(Held(f, x)), r = <<g, 0>>
          PROVE  Pending(r[1], h, loggers, unflushed')
      <4>1. Drained(g)
        BY <2>6, FlushFile
      <4>2. QED  BY <2>9, <3>2, <4>1, DrainedPends
    <3>3. CASE ~f.failed /\ n + 1 < c.threshold /\ r = <<Held(f, x), n + 1>>
      <4>1. /\ loggers[i].file = h /\ loggers[i].threshold = c.threshold /\ unflushed[i][l] = n
            /\ r[1] = Held(f, x) /\ r[2] = n + 1
        BY <3>3 DEF c, h, n
      <4>2. unflushed[i][l] + 1 < loggers[i].threshold
        BY <3>3, <4>1
      <4>3. Counted(loggers, unflushed, unflushed', i, l, unflushed[i][l] + 1)
        BY <2>8, <4>1 DEF Counted
      <4>4. Pending(Held(f, x), h, loggers, unflushed')
        BY <1>1, <2>3, <2>4, <4>1, <4>2, <4>3, HeldPends
      <4>5. QED  BY <4>1, <4>4
    <3>4. QED  BY <2>5, <3>1, <3>2, <3>3
  <2> DEFINE g == r[1]
  <2>11. files' = Put(files, h, g) /\ FileIn(g, WholeEntries)
    BY <2>1, <2>7 DEF Put, h
  <2> HIDE DEF g
  <2>12. FilesIn(files') /\ files'[h] = g /\ \A k \in LogFiles : k # h => files'[k] = files[k]
    BY <2>2, <2>11, OneFile
  <2>13. ASSUME NEW k \in LogFiles
         PROVE  Pending(files'[k], k, loggers, unflushed')
    <3>1. CASE k = h
      BY <2>10, <2>12, <3>1 DEF g
    <3>2. CASE k # h
      <4>1. Pending(files[k], k, loggers, unflushed) /\ loggers[i].file # k
        BY <2>2, <3>2 DEF h, c
      <4>2. Pending(files[k], k, loggers, unflushed')
        BY <2>8, <4>1, ElsewherePends
      <4>3. QED  BY <2>12, <3>2, <4>2
    <3>3. QED  BY <3>1, <3>2
  <2>14. LoggersIn(loggers, unflushed', stream)
    BY <2>8 DEF LogInv, LoggersIn
  <2>15. QED  BY <2>12, <2>13, <2>14
<1>4. QED  BY <1>2, <1>3

LEMMA NoStack ==
  ASSUME LogInv
  PROVE  /\ stack = <<>> => Silent(stream, DOMAIN loggers)
         /\ \A reg, fl : AllQuiet(<<>>, reg, fl) /\ Writers(<<>>, reg, fl)
         /\ \A str, reg, fl : Silent(str, reg) => Streams(str, <<>>, reg, fl)
<1>1. \A S : <<>> \in Seq(S)
  OBVIOUS
<1>2. \A reg, fl : AllQuiet(<<>>, reg, fl)
  BY <1>1 DEF AllQuiet
<1>3. QED  BY <1>2, QuietWriters DEF LogInv, Streams, Silent

LEMMA TopOf ==
  ASSUME LogInv, stack # <<>>
  PROVE  /\ AllQuiet(LG!Front(stack), DOMAIN loggers, flags) /\ Writing(LG!Top, DOMAIN loggers, flags)
         /\ Quiet(LG!Top) => Silent(stream, DOMAIN loggers)
         /\ LG!Top = LG!Last(stack) /\ \A w : LG!WithTop(w) = Append(LG!Front(stack), w)
BY DEF LogInv, Writers, Streams, Silent, Quiet, LG!Top, LG!WithTop

LEMMA LogKeeps ==
  ASSUME LG!LoggingAssumption, LogInv, NEW ids \in LG!Statements, NEW l \in LogLevels, LG!Log(ids, l)
  PROVE  LogInv'
<1> DEFINE todo == IF "MultiLoggerSupport" \in flags THEN ids ELSE <<Head(ids)>>
<1>1. ids \in Seq(Ids) /\ ids # <<>> /\ Head(ids) \in Ids
  <2>1. PICK n \in 1 .. 2 : ids \in [1 .. n -> Ids]
    BY DEF LG!Statements
  <2>2. QED  BY <2>1
<1>2. todo \in Seq(Ids) /\ todo # <<>> /\ ("MultiLoggerSupport" \notin flags => Tail(todo) = <<>>)
  BY <1>1
<1> DEFINE w == LG!Writer(todo, l, "said")
<1>3. stack = <<>> /\ stack' = <<w>> /\ calls' \in 0 .. MaxCalls
      /\ UNCHANGED <<loggers, unflushed, stream, files, flags, full, aborted, dangling>>
  BY DEF LG!Log, LG!Idle, LogInv, LG!LoggingAssumption
<1> HIDE DEF todo
<1>4. Writing(w, DOMAIN loggers, flags) /\ Quiet(w)
  BY <1>2, NewWriter
<1> HIDE DEF w
<1>5. stack' = Append(<<>>, w) /\ AllQuiet(<<>>, DOMAIN loggers, flags) /\ Silent(stream, DOMAIN loggers)
  BY <1>3, NoStack
<1>6. Writers(stack', DOMAIN loggers, flags) /\ Streams(stream, stack', DOMAIN loggers, flags)
  BY <1>4, <1>5, Push, SilentPush
<1>7. QED  BY <1>3, <1>6, LogInvAfter DEF LogInv

LEMMA TakeKeeps ==
  ASSUME LG!LoggingAssumption, LogInv, stack # <<>>, LG!Top.pc \in {"look", "next"}, ~LG!Missing(LG!Top),
         LG!Take(LG!Top), UNCHANGED <<loggers, unflushed, files, flags, full, calls, aborted, dangling>>
  PROVE  LogInv'
<1> DEFINE t == LG!Top
           i == Head(t.todo)
           reg == DOMAIN loggers
<1>1. i \in reg /\ NoValue \notin reg
  BY Confed DEF LG!Missing, LG!Registered, LogInv
<1>2. PICK go \in LG!Proceeds(t, i) :
        /\ stack' = LG!WithTop([t EXCEPT !.at = i, !.proceed = go, !.pc = "out", !.first = @ /\ ~go,
                                  !.msg = IF go /\ t.first THEN LG!Says(t, i, go) ELSE @])
        /\ stream' = [stream EXCEPT ![i] = LG!Says(t, i, go)]
  BY DEF LG!Take
<1> DEFINE said == LG!Says(t, i, go)
           v == Taken(t, i, go, said)
<1>3. go \in BOOLEAN
  BY <1>2, Zenon DEF LG!Proceeds
<1>4. /\ AllQuiet(LG!Front(stack), reg, flags) /\ Writing(t, reg, flags) /\ Silent(stream, reg)
      /\ stack' = Append(LG!Front(stack), v)
  <2>1. Quiet(t)
    BY DEF Quiet
  <2>2. QED  BY <1>2, <2>1, TopOf DEF Taken
<1>5. said \in LG!Texts /\ (~go => said = <<>>) /\ (said = <<>> => ~go \/ "MultiLoggerSupport" \in flags)
  <2>1. t.msg \in LG!Texts /\ t.text \in {"said", "notice"} /\ stream[i] = <<>> /\ t.pc \in {"look", "next"}
        /\ (t.pc = "next" => "MultiLoggerSupport" \in flags)
    BY <1>1, <1>4 DEF Writing, Silent
  <2>2. <<>> \o t.msg = t.msg /\ Append(<<>>, t.text) = <<t.text>>
    BY <2>1 DEF LG!Texts, LG!Blank
  <2>3. <<>> \in LG!Texts /\ <<t.text>> \in LG!Texts /\ <<t.text>> # <<>>
    BY <2>1 DEF LG!Texts, LG!Blank
  <2>4. QED  BY <2>1, <2>2, <2>3 DEF LG!Says
<1> HIDE DEF t, i, reg, said
<1>6. Writing(v, reg, flags) /\ v.pc = "out" /\ v.proceed = go /\ v.at = i
  BY <1>1, <1>3, <1>4, <1>5, TakenWriter
<1> HIDE DEF v
<1>7. Writers(stack', reg, flags) /\ stack' # <<>> /\ LG!Last(stack') = v
  BY <1>4, <1>6, Push
<1>8. stream' = [stream EXCEPT ![i] = said] /\ stream \in [reg -> LG!Texts]
  BY <1>2 DEF said, LogInv, LoggersIn, reg
<1>9. Streams(stream', stack', reg, flags)
  BY <1>1, <1>3, <1>4, <1>5, <1>6, <1>7, <1>8 DEF Streams, Silent
<1>10. LoggersIn(loggers, unflushed, stream')
  BY <1>5, <1>8 DEF LogInv, LoggersIn, reg
<1>11. QED  BY <1>7, <1>9, <1>10, LogInvAfter DEF LogInv, reg

LEMMA LeaveKeeps ==
  ASSUME LogInv, stack # <<>>, NEW w, Writing(w, DOMAIN loggers, flags), NEW str, Silent(str, DOMAIN loggers)
  PROVE  Writers(LG!Leave(w), DOMAIN loggers, flags) /\ Streams(str, LG!Leave(w), DOMAIN loggers, flags)
<1>1. AllQuiet(LG!Front(stack), DOMAIN loggers, flags)
      /\ \A v : LG!WithTop(v) = Append(LG!Front(stack), v)
  BY TopOf
<1>2. CASE Tail(w.todo) = <<>>
  <2>1. LG!Leave(w) = LG!Front(stack)
    BY <1>2 DEF LG!Leave
  <2>2. QED  BY <1>1, <2>1, QuietWriters
<1>3. CASE Tail(w.todo) # <<>>
  <2> DEFINE v == [w EXCEPT !.todo = Tail(w.todo), !.pc = "next"]
  <2>1. LG!Leave(w) = Append(LG!Front(stack), v)
    BY <1>1, <1>3 DEF LG!Leave
  <2>2. Writing(v, DOMAIN loggers, flags) /\ Quiet(v)
    BY <1>3, LeavingWriter
  <2> HIDE DEF v
  <2>3. QED  BY <1>1, <2>1, <2>2, Push, SilentPush
<1>4. QED  BY <1>2, <1>3

\* The stream of the innermost Writer's logger is cleared.
LEMMA Cleared ==
  ASSUME LogInv, stack # <<>>, NEW i \in DOMAIN loggers, Quiet(LG!Top) \/ LG!Top.at = i,
         LG!ClearStream(i)
  PROVE  Silent(stream', DOMAIN loggers) /\ stream' \in [DOMAIN loggers -> LG!Texts]
<1>1. stream' = [stream EXCEPT ![i] = <<>>] /\ stream \in [DOMAIN loggers -> LG!Texts] /\ <<>> \in LG!Texts
  BY DEF LG!ClearStream, LG!Blank, LogInv, LoggersIn, LG!Texts
<1>2. \A j \in DOMAIN loggers : j # i => stream[j] = <<>>
  <2>1. CASE Quiet(LG!Top)
    BY <2>1, TopOf DEF Silent
  <2>2. CASE LG!Top.at = i
    BY <2>2, TopOf DEF LogInv, Streams
  <2>3. QED  BY <2>1, <2>2
<1>3. QED  BY <1>1, <1>2 DEF Silent

LEMMA SkipKeeps ==
  ASSUME LG!LoggingAssumption, LogInv, LG!Skip
  PROVE  LogInv'
<1>1. /\ stack # <<>> /\ Quiet(LG!Top) /\ stack' = LG!Leave(LG!Top)
      /\ IF LG!Top.at = NoValue THEN UNCHANGED stream ELSE LG!ClearStream(LG!Top.at)
      /\ UNCHANGED <<loggers, unflushed, files, flags, full, calls, aborted, dangling>>
  BY DEF LG!Skip, Quiet
<1>2. Writing(LG!Top, DOMAIN loggers, flags) /\ Silent(stream, DOMAIN loggers)
  BY <1>1, TopOf
<1>3. Silent(stream', DOMAIN loggers) /\ stream' \in [DOMAIN loggers -> LG!Texts]
  <2>1. CASE LG!Top.at = NoValue
    BY <1>1, <1>2, <2>1 DEF LogInv, LoggersIn
  <2>2. CASE LG!Top.at # NoValue
    <3>1. LG!Top.at \in DOMAIN loggers
      BY <1>2, <2>2 DEF Writing
    <3>2. QED  BY <1>1, <2>2, <3>1, Cleared
  <2>3. QED  BY <2>1, <2>2
<1>4. Writers(stack', DOMAIN loggers, flags) /\ Streams(stream', stack', DOMAIN loggers, flags)
  BY <1>1, <1>2, <1>3, LeaveKeeps
<1>5. LoggersIn(loggers, unflushed', stream')
  BY <1>1, <1>3 DEF LogInv, LoggersIn
<1>6. QED  BY <1>1, <1>4, <1>5, LogInvAfter DEF LogInv

LEMMA DispatchKeeps ==
  ASSUME LG!LoggingAssumption, LogInv, LG!TriggerDispatch
  PROVE  LogInv'
<1> DEFINE t == LG!Top
           i == t.at
<1>1. /\ stack # <<>> /\ t.pc = "out" /\ t.proceed /\ LG!ToFile(i, t.level, stream[i]) /\ LG!ClearStream(i)
      /\ stack' = IF LG!Fatal(t)
                  THEN Append(LG!WithTop([t EXCEPT !.pc = "abort"]), LG!Notice("Warning"))
                  ELSE LG!Leave([t EXCEPT !.proceed = FALSE])
      /\ UNCHANGED <<loggers, flags, full, calls, aborted, dangling>>
  BY DEF LG!TriggerDispatch
<1>2. /\ Writing(t, DOMAIN loggers, flags) /\ AllQuiet(LG!Front(stack), DOMAIN loggers, flags)
      /\ \A v : LG!WithTop(v) = Append(LG!Front(stack), v)
  BY <1>1, TopOf
<1>3. i \in DOMAIN loggers /\ t.level \in LogLevels
  BY <1>1, <1>2 DEF Writing
<1>4. stream[i] \in LG!Texts /\ (stream[i] = <<>> => "MultiLoggerSupport" \in flags)
  <2>1. stream[i] \in LG!Texts
    BY <1>3 DEF LogInv, LoggersIn
  <2>2. QED  BY <1>1, <2>1, TopOf DEF LogInv, Streams
<1>5. /\ FilesIn(files') /\ LoggersIn(loggers, unflushed', stream)
      /\ \A f \in LogFiles : Pending(files'[f], f, loggers, unflushed')
  BY <1>1, <1>3, <1>4, ToFileKeeps
<1>6. Silent(stream', DOMAIN loggers) /\ stream' \in [DOMAIN loggers -> LG!Texts]
  BY <1>1, <1>3, Cleared
<1>7. Writers(stack', DOMAIN loggers, flags) /\ Streams(stream', stack', DOMAIN loggers, flags)
  <2>1. CASE LG!Fatal(t)
    <3> DEFINE w == LG!Notice("Warning")
               v == [t EXCEPT !.pc = "abort"]
               s == LG!WithTop(v)
    <3>1. Writing(v, DOMAIN loggers, flags) /\ Quiet(v)
      BY <1>2, AbortingWriter
    <3>2. Writing(w, DOMAIN loggers, flags) /\ Quiet(w)
      BY NoticeWriter
    <3>3. stack' = Append(s, w) /\ s = Append(LG!Front(stack), v)
      BY <1>1, <1>2, <2>1
    <3> HIDE DEF s, v, w
    <3>4. AllQuiet(s, DOMAIN loggers, flags)
      BY <1>2, <3>1, <3>3, PushQuiet
    <3>5. QED  BY <1>6, <3>2, <3>3, <3>4, Push, SilentPush
  <2>2. CASE ~LG!Fatal(t)
    <3> DEFINE v == [t EXCEPT !.proceed = FALSE]
    <3>1. Writing(v, DOMAIN loggers, flags) /\ stack' = LG!Leave(v)
      BY <1>1, <1>2, <2>2, HushedWriter
    <3> HIDE DEF v
    <3>2. QED  BY <1>1, <1>6, <3>1, LeaveKeeps
  <2>3. QED  BY <2>1, <2>2
<1>8. LoggersIn(loggers, unflushed', stream')
  BY <1>5, <1>6 DEF LoggersIn
<1>9. QED  BY <1>1, <1>5, <1>7, <1>8, LogInvAfter DEF LogInv

\* The counts and the stream of a new logger.
LEMMA Fresh == LG!Counts \in [LogLevels -> Nat] /\ LG!Blank \in LG!Texts
BY DEF LG!Counts, LG!Blank, LG!Texts

LEMMA CreateKeeps ==
  ASSUME LG!LoggingAssumption, LogInv, NEW i \in Ids, LG!Creates(i), LG!Create(i), flags' = flags
  PROVE  /\ FilesIn(files') /\ LoggersIn(loggers', unflushed', stream')
         /\ \A f \in LogFiles : Pending(files'[f], f, loggers', unflushed')
         /\ Writers(stack, DOMAIN loggers', flags) /\ Streams(stream', stack, DOMAIN loggers', flags)
<1> DEFINE reg == DOMAIN loggers
           all == reg \cup {i}
<1>1. i \notin reg /\ i \notin BadIds /\ i # NoValue /\ DefaultConf \in Confs
  BY DEF LG!Creates, LG!Registered, LG!LoggingAssumption
<1>2. /\ loggers' = [k \in all |-> IF k = i THEN DefaultConf ELSE loggers[k]]
      /\ unflushed' = [k \in all |-> IF k = i THEN LG!Counts ELSE unflushed[k]]
      /\ stream' = [k \in all |-> IF k = i THEN LG!Blank ELSE stream[k]]
      /\ files' \in LG!Build(DefaultConf, files)
  <2>1. DOMAIN unflushed = reg /\ DOMAIN stream = reg
    BY DEF LogInv, LoggersIn
  <2>2. QED  BY <2>1 DEF LG!Create, LG!RegisterNew
<1>3. LoggersIn(loggers', unflushed', stream') /\ DOMAIN loggers' = all
  BY <1>1, <1>2, Fresh DEF LogInv, LoggersIn
<1>4. Counting(loggers', unflushed') /\ Counting(loggers, unflushed)
  BY <1>3, Confed DEF LogInv
<1>5. Others(i, loggers, unflushed, loggers', unflushed')
  BY <1>2 DEF Others
<1>6. Kept(files, files')
  BY <1>1, <1>2, BuildFiles DEF LogInv
<1>7. \A f \in LogFiles : Pending(files'[f], f, loggers, unflushed)
  BY <1>4, <1>6, KeptPends DEF LogInv
<1>8. ASSUME NEW f \in LogFiles
      PROVE  Pending(files'[f], f, loggers', unflushed')
  <2>1. CASE files'[f].failed
    BY <2>1 DEF Pending
  <2>2. CASE ~files'[f].failed
    <3>1. /\ Pending(files'[f], f, loggers, unflushed)
          /\ \A k \in DOMAIN files'[f].buf : files'[f].buf[k].id # i
      BY <1>1, <1>7, <2>2 DEF Pending
    <3>2. QED  BY <1>4, <1>5, <3>1, OthersPend
  <2>3. QED  BY <2>1, <2>2
<1>9. Writers(stack, all, flags)
  BY MoreLoggers DEF LogInv
<1>10. Streams(stream', stack, all, flags)
  <2>1. stack # <<>> /\ LG!Last(stack).pc = "out" /\ LG!Last(stack).proceed => LG!Last(stack).at \in reg
    BY DEF LogInv, Writers, Writing
  <2>2. \A k \in all : stream'[k] = IF k = i THEN <<>> ELSE stream[k]
    BY <1>2 DEF LG!Blank
  <2>3. QED  BY <1>1, <2>1, <2>2 DEF LogInv, Streams
<1>11. QED  BY <1>3, <1>6, <1>8, <1>9, <1>10 DEF Kept

LEMMA InitializeKeeps ==
  ASSUME LG!LoggingAssumption, LogInv, LG!InitializeLogger
  PROVE  LogInv'
<1> DEFINE t == LG!Top
<1>1. stack # <<>> /\ t.pc \in {"look", "next"} /\ UNCHANGED <<flags, full, calls, aborted, dangling>>
  BY DEF LG!InitializeLogger
<1>2. CASE ~LG!Missing(t) /\ LG!Take(t) /\ UNCHANGED <<loggers, unflushed, files>>
  BY <1>1, <1>2, TakeKeeps
<1>3. /\ Quiet(t) /\ Writing(t, DOMAIN loggers, flags) /\ AllQuiet(LG!Front(stack), DOMAIN loggers, flags)
      /\ Silent(stream, DOMAIN loggers) /\ \A w : LG!WithTop(w) = Append(LG!Front(stack), w)
  <2>1. Quiet(t)
    BY <1>1 DEF Quiet
  <2>2. QED  BY <1>1, <2>1, TopOf
<1>4. CASE LG!Creates(Head(t.todo)) /\ LG!Create(Head(t.todo)) /\ UNCHANGED stack
  <2> DEFINE i == Head(t.todo)
  <2>1. i \in Ids
    BY <1>3 DEF Writing
  <2> HIDE DEF i
  <2>2. LG!Creates(i) /\ LG!Create(i)
    BY <1>4 DEF i
  <2>3. /\ FilesIn(files') /\ LoggersIn(loggers', unflushed', stream')
        /\ \A f \in LogFiles : Pending(files'[f], f, loggers', unflushed')
        /\ Writers(stack, DOMAIN loggers', flags) /\ Streams(stream', stack, DOMAIN loggers', flags)
    BY <1>1, <2>1, <2>2, CreateKeeps
  <2>4. QED  BY <1>1, <1>4, <2>3, LogInvAfter DEF LogInv
<1>5. CASE /\ stack' = Append(LG!WithTop([t EXCEPT !.at = NoValue, !.proceed = FALSE, !.pc = "out"]),
                              LG!Notice("Debug"))
           /\ UNCHANGED <<loggers, unflushed, stream, files>>
  <2> DEFINE v == [t EXCEPT !.at = NoValue, !.proceed = FALSE, !.pc = "out"]
             w == LG!Notice("Debug")
             s == Append(LG!Front(stack), v)
  <2>1. Writing(v, DOMAIN loggers, flags) /\ Quiet(v)
    BY <1>3, LostWriter
  <2>2. Writing(w, DOMAIN loggers, flags) /\ Quiet(w)
    BY NoticeWriter
  <2>3. stack' = Append(s, w)
    BY <1>3, <1>5
  <2> HIDE DEF v, w
  <2>4. AllQuiet(s, DOMAIN loggers, flags)
    BY <1>3, <2>1, PushQuiet
  <2> HIDE DEF s
  <2>5. Writers(stack', DOMAIN loggers, flags) /\ Streams(stream, stack', DOMAIN loggers, flags)
    BY <1>3, <2>2, <2>3, <2>4, Push, SilentPush
  <2>6. QED  BY <1>1, <1>5, <2>5, LogInvAfter DEF LogInv
<1>6. QED  BY <1>2, <1>4, <1>5 DEF LG!InitializeLogger

\* A call of the program while no Writer is alive: the stack stays empty.
LEMMA CallKeeps ==
  ASSUME LG!LoggingAssumption, LogInv, LG!Call, FilesIn(files'), LoggersIn(loggers', unflushed', stream'),
         \A f \in LogFiles : Pending(files'[f], f, loggers', unflushed'), dangling' \in BOOLEAN,
         Silent(stream', DOMAIN loggers')
  PROVE  LogInv'
<1>1. stack = <<>> /\ stack' = stack /\ calls' \in 0 .. MaxCalls /\ UNCHANGED <<flags, full, aborted>>
  BY DEF LG!Call, LG!Idle, LogInv, LG!LoggingAssumption
<1>2. Writers(stack', DOMAIN loggers', flags) /\ Streams(stream', stack', DOMAIN loggers', flags)
  BY <1>1, NoStack
<1>3. QED  BY <1>1, <1>2, LogInvAfter DEF LogInv

LEMMA CallSilent ==
  ASSUME LogInv, LG!Call
  PROVE  Silent(stream, DOMAIN loggers) /\ flags' = flags
BY NoStack DEF LG!Call, LG!Idle

LEMMA ConfigureKeeps ==
  ASSUME LG!LoggingAssumption, LogInv, NEW i \in Ids, NEW c \in Confs, LG!Configure(i, c)
  PROVE  LogInv'
<1> DEFINE h == loggers[i].file
<1>1. /\ LG!Call /\ i \in DOMAIN loggers /\ loggers' = [loggers EXCEPT ![i] = c]
      /\ unflushed' = [unflushed EXCEPT ![i] = LG!Counts] /\ UNCHANGED <<stream, dangling>>
  BY DEF LG!Configure, LG!Registered
<1>2. PICK gs : /\ files' \in LG!Build(c, gs)
                /\ \/ h # NoValue /\ \E g \in LG!Flush(files[h]) : gs = Put(files, h, g)
                   \/ gs = [f \in LogFiles |-> LG!Orphaned(files[f], i)]
  BY DEF LG!Configure, Put
<1>3. LoggersIn(loggers', unflushed', stream') /\ DOMAIN loggers' = DOMAIN loggers
  BY <1>1, Fresh DEF LogInv, LoggersIn
<1>4. Counting(loggers', unflushed') /\ Counting(loggers, unflushed) /\ h \in LogFiles \cup {NoValue}
  BY <1>1, <1>3, Confed DEF LogInv
<1>5. Others(i, loggers, unflushed, loggers', unflushed')
  <2>1. unflushed \in [DOMAIN loggers -> [LogLevels -> Nat]]
    BY DEF LogInv, LoggersIn
  <2>2. QED  BY <1>1, <2>1 DEF Others
<1>6. FilesIn(files) /\ i # NoValue /\ \A f \in LogFiles : Pending(files[f], f, loggers, unflushed)
  BY DEF LogInv, LG!LoggingAssumption
<1>7. FilesIn(gs) /\ \A f \in LogFiles : Pending(gs[f], f, loggers', unflushed')
  <2>1. ASSUME h # NoValue, NEW g \in LG!Flush(files[h]), gs = Put(files, h, g)
        PROVE  FilesIn(gs) /\ \A f \in LogFiles : Pending(gs[f], f, loggers', unflushed')
    <3>1. h \in LogFiles /\ h = loggers[i].file
      BY <1>4, <2>1
    <3> HIDE DEF h
    <3>2. FileIn(g, WholeEntries) /\ Drained(g)
      BY <1>6, <2>1, <3>1, FlushFile DEF FilesIn
    <3>3. FilesIn(gs) /\ gs[h] = g /\ \A f \in LogFiles : f # h => gs[f] = files[f]
      BY <1>6, <2>1, <3>1, <3>2, OneFile
    <3>4. ASSUME NEW f \in LogFiles
          PROVE  Pending(gs[f], f, loggers', unflushed')
      <4>1. CASE f = h
        BY <1>4, <3>2, <3>3, <4>1, DrainedPends
      <4>2. CASE f # h /\ gs[f].failed
        BY <4>2 DEF Pending
      <4>3. CASE f # h /\ ~gs[f].failed
        <5>1. Pending(gs[f], f, loggers, unflushed) /\ \A k \in DOMAIN gs[f].buf : gs[f].buf[k].id # i
          BY <1>6, <3>1, <3>3, <4>3 DEF Pending
        <5>2. QED  BY <1>4, <1>5, <5>1, OthersPend
      <4>4. QED  BY <4>1, <4>2, <4>3
    <3>5. QED  BY <3>3, <3>4
  <2>2. ASSUME gs = [f \in LogFiles |-> LG!Orphaned(files[f], i)]
        PROVE  FilesIn(gs) /\ \A f \in LogFiles : Pending(gs[f], f, loggers', unflushed')
    <3>1. ASSUME NEW f \in LogFiles
          PROVE  FileIn(gs[f], WholeEntries) /\ Pending(gs[f], f, loggers', unflushed')
      <4>1. gs[f] = LG!Orphaned(files[f], i) /\ FileIn(files[f], WholeEntries)
        BY <1>6, <2>2 DEF FilesIn
      <4>2. Pending(gs[f], f, loggers, unflushed) /\ \A k \in DOMAIN gs[f].buf : gs[f].buf[k].id # i
        BY <1>4, <1>6, <4>1, OrphanedPends
      <4>3. QED  BY <1>4, <1>5, <4>1, <4>2, OthersPend, OrphanedFile
    <3>2. QED  BY <2>2, <3>1 DEF FilesIn
  <2>3. QED  BY <1>2, <2>1, <2>2
<1>8. Kept(gs, files')
  BY <1>2, <1>7, BuildFiles
<1>9. FilesIn(files') /\ \A f \in LogFiles : Pending(files'[f], f, loggers', unflushed')
  BY <1>4, <1>7, <1>8, KeptPends DEF Kept
<1>10. dangling' \in BOOLEAN /\ Silent(stream', DOMAIN loggers')
  BY <1>1, <1>3, CallSilent DEF LogInv
<1>11. QED  BY <1>1, <1>3, <1>9, <1>10, CallKeeps

LEMMA GetLoggerKeeps ==
  ASSUME LG!LoggingAssumption, LogInv, NEW i \in Ids, LG!GetLogger(i)
  PROVE  LogInv'
<1>1. LG!Call /\ LG!Creates(i) /\ LG!Create(i) /\ UNCHANGED dangling
  BY DEF LG!GetLogger
<1>2. Silent(stream, DOMAIN loggers) /\ flags' = flags
  BY <1>1, CallSilent
<1>3. Silent(stream', DOMAIN loggers')
  BY <1>1, <1>2 DEF LG!Create, LG!RegisterNew, LG!Blank, Silent, LogInv, LoggersIn
<1>4. QED  BY <1>1, <1>2, <1>3, CreateKeeps, CallKeeps DEF LogInv

LEMMA UnregisterKeeps ==
  ASSUME LG!LoggingAssumption, LogInv, NEW i \in Ids, LG!Unregister(i)
  PROVE  LogInv'
<1> DEFINE rest == DOMAIN loggers \ {i}
<1>1. /\ LG!Call /\ i \in DOMAIN loggers \ {DefaultId} /\ dangling' \in BOOLEAN
      /\ loggers' = [k \in rest |-> loggers[k]] /\ unflushed' = [k \in rest |-> unflushed[k]]
      /\ stream' = [k \in rest |-> stream[k]] /\ files' = [f \in LogFiles |-> LG!Orphaned(files[f], i)]
  BY DEF LG!Unregister, LG!Registered, LG!Restrict
<1>2. LoggersIn(loggers', unflushed', stream') /\ DOMAIN loggers' = rest
  BY <1>1 DEF LogInv, LoggersIn
<1>3. Counting(loggers', unflushed') /\ Counting(loggers, unflushed)
  BY <1>2, Confed DEF LogInv
<1>4. Others(i, loggers, unflushed, loggers', unflushed')
  BY <1>1 DEF Others
<1>5. FilesIn(files) /\ i # NoValue /\ \A f \in LogFiles : Pending(files[f], f, loggers, unflushed)
  BY DEF LogInv, LG!LoggingAssumption
<1>6. ASSUME NEW f \in LogFiles
      PROVE  FileIn(files'[f], WholeEntries) /\ Pending(files'[f], f, loggers', unflushed')
  <2>1. files'[f] = LG!Orphaned(files[f], i) /\ FileIn(files[f], WholeEntries)
    BY <1>1, <1>5 DEF FilesIn
  <2>2. /\ Pending(files'[f], f, loggers, unflushed)
        /\ \A k \in DOMAIN files'[f].buf : files'[f].buf[k].id # i
    BY <1>3, <1>5, <2>1, OrphanedPends
  <2>3. QED  BY <1>3, <1>4, <2>1, <2>2, OthersPend, OrphanedFile
<1>7. FilesIn(files')
  BY <1>1, <1>6 DEF FilesIn
<1>8. Silent(stream', DOMAIN loggers')
  BY <1>1, CallSilent DEF Silent
<1>9. QED  BY <1>1, <1>2, <1>6, <1>7, <1>8, CallKeeps

\* Only files change, to flushed ones.
LEMMA FlushedKeep ==
  ASSUME LG!LoggingAssumption, LogInv, Kept(files, files'),
         UNCHANGED <<loggers, unflushed, stream, flags, full, stack, aborted, dangling>>,
         calls' \in 0 .. MaxCalls
  PROVE  LogInv'
<1>1. Counting(loggers, unflushed)
  BY Confed DEF LogInv
<1>2. FilesIn(files') /\ \A f \in LogFiles : Pending(files'[f], f, loggers, unflushed)
  BY <1>1, KeptPends DEF LogInv, Kept
<1>3. QED  BY <1>2, LogInvAfter DEF LogInv

LEMMA OneKept ==
  ASSUME LogInv, NEW f \in LogFiles, NEW g, FileIn(g, WholeEntries), Drained(g), files' = Put(files, f, g)
  PROVE  Kept(files, files')
<1>1. FilesIn(files)
  BY DEF LogInv
<1>2. FilesIn(files') /\ files'[f] = g /\ \A h \in LogFiles : h # f => files'[h] = files[h]
  BY <1>1, OneFile
<1>3. QED  BY <1>2 DEF Kept

LEMMA CallUnchanged ==
  ASSUME LG!LoggingAssumption, LogInv, LG!Call, UNCHANGED <<loggers, unflushed, stream, dangling>>
  PROVE  /\ UNCHANGED <<loggers, unflushed, stream, flags, full, stack, aborted, dangling>>
         /\ calls' \in 0 .. MaxCalls
BY DEF LG!Call, LogInv, LG!LoggingAssumption

LEMMA FlushAllKeeps ==
  ASSUME LG!LoggingAssumption, LogInv, LG!FlushAll
  PROVE  LogInv'
<1>1. /\ LG!Call /\ UNCHANGED <<loggers, unflushed, stream, dangling>>
      /\ files' = [f \in LogFiles |-> files'[f]] /\ \A f \in LogFiles : files'[f] \in LG!Flush(files[f])
  BY DEF LG!FlushAll
<1>2. ASSUME NEW f \in LogFiles
      PROVE  FileIn(files'[f], WholeEntries) /\ Drained(files'[f])
  BY <1>1, FlushFile DEF LogInv, FilesIn
<1>3. Kept(files, files')
  BY <1>1, <1>2 DEF Kept, FilesIn
<1>4. QED  BY <1>1, <1>3, CallUnchanged, FlushedKeep

LEMMA CheckRollingKeeps ==
  ASSUME LG!LoggingAssumption, LogInv, NEW i \in Ids, LG!CheckRolling(i)
  PROVE  LogInv'
<1> DEFINE h == loggers[i].file
<1>1. /\ LG!Call /\ UNCHANGED <<loggers, unflushed, stream, dangling>> /\ i \in DOMAIN loggers /\ h # NoValue
      /\ \E g \in LG!ValidateFileRolling(files[h], loggers[i].max) : files' = Put(files, h, g)
  BY DEF LG!CheckRolling, LG!Registered, Put
<1>2. h \in LogFiles
  BY <1>1, Confed DEF LogInv
<1> HIDE DEF h
<1>3. FileIn(files[h], WholeEntries)
  BY <1>2 DEF LogInv, FilesIn
<1>4. PICK g \in LG!ValidateFileRolling(files[h], loggers[i].max) : files' = Put(files, h, g)
  BY <1>1
<1>5. FileIn(g, WholeEntries) /\ Drained(g)
  BY <1>3, CheckedFile
<1>6. Kept(files, files')
  BY <1>2, <1>4, <1>5, OneKept
<1>7. QED  BY <1>1, <1>6, CallUnchanged, FlushedKeep

LEMMA SpillKeeps ==
  ASSUME LG!LoggingAssumption, LogInv, NEW f \in LogFiles, LG!Spill(f)
  PROVE  LogInv'
<1>1. /\ \E g \in LG!Flush(files[f]) : files' = Put(files, f, g)
      /\ UNCHANGED <<loggers, unflushed, stream, flags, full, stack, calls, aborted, dangling>>
  BY DEF LG!Spill, Put
<1>2. PICK g \in LG!Flush(files[f]) : files' = Put(files, f, g)
  BY <1>1
<1>3. FileIn(files[f], WholeEntries)
  BY DEF LogInv, FilesIn
<1>4. FileIn(g, WholeEntries) /\ Drained(g)
  BY <1>3, FlushFile
<1>5. Kept(files, files')
  BY <1>2, <1>4, OneKept
<1>6. calls' \in 0 .. MaxCalls
  BY <1>1 DEF LogInv
<1>7. QED  BY <1>1, <1>5, <1>6, FlushedKeep

LEMMA StillKeeps ==
  ASSUME LogInv, UNCHANGED <<loggers, unflushed, stream, files, flags, stack, calls, dangling>>,
         full' \in BOOLEAN, aborted' \in BOOLEAN
  PROVE  LogInv'
BY LogInvAfter DEF LogInv

LEMMA NextLog ==
  ASSUME LG!LoggingAssumption, LogInv, [LG!Next]_(LG!vars)
  PROVE  LogInv'
<1>1. ASSUME NEW ids \in LG!Statements, NEW l \in LogLevels, LG!Log(ids, l)
      PROVE  LogInv'
  BY <1>1, LogKeeps
<1>2. CASE LG!InitializeLogger \/ LG!Skip \/ LG!TriggerDispatch
  BY <1>2, InitializeKeeps, SkipKeeps, DispatchKeeps
<1>3. CASE LG!Abort
  BY <1>3, StillKeeps DEF LG!Abort, LogInv
<1>4. ASSUME NEW i \in Ids, NEW c \in Confs, LG!Configure(i, c)
      PROVE  LogInv'
  BY <1>4, ConfigureKeeps
<1>5. ASSUME NEW i \in Ids, LG!GetLogger(i) \/ LG!Unregister(i) \/ LG!CheckRolling(i)
      PROVE  LogInv'
  BY <1>5, GetLoggerKeeps, UnregisterKeeps, CheckRollingKeeps
<1>6. CASE LG!FlushAll
  BY <1>6, FlushAllKeeps
<1>7. CASE LG!DiskFills
  BY <1>7, StillKeeps DEF LG!DiskFills, LogInv
<1>8. ASSUME NEW f \in LogFiles, LG!Spill(f)
      PROVE  LogInv'
  BY <1>8, SpillKeeps
<1>9. CASE UNCHANGED LG!vars
  BY <1>9, StillKeeps DEF LG!vars, LogInv
<1>10. QED  BY <1>1, <1>2, <1>3, <1>4, <1>5, <1>6, <1>7, <1>8, <1>9 DEF LG!Next

LEMMA InitLog ==
  ASSUME LG!LoggingAssumption, LG!Init
  PROVE  LogInv
<1> DEFINE new == FileOf(<<>>, <<>>, FALSE, 0, 0, FALSE)
<1>1. /\ loggers = [i \in {DefaultId} |-> DefaultConf] /\ unflushed = [i \in {DefaultId} |-> LG!Counts]
      /\ stream = [i \in {DefaultId} |-> LG!Blank] /\ files = [f \in LogFiles |-> LG!NewFile]
      /\ flags \in LoggingFlags /\ full = FALSE /\ stack = <<>> /\ calls = 0 /\ aborted = FALSE
      /\ dangling = FALSE
  BY DEF LG!Init
<1>2. DefaultId \in Ids \ BadIds /\ DefaultConf \in Confs /\ MaxCalls \in Nat
  BY DEF LG!LoggingAssumption
<1>3. LoggersIn(loggers, unflushed, stream) /\ DOMAIN loggers = {DefaultId}
  BY <1>1, <1>2, Fresh DEF LoggersIn
<1>4. FileIn(LG!NewFile, WholeEntries) /\ Drained(LG!NewFile)
  <2>1. LG!NewFile.disk = <<>> /\ LG!NewFile.buf = <<>> /\ LG!NewFile.past = 0 /\ LG!NewFile.written = 0
    BY DEF LG!NewFile
  <2>2. <<>> \in Seq(WholeEntries) /\ Len(<<>>) = 0
    OBVIOUS
  <2>3. LG!NewFile \in [disk : Seq(WholeEntries), buf : Seq(WholeEntries), failed : BOOLEAN, past : Nat,
                        written : Nat, lost : BOOLEAN]
    BY <2>2 DEF LG!NewFile
  <2>4. QED  BY <2>1, <2>2, <2>3 DEF FileIn, Drained
<1>5. FilesIn(files)
  BY <1>1, <1>4 DEF FilesIn
<1>6. Counting(loggers, unflushed)
  BY <1>3, Confed
<1>7. \A f \in LogFiles : Pending(files[f], f, loggers, unflushed)
  BY <1>1, <1>4, <1>6, DrainedPends
<1>8. Silent(stream, DOMAIN loggers)
  BY <1>1 DEF Silent, LG!Blank
<1>9. Writers(stack, DOMAIN loggers, flags) /\ Streams(stream, stack, DOMAIN loggers, flags)
  <2>1. \A S : <<>> \in Seq(S)
    OBVIOUS
  <2>2. AllQuiet(<<>>, DOMAIN loggers, flags)
    BY <2>1 DEF AllQuiet
  <2>3. QED  BY <1>1, <1>8, <2>2, QuietWriters
<1>10. calls \in 0 .. MaxCalls
  BY <1>1, <1>2
<1>11. QED  BY <1>1, <1>3, <1>5, <1>7, <1>9, <1>10 DEF LogInv

LEMMA SameCardinality == \A S : LG!Cardinality(S) = Cardinality(S)
BY DEF LG!Cardinality, Cardinality

LEMMA LogShows ==
  ASSUME LG!LoggingAssumption, LogInv
  PROVE  LG!TypeOK /\ LG!EntriesWhole /\ LG!NothingVanishes /\ LG!PendingBounded
<1>1. ASSUME NEW f \in LogFiles, NEW e \in LG!Range(files[f].disk) \cup LG!Range(files[f].buf)
      PROVE  e \in WholeEntries
  <2>1. files[f].disk \in Seq(WholeEntries) /\ files[f].buf \in Seq(WholeEntries)
    BY DEF LogInv, FilesIn, FileIn
  <2>2. QED  BY <2>1 DEF LG!Range
<1>2. LG!TypeOK
  <2>1. \A f \in LogFiles : DOMAIN files[f] = DOMAIN LG!NewFile
    BY DEF LogInv, FilesIn, FileIn, LG!NewFile
  <2>2. stack = <<>> => \A i \in DOMAIN loggers : stream[i] = LG!Blank
    BY NoStack DEF Silent, LG!Blank
  <2>3. \A f \in LogFiles : LG!Range(files[f].disk) \cup LG!Range(files[f].buf) \subseteq LG!Entries
    BY <1>1 DEF WholeEntries
  <2>4. QED  BY <2>1, <2>2, <2>3 DEF LogInv, LoggersIn, LG!TypeOK, LG!Registered
<1>3. LG!EntriesWhole
  BY <1>1 DEF LG!EntriesWhole, WholeEntries, LG!Blank
<1>4. LG!NothingVanishes
  BY DEF LogInv, FilesIn, FileIn, LG!NothingVanishes
<1>5. LG!PendingBounded
  <2> SUFFICES ASSUME NEW f \in LogFiles, NEW i \in DOMAIN loggers, NEW l \in LogLevels,
                      loggers[i].file = f, ~files[f].failed
               PROVE  LET n == Cardinality({k \in DOMAIN files[f].buf :
                                              files[f].buf[k].id = i /\ files[f].buf[k].level = l})
                      IN n <= unflushed[i][l] /\ (n > 0 => n < loggers[i].threshold)
    BY SameCardinality DEF LG!PendingBounded, LG!Registered
  <2>1. Covered(files[f].buf, i, l, unflushed[i][l], loggers[i].threshold)
    BY DEF LogInv, Pending
  <2>2. QED  BY <2>1 DEF Covered, Waiting
<1>6. QED  BY <1>2, <1>3, <1>4, <1>5

-----------------------------------------------------------------------------
(***************************************************************************)
(* Performance tracking.  The unit that is shown: the fold goes through    *)
(* the units with the size of the one it has reached, and the sizes grow.  *)
(***************************************************************************)
Shown == [den : Nat, unit : Nat]

NextUnit(t, u, m) ==
  [p \in Shown \X (1 .. m) |->
     IF p[1].den * Ratios[u + p[2] - 1] >= t \/ p[1].unit < u + p[2] - 1 THEN p[1]
     ELSE [den |-> p[1].den * Ratios[u + p[2] - 1], unit |-> u + p[2] - 1 + 1]]

ShowFold(t, u) ==
  PT!FoldLeft(LAMBDA s, k : IF s.den * Ratios[k] >= t \/ s.unit < k THEN s
                            ELSE [den |-> s.den * Ratios[k], unit |-> k + 1],
              [den |-> 1, unit |-> u], [k \in 1 .. Len(Ratios) - u |-> u + k - 1])

TimesRatio(u, m) == [p \in Nat \X (1 .. m) |-> p[1] * Ratios[u + p[2] - 1]]

LEMMA Products ==
  ASSUME NEW a \in Nat, NEW r \in Nat \ {0}
  PROVE  a * r \in Nat /\ a * r >= a
OBVIOUS

LEMMA ShowSteps ==
  ASSUME PT!PerformanceTrackerAssumption, NEW t \in Nat, NEW u \in 1 .. 2
  PROVE  Reaches(NextUnit(t, u, Len(Ratios) - u), [den |-> 1, unit |-> u], Shown, Len(Ratios) - u, ShowFold(t, u))
<1> DEFINE m == Len(Ratios) - u
           F == NextUnit(t, u, m)
           base == [den |-> 1, unit |-> u]
           seq == [k \in 1 .. m |-> u + k - 1]
           Op(s, k) == IF s.den * Ratios[k] >= t \/ s.unit < k THEN s
                       ELSE [den |-> s.den * Ratios[k], unit |-> k + 1]
           D(g) == [s \in SUBSET (DOMAIN seq) |->
                      IF s = {} THEN base ELSE Op(g[s \ {Largest(s)}], seq[Largest(s)])]
           G == CHOOSE g : g = D(g)
<1>1. /\ m \in Nat /\ base \in Shown /\ DOMAIN seq = 1 .. m
      /\ \A i \in 1 .. m : seq[i] = u + i - 1 /\ seq[i] \in Nat /\ Ratios[seq[i]] \in Nat \ {0}
  <2>1. Len(Ratios) \in Nat /\ Len(Ratios) >= 2 /\ \A i \in 1 .. Len(Ratios) : Ratios[i] \in Nat \ {0}
    BY DEF PT!PerformanceTrackerAssumption
  <2>2. \A i \in 1 .. m : seq[i] = u + i - 1 /\ u + i - 1 \in 1 .. Len(Ratios)
    BY <2>1
  <2>3. QED  BY <2>1, <2>2 DEF Shown
<1>2. ShowFold(t, u) = G[DOMAIN seq]
  BY DEF ShowFold, PT!FoldLeft, PT!MapThenFoldSet, PT!Max, Largest
<1>3. \A a \in Shown, i \in 1 .. m : F[<<a, i>>] = Op(a, seq[i])
  BY <1>1 DEF NextUnit
<1>4. \A a \in Shown, i \in 1 .. m : Op(a, seq[i]) \in Shown
  <2>1. ASSUME NEW a \in Shown, NEW i \in 1 .. m
        PROVE  Op(a, seq[i]) \in Shown
    <3>1. a.den \in Nat /\ Ratios[seq[i]] \in Nat \ {0} /\ seq[i] \in Nat
      BY <1>1 DEF Shown
    <3>2. a.den * Ratios[seq[i]] \in Nat
      BY <3>1, Products
    <3> HIDE DEF seq
    <3>3. QED  BY <3>1, <3>2 DEF Shown
  <2>2. QED  BY <2>1
<1> HIDE DEF F, m, seq, base, Op
<1>0. m \in Nat /\ base \in Shown /\ StepsIn(F, Shown, m)
  BY <1>1, <1>3, <1>4 DEF StepsIn
<1>5. PICK g : Iterates(g, F, base, Shown, m)
  BY <1>0, IterExists
<1>6. \A s \in SUBSET (1 .. m) : s # {} => Largest(s) \in 1 .. m /\ s \ {Largest(s)} \in SUBSET (1 .. m)
  BY <1>1, LargestIn
<1>7. g = D(g)
  <2>1. g \in [SUBSET (1 .. m) -> Shown]
    BY <1>5 DEF Iterates
  <2>2. ASSUME NEW s \in SUBSET (1 .. m)
        PROVE  g[s] = IF s = {} THEN base ELSE Op(g[s \ {Largest(s)}], seq[Largest(s)])
    <3>1. g[s] = IF s = {} THEN base ELSE F[<<g[s \ {Largest(s)}], Largest(s)>>]
      BY <1>5 DEF Iterates
    <3>2. s # {} => g[s \ {Largest(s)}] \in Shown /\ Largest(s) \in 1 .. m
      BY <1>6, <2>1
    <3>3. QED  BY <1>3, <3>1, <3>2
  <2>3. QED  BY <1>1, <2>1, <2>2
<1>8. G = D(G)
  BY <1>7
<1> HIDE DEF G
<1>9. Unrolls(G, F, base, Shown, m)
  BY <1>1, <1>3, <1>6, <1>8 DEF Unrolls
<1>10. Reaches(F, base, Shown, m, G[1 .. m])
  BY <1>0, <1>9, FoldUnrolls
<1>11. QED  BY <1>1, <1>2, <1>10 DEF m, F, base

LEMMA SizeSteps ==
  ASSUME PT!PerformanceTrackerAssumption, NEW u \in 1 .. 2, NEW m \in 0 .. Len(Ratios) - u
  PROVE  Reaches(TimesRatio(u, m), 1, Nat, m, PT!Size(u, u + m))
<1> DEFINE F == TimesRatio(u, m)
           seq == [k \in 1 .. u + m - u |-> u + k - 1]
           D(g) == [s \in SUBSET (DOMAIN seq) |->
                      IF s = {} THEN 1 ELSE g[s \ {Largest(s)}] * Ratios[seq[Largest(s)]]]
           G == CHOOSE g : g = D(g)
<1>1. /\ m \in Nat /\ 1 \in Nat /\ DOMAIN seq = 1 .. m
      /\ \A i \in 1 .. m : seq[i] = u + i - 1 /\ Ratios[seq[i]] \in Nat \ {0}
  <2>1. Len(Ratios) \in Nat /\ Len(Ratios) >= 2 /\ \A i \in 1 .. Len(Ratios) : Ratios[i] \in Nat \ {0}
    BY DEF PT!PerformanceTrackerAssumption
  <2>2. u + m - u = m
    BY <2>1
  <2>3. \A i \in 1 .. m : seq[i] = u + i - 1 /\ u + i - 1 \in 1 .. Len(Ratios)
    BY <2>1, <2>2
  <2>4. QED  BY <2>1, <2>2, <2>3
<1>2. PT!Size(u, u + m) = G[DOMAIN seq]
  BY DEF PT!Size, PT!FoldLeft, PT!MapThenFoldSet, PT!Max, Largest
<1>3. \A a \in Nat, i \in 1 .. m : F[<<a, i>>] = a * Ratios[seq[i]] /\ F[<<a, i>>] \in Nat
  BY <1>1, Products DEF TimesRatio
<1> HIDE DEF F, seq
<1>0. m \in Nat /\ StepsIn(F, Nat, m)
  BY <1>1, <1>3 DEF StepsIn
<1>5. PICK g : Iterates(g, F, 1, Nat, m)
  BY <1>0, <1>1, IterExists
<1>6. \A s \in SUBSET (1 .. m) : s # {} => Largest(s) \in 1 .. m /\ s \ {Largest(s)} \in SUBSET (1 .. m)
  BY <1>1, LargestIn
<1>7. g = D(g)
  <2>1. g \in [SUBSET (1 .. m) -> Nat]
    BY <1>5 DEF Iterates
  <2>2. ASSUME NEW s \in SUBSET (1 .. m)
        PROVE  g[s] = IF s = {} THEN 1 ELSE g[s \ {Largest(s)}] * Ratios[seq[Largest(s)]]
    <3>1. g[s] = IF s = {} THEN 1 ELSE F[<<g[s \ {Largest(s)}], Largest(s)>>]
      BY <1>5 DEF Iterates
    <3>2. s # {} => g[s \ {Largest(s)}] \in Nat /\ Largest(s) \in 1 .. m
      BY <1>6, <2>1
    <3>3. QED  BY <1>3, <3>1, <3>2
  <2>3. QED  BY <1>1, <2>1, <2>2
<1>8. G = D(G)
  BY <1>7
<1> HIDE DEF G
<1>9. Unrolls(G, F, 1, Nat, m)
  BY <1>1, <1>3, <1>6, <1>8 DEF Unrolls
<1>10. Reaches(F, 1, Nat, m, G[1 .. m])
  BY <1>0, <1>1, <1>9, FoldUnrolls
<1>11. QED  BY <1>1, <1>2, <1>10 DEF F

\* A property of 0..m that goes from each number to the next.
LEMMA UpTo ==
  ASSUME NEW m \in Nat, NEW Bad \in SUBSET (0 .. m), 0 \notin Bad, \A i \in 1 .. m : i \in Bad => i - 1 \in Bad
  PROVE  Bad = {}
<1>1. SUFFICES ASSUME Bad # {} PROVE FALSE
  OBVIOUS
<1>2. PICK i \in Bad : \A j \in Bad : i <= j
  BY <1>1, LeastNatural
<1>3. i \in 1 .. m
  <2>1. i \in 0 .. m /\ i # 0
    OBVIOUS
  <2>2. QED  BY <2>1
<1>4. i - 1 \in Bad /\ i - 1 < i
  BY <1>3
<1>5. QED  BY <1>2, <1>3, <1>4

LEMMA Sizes ==
  ASSUME PT!PerformanceTrackerAssumption, NEW u \in 1 .. 2, NEW m, m = Len(Ratios) - u
  PROVE  \E p : /\ p[0] = 1 /\ \A j \in 0 .. m : p[j] \in Nat /\ PT!Size(u, u + j) = p[j]
                /\ \A i \in 1 .. m : p[i] = p[i - 1] * Ratios[u + i - 1]
                /\ \A i \in 0 .. m : \A j \in 0 .. i : p[j] <= p[i]
<1>1. /\ m \in Nat /\ m \in 0 .. m /\ \A i \in 1 .. m : u + i - 1 \in 1 .. Len(Ratios)
      /\ \A i \in 1 .. m : Ratios[u + i - 1] \in Nat \ {0}
  <2>1. Len(Ratios) \in Nat /\ Len(Ratios) >= 2 /\ \A i \in 1 .. Len(Ratios) : Ratios[i] \in Nat \ {0}
    BY DEF PT!PerformanceTrackerAssumption
  <2>2. QED  BY <2>1
<1>2. PICK p : Goes(p, TimesRatio(u, m), 1, Nat, m)
  BY <1>1, SizeSteps DEF Reaches
<1>3. p[0] = 1 /\ \A j \in 0 .. m : p[j] \in Nat
  BY <1>2 DEF Goes, StepsOf
<1>4. \A i \in 1 .. m : i - 1 \in 0 .. m /\ p[i] = p[i - 1] * Ratios[u + i - 1] /\ p[i] >= p[i - 1]
  <2>1. ASSUME NEW i \in 1 .. m
        PROVE  i - 1 \in 0 .. m /\ p[i] = p[i - 1] * Ratios[u + i - 1] /\ p[i] >= p[i - 1]
    <3>1. i - 1 \in 0 .. m
      BY <1>1
    <3>2. p[i] = TimesRatio(u, m)[<<p[i - 1], i>>]
      BY <1>2 DEF Goes, StepsOf
    <3>3. p[i] = p[i - 1] * Ratios[u + i - 1]
      BY <1>3, <3>1, <3>2 DEF TimesRatio
    <3>4. QED  BY <1>1, <1>3, <3>1, <3>3, Products
  <2>2. QED  BY <2>1
<1>5. ASSUME NEW j \in 0 .. m
      PROVE  PT!Size(u, u + j) = p[j]
  <2>1. j \in Nat /\ j \in 0 .. j /\ 1 .. j \subseteq 1 .. m
    BY <1>1
  <2>2. PICK q : Goes(q, TimesRatio(u, j), 1, Nat, j) /\ q[j] = PT!Size(u, u + j)
    BY <1>1, SizeSteps DEF Reaches
  <2>3. StepsOf(p, TimesRatio(u, m), 1, j) /\ StepsOf(q, TimesRatio(u, j), 1, j)
    BY <1>2, <2>1, <2>2 DEF Goes, StepsOf
  <2>4. \A i \in 1 .. j : TimesRatio(u, m)[<<p[i - 1], i>>] = TimesRatio(u, j)[<<p[i - 1], i>>]
    BY <1>3, <1>4, <2>1 DEF TimesRatio
  <2>5. \A i \in 0 .. j : p[i] = q[i]
    BY <2>1, <2>3, <2>4, StepsAgree
  <2>6. QED  BY <2>1, <2>2, <2>5
<1>6. \A i \in 0 .. m : \A j \in 0 .. i : p[j] <= p[i]
  <2> DEFINE Bad == { i \in 0 .. m : ~ \A j \in 0 .. i : p[j] <= p[i] }
  <2>1. 0 \notin Bad
    BY <1>3
  <2>2. ASSUME NEW i \in 1 .. m, i - 1 \notin Bad
        PROVE  i \notin Bad
    <3>1. \A j \in 0 .. i - 1 : p[j] <= p[i - 1] /\ p[j] \in Nat
      BY <1>1, <1>3, <1>4, <2>2
    <3>2. p[i] \in Nat /\ p[i - 1] \in Nat /\ p[i] >= p[i - 1]
      BY <1>3, <1>4
    <3>3. \A j \in 0 .. i : j \in 0 .. i - 1 \/ j = i
      OBVIOUS
    <3>4. QED  BY <3>1, <3>2, <3>3
  <2>3. Bad \in SUBSET (0 .. m)
    OBVIOUS
  <2>4. Bad = {}
    <3> HIDE DEF Bad
    <3>1. QED  BY <1>1, <2>1, <2>2, <2>3, UpTo
  <2>5. QED  BY <2>4
<1>7. QED  BY <1>3, <1>4, <1>5, <1>6

\* formatTime shows the largest unit of which the time has more than one.
LEMMA ShowsUnit ==
  ASSUME PT!PerformanceTrackerAssumption, NEW t \in Nat, NEW u \in 1 .. 2
  PROVE  /\ PT!Shows(t, u) \in Nat
         /\ \A v \in u + 1 .. Len(Ratios) : v <= PT!Shows(t, u) <=> t > PT!Size(u, v)
<1> DEFINE m == Len(Ratios) - u
           base == [den |-> 1, unit |-> u]
<1>1. /\ m \in Nat /\ m \in 0 .. m /\ Len(Ratios) = u + m
      /\ \A i \in 1 .. m : u + i - 1 \in 1 .. Len(Ratios) /\ Ratios[u + i - 1] \in Nat \ {0}
  <2>1. Len(Ratios) \in Nat /\ Len(Ratios) >= 2 /\ \A i \in 1 .. Len(Ratios) : Ratios[i] \in Nat \ {0}
    BY DEF PT!PerformanceTrackerAssumption
  <2>2. QED  BY <2>1
<1>2. PICK p : /\ p[0] = 1 /\ \A j \in 0 .. m : p[j] \in Nat /\ PT!Size(u, u + j) = p[j]
               /\ \A i \in 1 .. m : p[i] = p[i - 1] * Ratios[u + i - 1]
               /\ \A i \in 0 .. m : \A j \in 0 .. i : p[j] <= p[i]
  <2> HIDE DEF m
  <2>1. m = Len(Ratios) - u
    BY DEF m
  <2>2. QED  BY <2>1, Sizes
<1>3. PICK h : Goes(h, NextUnit(t, u, m), base, Shown, m) /\ h[m] = ShowFold(t, u)
  BY ShowSteps DEF Reaches
<1> DEFINE Reached(i) == \E j \in 0 .. i :
             /\ h[i] = [den |-> p[j], unit |-> u + j] /\ (j > 0 => p[j] < t)
             /\ (j < i => p[j + 1] >= t)
           Bad == { i \in 0 .. m : ~Reached(i) }
<1> HIDE DEF m
<1>4. 0 \notin Bad
  <2>1. h[0] = [den |-> p[0], unit |-> u + 0] /\ 0 \in 0 .. 0
    BY <1>2, <1>3 DEF Goes, StepsOf
  <2>2. Reached(0)
    BY <2>1
  <2>3. QED  BY <2>2
<1>5. ASSUME NEW i \in 1 .. m, i - 1 \notin Bad
      PROVE  i \notin Bad
  <2>1. i - 1 \in 0 .. m /\ i \in Nat
    BY <1>1
  <2>2. PICK j \in 0 .. i - 1 : /\ h[i - 1] = [den |-> p[j], unit |-> u + j] /\ (j > 0 => p[j] < t)
                                /\ (j < i - 1 => p[j + 1] >= t)
    BY <1>5, <2>1
  <2> DEFINE s == h[i - 1]
  <2>3. /\ s \in Shown /\ s.den = p[j] /\ s.unit = u + j /\ p[j] \in Nat /\ j \in 0 .. m /\ j + 1 \in 1 .. m
        /\ p[j + 1] = p[j] * Ratios[u + j] /\ p[j + 1] \in Nat
    <3>1. j \in 0 .. m /\ j + 1 \in 1 .. m /\ j + 1 - 1 = j /\ u + (j + 1) - 1 = u + j
      BY <1>1, <2>1
    <3>2. QED  BY <1>2, <1>3, <2>1, <2>2, <3>1 DEF Goes
  <2>4. h[i] = IF s.den * Ratios[u + i - 1] >= t \/ s.unit < u + i - 1 THEN s
               ELSE [den |-> s.den * Ratios[u + i - 1], unit |-> u + i - 1 + 1]
    <3>1. h[i] = NextUnit(t, u, m)[<<s, i>>]
      BY <1>3 DEF Goes, StepsOf
    <3>2. <<s, i>> \in Shown \X (1 .. m)
      BY <2>3
    <3> HIDE DEF s
    <3>3. QED  BY <3>1, <3>2 DEF NextUnit
  <2> HIDE DEF s
  <2>5. CASE j < i - 1
    <3>1. s.unit < u + i - 1
      BY <2>3, <2>5
    <3>2. h[i] = [den |-> p[j], unit |-> u + j] /\ j \in 0 .. i
      BY <2>2, <2>4, <3>1 DEF s
    <3>3. QED  BY <2>2, <2>5, <3>2
  <2>6. CASE j = i - 1 /\ p[j + 1] >= t
    <3>1. s.den * Ratios[u + i - 1] >= t
      <4>1. u + i - 1 = u + j
        BY <2>6
      <4>2. QED  BY <2>3, <2>6, <4>1
    <3>2. h[i] = [den |-> p[j], unit |-> u + j] /\ j \in 0 .. i
      BY <2>2, <2>4, <3>1 DEF s
    <3>3. QED  BY <2>2, <2>6, <3>2
  <2>7. CASE j = i - 1 /\ p[j + 1] < t
    <3>1. u + i - 1 = u + j /\ j + 1 = i /\ u + i - 1 + 1 = u + i
      BY <2>1, <2>7
    <3>2. ~(s.den * Ratios[u + i - 1] >= t) /\ ~(s.unit < u + i - 1)
      BY <2>3, <2>7, <3>1
    <3>3. h[i] = [den |-> p[i], unit |-> u + i]
      BY <2>3, <2>4, <3>1, <3>2
    <3>4. i \in 0 .. i
      BY <2>1
    <3>5. QED  BY <2>7, <3>1, <3>3, <3>4
  <2>8. p[j + 1] >= t \/ p[j + 1] < t
    BY <2>3
  <2>9. QED  BY <2>2, <2>5, <2>6, <2>7, <2>8
<1>6. Bad = {}
  <2>1. Bad \in SUBSET (0 .. m)
    OBVIOUS
  <2> HIDE DEF Bad
  <2>2. QED  BY <1>1, <1>4, <1>5, <2>1, UpTo
<1>7. PICK j \in 0 .. m : /\ h[m] = [den |-> p[j], unit |-> u + j] /\ (j > 0 => p[j] < t)
                          /\ (j < m => p[j + 1] >= t)
  BY <1>1, <1>6
<1>8. PT!Shows(t, u) = u + j
  <2>1. PT!Shows(t, u) = ShowFold(t, u).unit
    BY DEF PT!Shows, ShowFold
  <2>2. h[m].unit = u + j
    BY <1>7
  <2> HIDE DEF base, Reached, Bad
  <2>3. QED  BY <1>3, <2>1, <2>2, Zenon
<1>9. ASSUME NEW v \in u + 1 .. Len(Ratios)
      PROVE  v <= u + j <=> t > PT!Size(u, v)
  <2>1. v - u \in 1 .. m /\ u + (v - u) = v /\ v - u \in 0 .. m
    BY <1>1
  <2>2. PT!Size(u, v) = p[v - u] /\ p[v - u] \in Nat
    BY <1>2, <2>1
  <2>3. CASE v - u <= j
    <3>1. v - u \in 0 .. j /\ j > 0 /\ p[j] \in Nat
      BY <1>2, <2>1, <2>3
    <3>2. p[v - u] <= p[j] /\ p[j] < t
      BY <1>2, <1>7, <3>1
    <3>3. QED  BY <2>1, <2>2, <2>3, <3>1, <3>2
  <2>4. CASE ~(v - u <= j)
    <3>1. j < m /\ j + 1 \in 0 .. v - u /\ j + 1 \in 0 .. m
      BY <1>1, <2>1, <2>4
    <3>2. p[j + 1] <= p[v - u] /\ p[j + 1] >= t /\ p[j + 1] \in Nat
      BY <1>2, <1>7, <2>1, <3>1
    <3>3. QED  BY <2>1, <2>2, <2>4, <3>2
  <2>5. QED  BY <2>3, <2>4
<1>10. QED  BY <1>8, <1>9

(***************************************************************************)
(* The clock is what passed unless it was set back; a reading is older     *)
(* than the clock, and what a tracker wants is what it was made with.      *)
(***************************************************************************)
Readings == [clock : Nat, elapsed : Nat, sets : Nat]

\* A reading, when the clock shows n, e passed and it was set back s times.
Past(r, n, e, s) ==
  r \in Readings /\ r.sets <= s /\ (r.sets = s => r.elapsed <= e /\ n - r.clock = e - r.elapsed)

TrackerFields == {"alive", "m_enabled", "unit", "start", "last", "m_hasChecked", "wanted"}

Tracks(tr, n, e, s) ==
  /\ DOMAIN tr = TrackerFields /\ tr = [i \in TrackerFields |-> tr[i]]
  /\ tr.alive = TRUE /\ tr.m_enabled \in BOOLEAN /\ tr.wanted = tr.m_enabled /\ tr.unit \in 1 .. 2
  /\ Past(tr.start, n, e, s) /\ Past(tr.last, n, e, s)

Reported == [kind : {"whole", "part", "end"}, time : Nat, unit : 1 .. 2, shown : Nat, passed : Int,
             steady : BOOLEAN, wanted : {TRUE}]

\* The reports that are right with the flags fl.
RightWith(fl) == { r \in Reported :
  /\ r.steady => r.time = IF r.unit = 1 THEN r.passed ELSE r.passed \div Ratios[1]
  /\ IF "FixedTimeFormat" \in fl THEN r.shown = r.unit
     ELSE \A u \in r.unit + 1 .. Len(Ratios) : u <= r.shown <=> r.time > PT!Size(r.unit, u) }

ClockInv(n, e, s) == n \in Nat /\ e \in Nat /\ s \in Nat /\ n <= e /\ e <= MaxTime

TimeInv ==
  /\ ClockInv(now, elapsed, sets) /\ tracking \in BOOLEAN
  /\ tracker = PT!None \/ Tracks(tracker, now, elapsed, sets)
  /\ reports \in Seq(RightWith(flags))

LEMMA Divided ==
  ASSUME NEW d \in Nat, NEW r \in Nat \ {0}
  PROVE  d \div r \in Nat /\ d \div r <= d
OBVIOUS

LEMMA Wrapped ==
  ASSUME NEW d \in Int, NEW w \in Nat \ {0}
  PROVE  d % w \in Nat /\ (d \in Nat /\ d < w => d % w = d)
OBVIOUS

LEMMA Truncated ==
  ASSUME NEW d \in Int, NEW r \in Nat \ {0}
  PROVE  PT!Towards0(d, r) \in Int /\ (d \in Nat => PT!Towards0(d, r) = d \div r)
<1>1. CASE d < 0
  <2>1. -d \in Nat
    BY <1>1
  <2>2. (-d) \div r \in Nat
    BY <2>1, Divided
  <2>3. QED  BY <1>1, <2>2 DEF PT!Towards0
<1>2. CASE ~(d < 0)
  BY <1>2, Divided DEF PT!Towards0
<1>3. QED  BY <1>1, <1>2

LEMMA Ratioed ==
  ASSUME PT!PerformanceTrackerAssumption
  PROVE  Ratios[1] \in Nat \ {0} /\ Word \in Nat \ {0} /\ MaxTime < Word /\ MaxTime \in Nat
<1>1. Len(Ratios) \in Nat /\ Len(Ratios) >= 2 /\ \A i \in 1 .. Len(Ratios) : Ratios[i] \in Nat \ {0}
  BY DEF PT!PerformanceTrackerAssumption
<1>2. QED  BY <1>1 DEF PT!PerformanceTrackerAssumption

LEMMA Difference ==
  ASSUME PT!PerformanceTrackerAssumption, NEW a \in Nat, NEW b \in Nat, NEW u \in 1 .. 2
  PROVE  /\ PT!getTimeDifference(b, a, u) \in Nat
         /\ b - a \in 0 .. MaxTime =>
              PT!getTimeDifference(b, a, u) = IF u = 1 THEN b - a ELSE (b - a) \div Ratios[1]
<1> DEFINE d == b - a
           q == IF u = 1 THEN d ELSE PT!Towards0(d, Ratios[1])
<1>1. d \in Int /\ PT!getTimeDifference(b, a, u) = q % Word
  BY DEF PT!getTimeDifference
<1>2. q \in Int /\ (d \in Nat => q = IF u = 1 THEN d ELSE d \div Ratios[1])
  BY <1>1, Ratioed, Truncated
<1>3. q % Word \in Nat /\ (q \in Nat /\ q < Word => q % Word = q)
  <2> HIDE DEF q
  <2>1. QED  BY <1>2, Ratioed, Wrapped
<1> HIDE DEF q
<1>4. d \in 0 .. MaxTime => q \in Nat /\ q <= d
  <2> HIDE DEF d
  <2>1. QED  BY <1>1, <1>2, Ratioed, Divided
<1>5. d \in 0 .. MaxTime => q \in Nat /\ q < Word
  <2> HIDE DEF d
  <2>1. QED  BY <1>4, Ratioed
<1>6. QED  BY <1>1, <1>2, <1>3, <1>5

LEMMA TakenRight ==
  ASSUME PT!PerformanceTrackerAssumption, ClockInv(now, elapsed, sets),
         Tracks(tracker, now, elapsed, sets), tracker.m_enabled,
         NEW kind \in {"whole", "part", "end"}, NEW from, Past(from, now, elapsed, sets)
  PROVE  PT!Taken(kind, from) \in RightWith(flags)
<1> DEFINE u == tracker.unit
           t == PT!getTimeDifference(now, from.clock, u)
           shown == IF "FixedTimeFormat" \in flags THEN u ELSE PT!Shows(t, u)
           steady == (from.sets = sets)
           passed == elapsed - from.elapsed
           r == PT!Taken(kind, from)
<1>1. u \in 1 .. 2 /\ tracker.wanted = TRUE
  BY DEF Tracks
<1>2. /\ now \in Nat /\ elapsed \in Nat /\ sets \in Nat /\ elapsed <= MaxTime
      /\ from.clock \in Nat /\ from.elapsed \in Nat
      /\ steady => from.elapsed <= elapsed /\ now - from.clock = passed
  BY DEF ClockInv, Past, Readings
<1>3. t \in Nat /\ (now - from.clock \in 0 .. MaxTime =>
                      t = IF u = 1 THEN now - from.clock ELSE (now - from.clock) \div Ratios[1])
  BY <1>1, <1>2, Difference
<1>4. steady => passed \in 0 .. MaxTime /\ now - from.clock = passed
  BY <1>2, Ratioed
<1>5. steady => t = IF u = 1 THEN passed ELSE passed \div Ratios[1]
  <2> HIDE DEF steady, passed, t, u
  <2>1. QED  BY <1>3, <1>4
<1>6. /\ shown \in Nat
      /\ IF "FixedTimeFormat" \in flags THEN shown = u
         ELSE \A v \in u + 1 .. Len(Ratios) : v <= shown <=> t > PT!Size(u, v)
  <2> HIDE DEF t, u
  <2>1. /\ PT!Shows(t, u) \in Nat
        /\ \A v \in u + 1 .. Len(Ratios) : v <= PT!Shows(t, u) <=> t > PT!Size(u, v)
    BY <1>1, <1>3, ShowsUnit
  <2>2. CASE "FixedTimeFormat" \in flags
    BY <1>1, <2>2
  <2>3. CASE "FixedTimeFormat" \notin flags
    <3>1. shown = PT!Shows(t, u)
      BY <2>3
    <3> HIDE DEF shown
    <3>2. QED  BY <2>1, <2>3, <3>1
  <2>4. QED  BY <2>2, <2>3
<1>7. passed \in Int /\ steady \in BOOLEAN
  BY <1>2
<1>8. r = [kind |-> kind, time |-> t, unit |-> u, shown |-> shown, passed |-> passed, steady |-> steady,
           wanted |-> tracker.wanted]
  BY DEF PT!Taken
<1> HIDE DEF r, shown, t, u, passed, steady
<1>9. r \in Reported
  BY <1>1, <1>3, <1>6, <1>7, <1>8 DEF Reported
<1>10. r.time = t /\ r.unit = u /\ r.shown = shown /\ r.passed = passed /\ r.steady = steady
  BY <1>8
<1>11. QED  BY <1>5, <1>6, <1>9, <1>10 DEF RightWith, r

LEMMA TakenIn ==
  ASSUME PT!PerformanceTrackerAssumption, TimeInv, tracker.alive, tracker.m_enabled
  PROVE  /\ Tracks(tracker, now, elapsed, sets)
         /\ PT!Taken("whole", tracker.start) \in RightWith(flags)
         /\ PT!Taken("part", tracker.last) \in RightWith(flags)
         /\ PT!Taken("end", tracker.start) \in RightWith(flags)
<1>1. PT!None.alive = FALSE
  BY DEF PT!None
<1>2. Tracks(tracker, now, elapsed, sets)
  BY <1>1 DEF TimeInv
<1>3. Past(tracker.start, now, elapsed, sets) /\ Past(tracker.last, now, elapsed, sets)
  BY <1>2 DEF Tracks
<1>4. ClockInv(now, elapsed, sets)
  BY DEF TimeInv
<1>5. QED  BY <1>2, <1>3, <1>4, TakenRight

\* The clock goes on, or is set back.
LEMMA ClockGoes ==
  ASSUME NEW n, NEW e, NEW s, ClockInv(n, e, s), NEW n2, NEW e2, NEW s2, ClockInv(n2, e2, s2),
         \/ s2 = s /\ e2 >= e /\ n2 - n = e2 - e
         \/ s2 > s
  PROVE  /\ \A r : Past(r, n, e, s) => Past(r, n2, e2, s2)
         /\ \A tr : Tracks(tr, n, e, s) => Tracks(tr, n2, e2, s2)
<1>1. ASSUME NEW r, Past(r, n, e, s)
      PROVE  Past(r, n2, e2, s2)
  <2>1. r \in Readings /\ r.clock \in Nat /\ r.elapsed \in Nat /\ r.sets \in Nat
    BY <1>1 DEF Past, Readings
  <2>2. QED  BY <1>1, <2>1 DEF Past, ClockInv
<1>2. QED  BY <1>1 DEF Tracks

LEMMA ReadingNow ==
  ASSUME ClockInv(now, elapsed, sets)
  PROVE  Past(PT!Reading, now, elapsed, sets)
BY DEF ClockInv, Past, PT!Reading, Readings

\* What a tracker holds after a checkpoint, with the reading r.
Checked(tr, r) == [tr EXCEPT !.m_hasChecked = TRUE, !.last = r]

LEMMA StillTracks ==
  ASSUME NEW tr, NEW n, NEW e, NEW s, Tracks(tr, n, e, s), NEW r, Past(r, n, e, s)
  PROVE  Tracks(Checked(tr, r), n, e, s)
<1> DEFINE c == Checked(tr, r)
<1>1. DOMAIN c = TrackerFields /\ c = [i \in TrackerFields |-> c[i]]
  BY DEF Checked, Tracks
<1>2. /\ c.alive = tr.alive /\ c.m_enabled = tr.m_enabled /\ c.unit = tr.unit
      /\ c.start = tr.start /\ c.wanted = tr.wanted /\ c.last = r
  BY DEF Checked, Tracks, TrackerFields
<1> HIDE DEF c
<1>3. QED  BY <1>1, <1>2 DEF Tracks, c

LEMMA TimeAfter ==
  ASSUME TimeInv, ClockInv(now', elapsed', sets'), tracking' \in BOOLEAN, flags' = flags,
         tracker' = PT!None \/ Tracks(tracker', now', elapsed', sets'),
         reports' \in Seq(RightWith(flags))
  PROVE  TimeInv'
<1>1. PT!None' = PT!None
  BY DEF PT!None
<1>2. reports' \in Seq(RightWith(flags'))
  OBVIOUS
<1>3. QED  BY <1>2 DEF TimeInv, PT!None

LEMMA NextTime ==
  ASSUME PT!PerformanceTrackerAssumption, TimeInv, [PT!Next]_(PT!vars)
  PROVE  TimeInv'
<1>0. /\ ClockInv(now, elapsed, sets) /\ tracking \in BOOLEAN /\ reports \in Seq(RightWith(flags))
      /\ tracker = PT!None \/ Tracks(tracker, now, elapsed, sets)
      /\ now \in Nat /\ elapsed \in Nat /\ sets \in Nat /\ MaxTime \in Nat
  BY Ratioed DEF TimeInv, ClockInv
<1>1. ASSUME NEW d \in Steps, PT!Tick(d)
      PROVE  TimeInv'
  <2>1. d \in Int /\ tracking' = tracking /\ flags' = flags /\ tracker' = tracker /\ reports' = reports
    BY <1>1 DEF PT!Tick, PT!PerformanceTrackerAssumption
  <2>2. /\ ClockInv(now', elapsed', sets')
        /\ \/ sets' = sets /\ elapsed' >= elapsed /\ now' - now = elapsed' - elapsed
           \/ sets' > sets
    <3>1. CASE PT!Runs(d) /\ sets' = sets
      BY <1>0, <2>1, <3>1 DEF PT!Runs, ClockInv
    <3>2. CASE d < 0 /\ now + d >= 0 /\ now' = now + d /\ sets' = sets + 1 /\ elapsed' = elapsed
      BY <1>0, <2>1, <3>2 DEF ClockInv
    <3>3. QED  BY <1>1, <3>1, <3>2 DEF PT!Tick
  <2>3. tracker' = PT!None \/ Tracks(tracker', now', elapsed', sets')
    BY <1>0, <2>1, <2>2, ClockGoes
  <2>4. QED  BY <1>0, <2>1, <2>2, <2>3, TimeAfter
<1>2. ASSUME NEW d \in Steps, PT!Checkpoint(d)
      PROVE  TimeInv'
  <2>1. d \in Int /\ tracking' = tracking /\ flags' = flags /\ sets' = sets /\ tracker.alive /\ tracker.m_enabled
    BY <1>2 DEF PT!Checkpoint, PT!PerformanceTrackerAssumption
  <2>2. /\ ClockInv(now', elapsed', sets')
        /\ sets' = sets /\ elapsed' >= elapsed /\ now' - now = elapsed' - elapsed
    BY <1>0, <1>2, <2>1 DEF PT!Checkpoint, PT!Runs, ClockInv
  <2>3. Tracks(tracker, now, elapsed, sets)
    BY <2>1, TakenIn
  <2>4. Tracks(tracker', now', elapsed', sets')
    <3>1. Tracks(tracker, now', elapsed', sets')
      BY <1>0, <2>2, <2>3, ClockGoes
    <3>2. Past([clock |-> now', elapsed |-> elapsed', sets |-> sets'], now', elapsed', sets')
      BY <2>2 DEF ClockInv, Past, Readings
    <3>3. tracker' = Checked(tracker, [clock |-> now', elapsed |-> elapsed', sets |-> sets'])
      BY <1>2 DEF PT!Checkpoint, PT!Reading, Checked
    <3>4. QED  BY <3>1, <3>2, <3>3, StillTracks
  <2>5. reports' \in Seq(RightWith(flags))
    <3> DEFINE w == PT!Taken("whole", tracker.start)
               p == PT!Taken("part", tracker.last)
               G == RightWith(flags)
    <3>1. w \in G /\ p \in G /\ reports \in Seq(G)
      BY <1>0, <2>1, TakenIn
    <3>2. reports' = Append(reports, w) \o <<p>> \/ reports' = Append(reports, w) \o <<>>
      BY <1>2 DEF PT!Checkpoint
    <3> HIDE DEF w, p, G
    <3>3. Append(reports, w) \in Seq(G) /\ <<p>> \in Seq(G) /\ <<>> \in Seq(G)
      BY <3>1
    <3>4. Append(reports, w) \o <<p>> \in Seq(G) /\ Append(reports, w) \o <<>> \in Seq(G)
      BY <3>3, ConcatProperties
    <3>5. QED  BY <3>2, <3>4 DEF G
  <2>6. QED  BY <1>0, <2>1, <2>2, <2>4, <2>5, TimeAfter
<1>3. ASSUME NEW unit \in Units, PT!Construct(unit)
      PROVE  TimeInv'
  <2>1. /\ now' = now /\ elapsed' = elapsed /\ sets' = sets /\ tracking' = tracking
        /\ flags' = flags /\ reports' = reports /\ unit \in 1 .. 2
    BY <1>3 DEF PT!Construct, PT!PerformanceTrackerAssumption
  <2>2. Past(PT!Reading, now, elapsed, sets)
    BY <1>0, ReadingNow
  <2>3. tracker' = [alive |-> TRUE, m_enabled |-> tracking, unit |-> unit, start |-> PT!Reading,
                    last |-> PT!Reading, m_hasChecked |-> FALSE, wanted |-> tracking]
    BY <1>3 DEF PT!Construct
  <2>4. Tracks(tracker', now, elapsed, sets)
    BY <1>0, <2>1, <2>2, <2>3 DEF Tracks, TrackerFields
  <2>5. QED  BY <1>0, <2>1, <2>4, TimeAfter
<1>4. CASE PT!Reconfigure
  <2>1. /\ now' = now /\ elapsed' = elapsed /\ sets' = sets /\ tracking' \in BOOLEAN
        /\ flags' = flags /\ reports' = reports /\ tracker' = tracker
    BY <1>4 DEF PT!Reconfigure
  <2>2. QED  BY <1>0, <2>1, TimeAfter
<1>5. CASE PT!Destroy
  <2>1. /\ now' = now /\ elapsed' = elapsed /\ sets' = sets /\ tracking' = tracking
        /\ flags' = flags /\ tracker' = PT!None /\ tracker.alive
    BY <1>5 DEF PT!Destroy
  <2>2. reports' \in Seq(RightWith(flags))
    <3>1. CASE tracker.m_enabled
      <4>1. reports' = Append(reports, PT!Taken("end", tracker.start))
        BY <1>5, <3>1 DEF PT!Destroy
      <4>2. QED  BY <1>0, <2>1, <3>1, <4>1, TakenIn
    <3>2. CASE ~tracker.m_enabled
      BY <1>0, <1>5, <3>2 DEF PT!Destroy
    <3>3. QED  BY <3>1, <3>2
  <2>3. QED  BY <1>0, <2>1, <2>2, TimeAfter
<1>6. CASE UNCHANGED PT!vars
  <2>1. /\ now' = now /\ elapsed' = elapsed /\ sets' = sets /\ tracking' = tracking
        /\ flags' = flags /\ reports' = reports /\ tracker' = tracker
    BY <1>6 DEF PT!vars
  <2>2. QED  BY <1>0, <2>1, TimeAfter
<1>7. QED  BY <1>1, <1>2, <1>3, <1>4, <1>5, <1>6 DEF PT!Next

LEMMA InitTime ==
  ASSUME PT!PerformanceTrackerAssumption, PT!Init
  PROVE  TimeInv
<1>1. MaxTime \in Nat
  BY Ratioed
<1>2. QED  BY <1>1 DEF PT!Init, TimeInv, ClockInv

LEMMA TimeShows ==
  ASSUME PT!PerformanceTrackerAssumption, TimeInv
  PROVE  PT!AsConstructed /\ PT!UnitShown /\ PT!TimesExact
<1>1. \A k \in DOMAIN reports : reports[k] \in RightWith(flags)
  BY DEF TimeInv
<1>2. \A k \in DOMAIN reports : reports[k].wanted = TRUE
  BY <1>1 DEF RightWith, Reported
<1>3. PT!UnitShown
  BY <1>1 DEF RightWith, PT!UnitShown
<1>4. PT!TimesExact
  BY <1>1 DEF RightWith, PT!TimesExact
<1>5. QED  BY <1>2, <1>3, <1>4 DEF PT!AsConstructed

-----------------------------------------------------------------------------
(***************************************************************************)
(* The lines of a configuration.  On a line without backslashes the search *)
(* for the closing quote ends at the first quote it finds.                 *)
(***************************************************************************)
LineOf(s) == s \in Seq(CL!Chars) /\ Len(s) <= MaxLen

FoundFrom(s, c, from) == {i \in from .. (Len(s) - 1) : CL!At(s, i) = c}

LEMMA FindShows ==
  ASSUME CL!ConfLineAssumption, NEW s, LineOf(s), NEW c, NEW from \in Nat
  PROVE  /\ FoundFrom(s, c, from) = {} => CL!find(s, c, from) = CL!npos
         /\ FoundFrom(s, c, from) # {} =>
              /\ CL!find(s, c, from) = CL!Min(FoundFrom(s, c, from))
              /\ CL!find(s, c, from) \in FoundFrom(s, c, from)
              /\ \A i \in FoundFrom(s, c, from) : CL!find(s, c, from) <= i
<1> DEFINE F == FoundFrom(s, c, from)
<1>1. CL!find(s, c, from) = IF F = {} THEN CL!npos ELSE CL!Min(F)
  BY DEF CL!find, FoundFrom
<1>2. F \in SUBSET Nat
  <2>1. Len(s) \in Nat
    BY DEF LineOf
  <2>2. QED  BY <2>1 DEF FoundFrom
<1> HIDE DEF F
<1>3. F # {} => CL!Min(F) \in F /\ \A i \in F : CL!Min(F) <= i
  <2>1. ASSUME F # {}
        PROVE  \E n \in F : \A m \in F : n <= m
    BY <1>2, <2>1, LeastNatural
  <2>2. QED  BY <2>1 DEF CL!Min
<1>4. QED  BY <1>1, <1>3 DEF F

\* A position that was found is inside the line.
LEMMA FoundInside ==
  ASSUME CL!ConfLineAssumption, NEW s, LineOf(s), NEW c, NEW from \in Nat
  PROVE  /\ CL!npos \in Nat /\ CL!npos = MaxLen + 10 /\ Len(s) \in 0 .. MaxLen
         /\ CL!find(s, c, from) \in Nat /\ CL!find(s, c, from) <= CL!npos
         /\ CL!find(s, c, from) # CL!npos =>
              /\ CL!find(s, c, from) \in from .. (Len(s) - 1) /\ s[CL!find(s, c, from) + 1] = c
              /\ \A i \in from .. (Len(s) - 1) : s[i + 1] = c => CL!find(s, c, from) <= i
<1>1. CL!npos \in Nat /\ CL!npos = MaxLen + 10 /\ Len(s) \in 0 .. MaxLen /\ MaxLen \in Nat
  BY DEF CL!npos, CL!ConfLineAssumption, LineOf
<1>2. CASE FoundFrom(s, c, from) = {}
  BY <1>1, <1>2, FindShows
<1>3. CASE FoundFrom(s, c, from) # {}
  <2>1. /\ CL!find(s, c, from) \in FoundFrom(s, c, from)
        /\ \A i \in FoundFrom(s, c, from) : CL!find(s, c, from) <= i
    BY <1>3, FindShows
  <2>2. CL!find(s, c, from) \in from .. (Len(s) - 1) /\ s[CL!find(s, c, from) + 1] = c
    BY <2>1 DEF FoundFrom, CL!At
  <2>3. \A i \in from .. (Len(s) - 1) : s[i + 1] = c => CL!find(s, c, from) <= i
    BY <2>1 DEF FoundFrom, CL!At
  <2>4. QED  BY <1>1, <2>2, <2>3
<1>4. QED  BY <1>2, <1>3

LEMMA Beyond ==
  ASSUME CL!ConfLineAssumption, NEW s, LineOf(s)
  PROVE  CL!npos \in Nat /\ Len(s) \in Nat /\ CL!npos > Len(s)
<1>1. CL!npos = MaxLen + 10 /\ Len(s) <= MaxLen /\ MaxLen \in Nat /\ Len(s) \in Nat
  BY DEF CL!npos, CL!ConfLineAssumption, LineOf
<1>2. QED  BY <1>1

\* What is found is the first.
LEMMA FindIs ==
  ASSUME CL!ConfLineAssumption, NEW s, LineOf(s), NEW c, NEW from \in Nat, NEW k \in from .. (Len(s) - 1),
         s[k + 1] = c, \A j \in from .. (k - 1) : s[j + 1] # c
  PROVE  CL!find(s, c, from) = k
<1>1. k \in FoundFrom(s, c, from)
  BY DEF FoundFrom, CL!At
<1>2. /\ CL!find(s, c, from) \in FoundFrom(s, c, from)
      /\ \A i \in FoundFrom(s, c, from) : CL!find(s, c, from) <= i
  BY <1>1, FindShows
<1>3. CL!find(s, c, from) \in from .. (Len(s) - 1) /\ s[CL!find(s, c, from) + 1] = c
  BY <1>2 DEF FoundFrom, CL!At
<1>4. CL!find(s, c, from) <= k
  BY <1>1, <1>2
<1> HIDE DEF CL!find
<1>5. Len(s) \in Nat
  BY DEF LineOf
<1>6. QED  BY <1>3, <1>4, <1>5

\* Without backslashes the closing quote is the next quote.
LEMMA ClosesNext ==
  ASSUME CL!ConfLineAssumption, NEW s, LineOf(s), CL!Plain(s)
  PROVE  CL!ClosingQuote(s) = IF CL!find(s, CL!Quote, 0) = CL!npos THEN CL!npos
                              ELSE CL!find(s, CL!Quote, CL!find(s, CL!Quote, 0) + 1)
<1> DEFINE q(i) == CL!find(s, CL!Quote, i)
           Escaped(i) == q(i) # CL!npos /\ CL!At(s, q(i) - 1) = CL!Slash
           D(g) == [i \in 0 .. (CL!npos + 2) |-> IF Escaped(i) THEN g[q(i) + 2] ELSE q(i)]
           G == CHOOSE g : g = D(g)
           known == [i \in 0 .. (CL!npos + 2) |-> IF i = 0 /\ Escaped(0) THEN q(q(0) + 2) ELSE q(i)]
<1>1. CL!ClosingQuote(s) = IF q(0) = CL!npos THEN CL!npos ELSE G[q(0) + 1]
  BY DEF CL!ClosingQuote
<1>2. CL!npos \in Nat /\ \A i \in Nat : q(i) \in Nat /\ q(i) <= CL!npos
  BY FoundInside
<1>3. \A i \in Nat : i > 0 => ~Escaped(i)
  <2>1. ASSUME NEW i \in Nat, i > 0, q(i) # CL!npos
        PROVE  CL!At(s, q(i) - 1) # CL!Slash
    <3>1. q(i) \in i .. (Len(s) - 1) /\ Len(s) \in Nat
      BY <2>1, FoundInside
    <3> HIDE DEF q
    <3>2. q(i) - 1 + 1 = q(i) /\ q(i) \in 1 .. Len(s)
      BY <2>1, <3>1
    <3>3. DOMAIN s = 1 .. Len(s)
      BY DEF LineOf
    <3>4. QED  BY <3>2, <3>3 DEF CL!At, CL!Plain
  <2>2. QED  BY <2>1
<1> HIDE DEF q, Escaped
<1>4. known = D(known)
  <2>1. ASSUME NEW i \in 0 .. (CL!npos + 2)
        PROVE  known[i] = IF Escaped(i) THEN known[q(i) + 2] ELSE q(i)
    <3>1. CASE i = 0 /\ Escaped(0)
      <4>1. q(0) + 2 \in 0 .. (CL!npos + 2) /\ q(0) + 2 # 0
        BY <1>2
      <4>2. QED  BY <3>1, <4>1
    <3>2. CASE ~(i = 0 /\ Escaped(0))
      <4>1. ~Escaped(i)
        BY <1>2, <1>3, <3>2
      <4>2. QED  BY <3>2, <4>1
    <3>3. QED  BY <3>1, <3>2
  <2> HIDE DEF known
  <2>2. known = [i \in 0 .. (CL!npos + 2) |-> known[i]]
    BY DEF known
  <2>3. QED  BY <2>1, <2>2
<1>5. G = D(G)
  <2> HIDE DEF known
  <2>1. QED  BY <1>4
<1> HIDE DEF G
<1>6. \A i \in 1 .. (CL!npos + 2) : G[i] = q(i)
  BY <1>2, <1>3, <1>5
<1>7. q(0) + 1 \in 1 .. (CL!npos + 2)
  BY <1>2
<1>8. QED  BY <1>1, <1>6, <1>7 DEF q

LEMMA WholeLine ==
  ASSUME CL!ConfLineAssumption, NEW s, LineOf(s), NEW k \in Nat, k >= Len(s)
  PROVE  CL!substr(s, 0, k) = s
<1>1. s \in Seq(CL!Chars) /\ Len(s) \in Nat
  BY DEF LineOf
<1>2. CL!Min({0 + k, Len(s)}) = Len(s)
  BY <1>1 DEF CL!Min
<1>3. CL!substr(s, 0, k) = SubSeq(s, 1, Len(s))
  <2>1. 0 + 1 = 1
    OBVIOUS
  <2>2. CL!substr(s, 0, k) = SubSeq(s, 0 + 1, CL!Min({0 + k, Len(s)}))
    BY Zenon DEF CL!substr
  <2>3. QED  BY <1>2, <2>1, <2>2, Zenon
<1>4. SubSeq(s, 1, Len(s)) = s
  BY <1>1
<1>5. QED  BY <1>3, <1>4

\* The comment marks outside the quotes are those that a search finds.
Marks(s) == {i \in 0 .. (Len(s) - 1) : CL!At(s, i) = CL!Hash /\ ~CL!Quoted(s, i)}

LEMMA CutAtMark ==
  ASSUME CL!ConfLineAssumption, NEW s, LineOf(s), NEW p \in Nat, Marks(s) = FoundFrom(s, CL!Hash, p),
         CL!find(s, CL!Hash, 0) # CL!npos, CL!ignoreComments(s) = CL!substr(s, 0, CL!find(s, CL!Hash, p))
  PROVE  CL!ignoreComments(s) = IF Marks(s) = {} THEN s ELSE CL!substr(s, 0, CL!Min(Marks(s)))
<1>1. CASE Marks(s) = {}
  <2>1. CL!find(s, CL!Hash, p) = CL!npos
    BY <1>1, FindShows
  <2>2. CL!npos \in Nat /\ CL!npos >= Len(s)
    BY Beyond
  <2>3. QED  BY <1>1, <2>1, <2>2, WholeLine
<1>2. CASE Marks(s) # {}
  <2>1. CL!find(s, CL!Hash, p) = CL!Min(FoundFrom(s, CL!Hash, p))
    BY <1>2, FindShows
  <2>2. QED  BY <1>2, <2>1
<1>3. QED  BY <1>1, <1>2

LEMMA CommentsGo ==
  ASSUME CL!ConfLineAssumption, NEW s, LineOf(s), CL!Plain(s),
         ~(CL!find(s, CL!Hash, 0) < CL!find(s, CL!Quote, 0) /\ CL!ClosingQuote(s) # CL!npos)
  PROVE  CL!ignoreComments(s) = IF Marks(s) = {} THEN s ELSE CL!substr(s, 0, CL!Min(Marks(s)))
<1> DEFINE first == CL!find(s, CL!Hash, 0)
           a == CL!find(s, CL!Quote, 0)
           b == CL!find(s, CL!Quote, a + 1)
           close == CL!ClosingQuote(s)
           n == Len(s)
<1>0. /\ CL!npos \in Nat /\ n \in Nat /\ n <= CL!npos
      /\ first \in Nat /\ first <= CL!npos /\ a \in Nat /\ b \in Nat
  <2>1. CL!npos \in Nat /\ n \in Nat /\ n <= CL!npos /\ a \in Nat
    BY Beyond, FoundInside
  <2>2. first \in Nat /\ first <= CL!npos /\ b \in Nat
    BY <2>1, FoundInside
  <2>3. QED  BY <2>1, <2>2
<1>1. first # CL!npos => /\ first \in 0 .. (n - 1) /\ s[first + 1] = CL!Hash
                         /\ \A i \in 0 .. (n - 1) : s[i + 1] = CL!Hash => first <= i
  BY FoundInside
<1>2. a # CL!npos => a \in 0 .. (n - 1) /\ s[a + 1] = CL!Quote
  BY FoundInside
<1>3. b # CL!npos => b \in a + 1 .. (n - 1) /\ s[b + 1] = CL!Quote
  BY <1>0, FoundInside
<1>4. close = IF a = CL!npos THEN CL!npos ELSE b
  BY ClosesNext
<1>5. \A i : CL!Quoted(s, i) <=> a \in 0 .. (n - 1) /\ b \in 0 .. (n - 1) /\ a < i /\ i < b
  BY DEF CL!Quoted
<1>6. CL!ignoreComments(s) =
        IF first = CL!npos THEN s
        ELSE CL!substr(s, 0, IF first < close THEN CL!find(s, CL!Hash, CL!After(close)) ELSE first)
  BY DEF CL!ignoreComments
<1>7. CL!Hash # CL!Quote
  BY DEF CL!Hash, CL!Quote
<1>8. Marks(s) = { i \in 0 .. (n - 1) : s[i + 1] = CL!Hash /\ ~CL!Quoted(s, i) }
  BY DEF Marks, CL!At
<1>9. \A p : FoundFrom(s, CL!Hash, p) = { i \in p .. (n - 1) : s[i + 1] = CL!Hash }
  BY DEF FoundFrom, CL!At
<1>10. CASE first = CL!npos
  <2>1. FoundFrom(s, CL!Hash, 0) = {}
    <3>1. first \notin FoundFrom(s, CL!Hash, 0)
      BY <1>0, <1>9, <1>10
    <3>2. QED  BY <3>1, FindShows
  <2>2. Marks(s) = {}
    BY <1>8, <1>9, <2>1
  <2>3. QED  BY <1>6, <1>10, <2>2
<1>11. CASE first # CL!npos /\ close = CL!npos
  <2>1. CL!After(close) = 0 /\ first < close
    BY <1>0, <1>11 DEF CL!After
  <2>2. \A i : ~CL!Quoted(s, i)
    <3>1. a \notin 0 .. (n - 1) \/ b \notin 0 .. (n - 1)
      BY <1>0, <1>4, <1>11
    <3>2. QED  BY <1>5, <3>1
  <2>3. Marks(s) = FoundFrom(s, CL!Hash, 0)
    BY <1>8, <1>9, <2>2
  <2>4. CL!ignoreComments(s) = CL!substr(s, 0, CL!find(s, CL!Hash, 0))
    BY <1>6, <1>11, <2>1
  <2>5. QED  BY <1>11, <2>3, <2>4, CutAtMark
<1>12. CASE first # CL!npos /\ close # CL!npos /\ first < close
  <2>1. /\ a # CL!npos /\ b # CL!npos /\ close = b /\ CL!After(close) = b + 1 /\ ~(first < a)
    BY <1>4, <1>12 DEF CL!After
  <2>2. first > a /\ a \in 0 .. (n - 1) /\ b \in 0 .. (n - 1)
    <3>1. first # a
      BY <1>1, <1>2, <1>7, <1>12, <2>1
    <3>2. QED  BY <1>0, <1>2, <1>3, <2>1, <3>1
  <2>3. \A i \in 0 .. (n - 1) : s[i + 1] = CL!Hash => (~CL!Quoted(s, i) <=> i >= b + 1)
    <3>1. ASSUME NEW i \in 0 .. (n - 1), s[i + 1] = CL!Hash
          PROVE  ~CL!Quoted(s, i) <=> i >= b + 1
      <4>1. first <= i /\ i # b
        BY <1>1, <1>3, <1>7, <1>12, <2>1, <3>1
      <4>2. CL!Quoted(s, i) <=> a < i /\ i < b
        BY <1>5, <2>2
      <4> HIDE DEF first, a, b
      <4>3. QED  BY <1>0, <2>2, <4>1, <4>2
    <3>2. QED  BY <3>1
  <2>4. Marks(s) = FoundFrom(s, CL!Hash, b + 1)
    <3> HIDE DEF first, a, b, n
    <3>1. QED  BY <1>0, <1>8, <1>9, <2>2, <2>3
  <2>5. CL!ignoreComments(s) = CL!substr(s, 0, CL!find(s, CL!Hash, b + 1))
    BY <1>6, <1>12, <2>1
  <2>6. b + 1 \in Nat
    BY <1>0
  <2> HIDE DEF b
  <2>7. QED  BY <1>12, <2>4, <2>5, <2>6, CutAtMark
<1>13. CASE first # CL!npos /\ close # CL!npos /\ ~(first < close)
  <2>1. a # CL!npos /\ b # CL!npos /\ close = b
    BY <1>4, <1>13
  <2>2. \A i \in 0 .. (n - 1) : s[i + 1] = CL!Hash => ~CL!Quoted(s, i)
    <3>1. ASSUME NEW i \in 0 .. (n - 1), s[i + 1] = CL!Hash
          PROVE  ~(i < b)
      <4>1. first <= i /\ ~(first < b)
        BY <1>1, <1>13, <2>1, <3>1
      <4> HIDE DEF first, a, b
      <4>2. QED  BY <1>0, <4>1
    <3>2. QED  BY <1>5, <3>1
  <2>3. Marks(s) = FoundFrom(s, CL!Hash, 0)
    BY <1>8, <1>9, <2>2
  <2>4. CL!ignoreComments(s) = CL!substr(s, 0, CL!find(s, CL!Hash, 0))
    BY <1>6, <1>13
  <2>5. QED  BY <1>13, <2>3, <2>4, CutAtMark
<1>14. QED  BY <1>10, <1>11, <1>12, <1>13

\* A value in quotes that has no quote or backslash in it.
InQuotes(s, i) == /\ CL!Plain(s) /\ s[1] = CL!Quote /\ s[i] = CL!Quote
                  /\ \A j \in 2 .. (i - 1) : s[j] # CL!Quote

LEMMA NothingEscaped ==
  ASSUME CL!ConfLineAssumption, NEW s, LineOf(s), CL!Plain(s), NEW start \in Nat,
         CL!find(s, CL!Quote, start + 1) # CL!npos
  PROVE  CL!Unescape(s, start) = [value |-> s, e |-> CL!find(s, CL!Quote, start + 1)]
<1> DEFINE e0 == CL!find(s, CL!Quote, start + 1)
           r0 == [value |-> s, e |-> e0]
           Step(r) == IF r.e # CL!npos /\ CL!At(r.value, r.e - 1) = CL!Slash
                        THEN LET v == CL!erase(r.value, r.e - 1)
                             IN  [value |-> v, e |-> CL!find(v, CL!Quote, r.e + 2)]
                        ELSE r
           D(g) == [n \in 0 .. MaxLen |-> IF n = 0 THEN r0 ELSE Step(g[n - 1])]
           G == CHOOSE g : g = D(g)
           known == [n \in 0 .. MaxLen |-> r0]
<1>1. CL!Unescape(s, start) = G[MaxLen]
  BY DEF CL!Unescape
<1>2. MaxLen \in Nat
  BY DEF CL!ConfLineAssumption
<1>3. CL!At(s, e0 - 1) # CL!Slash
  <2>1. e0 \in start + 1 .. (Len(s) - 1) /\ Len(s) \in Nat
    BY FoundInside
  <2> HIDE DEF e0
  <2>2. e0 - 1 + 1 = e0 /\ e0 \in 1 .. Len(s)
    BY <2>1
  <2>3. DOMAIN s = 1 .. Len(s)
    BY DEF LineOf
  <2>4. QED  BY <2>2, <2>3 DEF CL!At, CL!Plain
<1>4. Step(r0) = r0
  BY <1>3
<1> HIDE DEF Step, r0
<1>5. known = D(known)
  <2>1. ASSUME NEW n \in 0 .. MaxLen
        PROVE  r0 = IF n = 0 THEN r0 ELSE Step(known[n - 1])
    <3>1. n # 0 => n - 1 \in 0 .. MaxLen
      BY <1>2
    <3>2. QED  BY <1>4, <3>1
  <2>2. QED  BY <2>1
<1>6. G = D(G)
  <2> HIDE DEF known
  <2>1. QED  BY <1>5
<1> HIDE DEF G
<1>7. G[0] = r0 /\ \A n \in 1 .. MaxLen : G[n] = Step(G[n - 1])
  BY <1>2, <1>6
<1> DEFINE Bad == { n \in 0 .. MaxLen : G[n] # r0 }
<1>8. Bad \in SUBSET (0 .. MaxLen) /\ 0 \notin Bad
  BY <1>7
<1>9. \A n \in 1 .. MaxLen : n \in Bad => n - 1 \in Bad
  <2>1. ASSUME NEW n \in 1 .. MaxLen, G[n - 1] = r0
        PROVE  G[n] = r0
    BY <1>4, <1>7, <2>1
  <2>2. \A n \in 1 .. MaxLen : n - 1 \in 0 .. MaxLen
    BY <1>2
  <2>3. QED  BY <2>1, <2>2
<1>10. Bad = {}
  <2> HIDE DEF Bad
  <2>1. QED  BY <1>2, <1>8, <1>9, UpTo
<1>11. G[MaxLen] = r0
  BY <1>2, <1>10
<1>12. QED  BY <1>1, <1>11 DEF r0

LEMMA QuotesGo ==
  ASSUME CL!ConfLineAssumption, NEW s, LineOf(s), NEW i \in 2 .. Len(s), InQuotes(s, i)
  PROVE  CL!stripQuotes(s) = IF i = 2 THEN s ELSE SubSeq(s, 2, i - 1)
<1>1. /\ Len(s) \in Nat /\ i \in Nat /\ i >= 2 /\ i <= Len(s)
      /\ CL!npos \in Nat /\ CL!npos > Len(s)
  BY Beyond
<1>2. CL!find(s, CL!Quote, 0) = 0
  <2>1. 0 \in 0 .. (Len(s) - 1) /\ s[0 + 1] = CL!Quote /\ \A j \in 0 .. (0 - 1) : s[j + 1] # CL!Quote
    BY <1>1 DEF InQuotes
  <2>2. QED  BY <2>1, FindIs
<1>3. CL!find(s, CL!Quote, 0 + 1) = i - 1
  <2>1. i - 1 \in 0 + 1 .. (Len(s) - 1) /\ s[(i - 1) + 1] = CL!Quote
    BY <1>1 DEF InQuotes
  <2>2. \A j \in 0 + 1 .. ((i - 1) - 1) : s[j + 1] # CL!Quote
    <3>1. \A j \in 0 + 1 .. ((i - 1) - 1) : j + 1 \in 2 .. (i - 1)
      BY <1>1
    <3>2. QED  BY <3>1 DEF InQuotes
  <2>3. 0 + 1 \in Nat
    OBVIOUS
  <2>4. QED  BY <2>1, <2>2, <2>3, FindIs
<1>4. CL!Unescape(s, 0) = [value |-> s, e |-> i - 1]
  <2>1. CL!Plain(s) /\ i - 1 # CL!npos
    BY <1>1 DEF InQuotes
  <2>2. QED  BY <1>3, <2>1, NothingEscaped
<1>5. CL!stripQuotes(s) = IF 0 + 1 = i - 1 THEN s ELSE CL!substr(s, 0 + 1, (i - 1) - 1)
  <2>1. i - 1 # CL!npos /\ 0 # CL!npos
    BY <1>1
  <2>2. QED  BY <1>2, <1>4, <2>1 DEF CL!stripQuotes
<1>6. CL!substr(s, 0 + 1, (i - 1) - 1) = SubSeq(s, 2, i - 1)
  <2>1. 0 + 1 + ((i - 1) - 1) = i - 1 /\ 0 + 1 + 1 = 2
    BY <1>1
  <2>2. CL!Min({i - 1, Len(s)}) = i - 1
    BY <1>1 DEF CL!Min
  <2>3. QED  BY <2>1, <2>2 DEF CL!substr
<1>7. 0 + 1 = i - 1 <=> i = 2
  BY <1>1
<1>8. QED  BY <1>5, <1>6, <1>7, Zenon

LineInv == LineOf(line)

LEMMA NextLine ==
  ASSUME CL!ConfLineAssumption, LineInv, [CL!Next]_line
  PROVE  LineInv'
BY DEF LineInv, LineOf, CL!Next, CL!Type, CL!ConfLineAssumption

LEMMA InitLine ==
  ASSUME CL!ConfLineAssumption, CL!Init
  PROVE  LineInv
BY DEF LineInv, LineOf, CL!Init, CL!ConfLineAssumption

LEMMA LineShows ==
  ASSUME CL!ConfLineAssumption, LineInv
  PROVE  CL!QuotesStripped /\ CL!CommentStripped
<1>1. CL!CommentStripped
  BY CommentsGo DEF LineInv, CL!CommentStripped, Marks
<1>2. CL!QuotesStripped
  BY QuotesGo DEF LineInv, CL!QuotesStripped, InQuotes
<1>3. QED  BY <1>1, <1>2

-----------------------------------------------------------------------------
(***************************************************************************)
(* Sequences made step by step.                                            *)
(***************************************************************************)
LEMMA GoesExists ==
  ASSUME NEW n \in Nat, NEW T, NEW base \in T, NEW F, StepsIn(F, T, n)
  PROVE  \E h : Goes(h, F, base, T, n)
<1>1. PICK g : Iterates(g, F, base, T, n)
  BY IterExists
<1>2. \A s \in SUBSET (1 .. n) : s # {} => s \ {Largest(s)} \in SUBSET (1 .. n)
  OBVIOUS
<1>3. Unrolls(g, F, base, T, n)
  BY <1>1, <1>2 DEF Iterates, Unrolls
<1>4. Reaches(F, base, T, n, g[1 .. n])
  BY <1>3, FoldUnrolls
<1>5. QED  BY <1>4 DEF Reaches

Appends(seqs, T, n) == [p \in Seq(T) \X (1 .. n) |-> p[1] \o seqs[p[2]]]

Flat(seqs) ==
  IF Len(seqs) = 0 THEN seqs
  ELSE LET flatten[i \in 1 .. Len(seqs)] == IF i = 1 THEN seqs[i] ELSE flatten[i - 1] \o seqs[i]
       IN  flatten[Len(seqs)]

LEMMA FlatSteps ==
  ASSUME NEW T, NEW n \in Nat, NEW seqs \in [1 .. n -> Seq(T)]
  PROVE  Reaches(Appends(seqs, T, n), <<>>, Seq(T), n, Flat(seqs))
<1> DEFINE F == Appends(seqs, T, n)
           D(g) == [i \in 1 .. n |-> IF i = 1 THEN seqs[i] ELSE g[i - 1] \o seqs[i]]
           G == CHOOSE g : g = D(g)
<1>1. /\ \A i \in 1 .. n : seqs[i] \in Seq(T)
      /\ \A r \in Seq(T), i \in 1 .. n : F[<<r, i>>] = r \o seqs[i] /\ r \o seqs[i] \in Seq(T)
  BY ConcatProperties DEF Appends
<1> HIDE DEF F
<1>2. StepsIn(F, Seq(T), n) /\ <<>> \in Seq(T)
  <2>1. <<>> \in Seq(T)
    OBVIOUS
  <2>2. \A r \in Seq(T), i \in 1 .. n : F[<<r, i>>] \in Seq(T)
    BY <1>1, Zenon
  <2>3. QED  BY <2>1, <2>2, Zenon DEF StepsIn
<1>3. PICK h : Goes(h, F, <<>>, Seq(T), n)
  BY <1>2, GoesExists
<1>4. h[0] = <<>> /\ \A i \in 1 .. n : i - 1 \in 0 .. n /\ h[i - 1] \in Seq(T) /\ h[i] = h[i - 1] \o seqs[i]
  <2>1. \A i \in 1 .. n : i - 1 \in 0 .. n
    OBVIOUS
  <2>2. QED  BY <1>1, <1>3, <2>1 DEF Goes, StepsOf
<1>5. Len(seqs) = n
  OBVIOUS
<1>6. CASE n = 0
  <2>1. Flat(seqs) = <<>>
    BY <1>5, <1>6 DEF Flat
  <2>2. n \in 0 .. n /\ h[n] = <<>>
    BY <1>4, <1>6
  <2>3. QED  BY <1>3, <2>1, <2>2 DEF Reaches, F
<1>7. CASE n # 0
  <2> DEFINE known == [i \in 1 .. n |-> h[i]]
  <2>1. known = D(known)
    <3>1. ASSUME NEW i \in 1 .. n
          PROVE  h[i] = IF i = 1 THEN seqs[i] ELSE known[i - 1] \o seqs[i]
      <4>1. CASE i = 1
        <5>1. h[1 - 1] = <<>> /\ h[i] = h[1 - 1] \o seqs[i] /\ seqs[i] \in Seq(T)
          BY <1>1, <1>4, <4>1
        <5>2. <<>> \o seqs[i] = seqs[i]
          BY <5>1
        <5>3. QED  BY <4>1, <5>1, <5>2
      <4>2. CASE i # 1
        <5>1. i - 1 \in 1 .. n
          BY <4>2
        <5>2. QED  BY <1>4, <4>2, <5>1
      <4>3. QED  BY <4>1, <4>2
    <3>2. QED  BY <3>1
  <2>2. G = D(G)
    <3> HIDE DEF known
    <3>1. QED  BY <2>1
  <2>3. Flat(seqs) = G[n]
    BY <1>5, <1>7 DEF Flat
  <2> HIDE DEF G
  <2>4. \A i \in 1 .. n : G[i] = IF i = 1 THEN seqs[i] ELSE G[i - 1] \o seqs[i]
    BY <2>2
  <2> DEFINE Bad == { i \in 0 .. n : i > 0 /\ G[i] # h[i] }
  <2>5. Bad \in SUBSET (0 .. n) /\ 0 \notin Bad
    OBVIOUS
  <2>6. ASSUME NEW i \in 1 .. n, i - 1 \notin Bad
        PROVE  i \notin Bad
    <3>1. CASE i = 1
      <4>1. h[i] = seqs[i]
        BY <1>7, <2>1, <3>1
      <4>2. QED  BY <2>4, <3>1, <4>1
    <3>2. CASE i # 1
      <4>1. i - 1 \in 0 .. n /\ i - 1 > 0
        BY <3>2
      <4>2. G[i - 1] = h[i - 1]
        BY <2>6, <4>1
      <4>3. QED  BY <1>4, <2>4, <3>2, <4>2
    <3>3. QED  BY <3>1, <3>2
  <2>7. Bad = {}
    <3> HIDE DEF Bad
    <3>1. QED  BY <2>5, <2>6, UpTo
  <2>8. G[n] = h[n]
    BY <1>7, <2>7
  <2>9. QED  BY <1>3, <2>3, <2>8 DEF Reaches, F
<1>8. QED  BY <1>6, <1>7

-----------------------------------------------------------------------------
(***************************************************************************)
(* Dates.  A number is converted from its last digit on; the buffer holds  *)
(* the beginning of the text.                                              *)
(***************************************************************************)
LEMMA Tens ==
  /\ \A k \in 0 .. 8 : 10 ^ k \in Nat \ {0}
  /\ 10 ^ 0 = 1
  /\ \A n \in Nat, k \in 1 .. 8 : (n \div (10 ^ (k - 1))) \div 10 = n \div (10 ^ k)
<1>1. /\ 10 ^ 0 = 1 /\ 10 ^ 1 = 10 /\ 10 ^ 2 = 100 /\ 10 ^ 3 = 1000 /\ 10 ^ 4 = 10000 /\ 10 ^ 5 = 100000
      /\ 10 ^ 6 = 1000000 /\ 10 ^ 7 = 10000000 /\ 10 ^ 8 = 100000000
  OBVIOUS
<1>2. ASSUME NEW k \in 0 .. 8
      PROVE  10 ^ k \in Nat \ {0}
  <2>1. k = 0 \/ k = 1 \/ k = 2 \/ k = 3 \/ k = 4 \/ k = 5 \/ k = 6 \/ k = 7 \/ k = 8
    OBVIOUS
  <2>2. CASE k = 0
    BY <1>1, <2>2
  <2>3. CASE k = 1
    BY <1>1, <2>3
  <2>4. CASE k = 2
    BY <1>1, <2>4
  <2>5. CASE k = 3
    BY <1>1, <2>5
  <2>6. CASE k = 4
    BY <1>1, <2>6
  <2>7. CASE k = 5
    BY <1>1, <2>7
  <2>8. CASE k = 6
    BY <1>1, <2>8
  <2>9. CASE k = 7
    BY <1>1, <2>9
  <2>10. CASE k = 8
    BY <1>1, <2>10
  <2>11. QED  BY <2>1, <2>2, <2>3, <2>4, <2>5, <2>6, <2>7, <2>8, <2>9, <2>10
<1>3. ASSUME NEW n \in Nat, NEW k \in 1 .. 8
      PROVE  (n \div (10 ^ (k - 1))) \div 10 = n \div (10 ^ k)
  <2>1. CASE k = 1
    <3>1. 10 ^ (k - 1) = 1 /\ 10 ^ k = 10
      BY <1>1, <2>1
    <3>2. QED  BY <3>1
  <2>2. CASE k = 2
    <3>1. 10 ^ (k - 1) = 10 /\ 10 ^ k = 100
      BY <1>1, <2>2
    <3>2. QED  BY <3>1
  <2>3. CASE k = 3
    <3>1. 10 ^ (k - 1) = 100 /\ 10 ^ k = 1000
      BY <1>1, <2>3
    <3>2. QED  BY <3>1
  <2>4. CASE k = 4
    <3>1. 10 ^ (k - 1) = 1000 /\ 10 ^ k = 10000
      BY <1>1, <2>4
    <3>2. QED  BY <3>1
  <2>5. CASE k = 5
    <3>1. 10 ^ (k - 1) = 10000 /\ 10 ^ k = 100000
      BY <1>1, <2>5
    <3>2. QED  BY <3>1
  <2>6. CASE k = 6
    <3>1. 10 ^ (k - 1) = 100000 /\ 10 ^ k = 1000000
      BY <1>1, <2>6
    <3>2. QED  BY <3>1
  <2>7. CASE k = 7
    <3>1. 10 ^ (k - 1) = 1000000 /\ 10 ^ k = 10000000
      BY <1>1, <2>7
    <3>2. QED  BY <3>1
  <2>8. CASE k = 8
    <3>1. 10 ^ (k - 1) = 10000000 /\ 10 ^ k = 100000000
      BY <1>1, <2>8
    <3>2. QED  BY <3>1
  <2>9. QED  BY <2>1, <2>2, <2>3, <2>4, <2>5, <2>6, <2>7, <2>8
<1>4. QED  BY <1>1, <1>2, <1>3

LEMMA OneDigitMore ==
  ASSUME NEW n \in Nat, NEW k \in 1 .. 8
  PROVE  /\ <<(n \div (10 ^ (k - 1))) % 10>> \o DT!Decimal(n, k - 1) = DT!Decimal(n, k)
         /\ DT!Decimal(n, k) \in Seq(Nat)
<1> DEFINE d == (n \div (10 ^ (k - 1))) % 10
           s == DT!Decimal(n, k - 1)
           t == DT!Decimal(n, k)
<1>1. \A m \in 0 .. 8 : n \div (10 ^ m) \in Nat /\ (n \div (10 ^ m)) % 10 \in Nat
  <2>1. ASSUME NEW m \in 0 .. 8
        PROVE  n \div (10 ^ m) \in Nat /\ (n \div (10 ^ m)) % 10 \in Nat
    <3>1. n \div (10 ^ m) \in Nat
      BY Tens, Divided
    <3>2. QED  BY <3>1, Wrapped
  <2>2. QED  BY <2>1
<1>2. /\ s = [j \in 1 .. k - 1 |-> (n \div 10 ^ ((k - 1) - j)) % 10]
      /\ t = [j \in 1 .. k |-> (n \div 10 ^ (k - j)) % 10]
  BY DEF DT!Decimal
<1>3. d \in Nat
  <2>1. k - 1 \in 0 .. 8
    OBVIOUS
  <2>2. QED  BY <1>1, <2>1
<1>4. s \in Seq(Nat) /\ t \in Seq(Nat) /\ Len(s) = k - 1 /\ Len(t) = k
  <2>1. \A j \in 1 .. k - 1 : (k - 1) - j \in 0 .. 8
    OBVIOUS
  <2>2. \A j \in 1 .. k : k - j \in 0 .. 8
    OBVIOUS
  <2>3. s \in [1 .. k - 1 -> Nat] /\ t \in [1 .. k -> Nat]
    BY <1>1, <1>2, <2>1, <2>2
  <2>4. k \in Nat /\ k - 1 \in Nat
    OBVIOUS
  <2> HIDE DEF s, t
  <2>5. QED  BY <2>3, <2>4
<1>5. \A j \in 1 .. k : t[j] = IF j = 1 THEN d ELSE s[j - 1]
  <2>1. t[1] = d
    BY <1>2
  <2>2. ASSUME NEW j \in 1 .. k, j # 1
        PROVE  t[j] = s[j - 1]
    <3>1. j - 1 \in 1 .. k - 1 /\ (k - 1) - (j - 1) = k - j
      BY <2>2
    <3>2. s[j - 1] = (n \div 10 ^ ((k - 1) - (j - 1))) % 10 /\ t[j] = (n \div 10 ^ (k - j)) % 10
      BY <1>2, <3>1
    <3>3. QED  BY <3>1, <3>2
  <2>3. QED  BY <2>1, <2>2
<1> HIDE DEF d, s, t
<1>6. <<d>> \in Seq(Nat) /\ Len(<<d>>) = 1 /\ <<d>>[1] = d
  BY <1>3
<1>7. <<d>> \o s = t
  <2>1. /\ <<d>> \o s \in Seq(Nat) /\ Len(<<d>> \o s) = Len(t)
        /\ \A j \in 1 .. Len(t) : (<<d>> \o s)[j] = t[j]
    BY <1>4, <1>5, <1>6, ConcatProperties
  <2>2. QED  BY <1>4, <2>1, SeqEqual
<1>8. QED  BY <1>4, <1>7 DEF d, s, t

LEMMA Converted ==
  ASSUME NEW n \in Nat, NEW len \in 0 .. 8
  PROVE  DT!convert(n, len) = DT!Decimal(n, len) /\ DT!Decimal(n, len) \in Seq(Nat)
<1> DEFINE upto(k) == IF k <= len THEN k ELSE len
           D(g) == [k \in 0 .. 8 |->
                      IF k = 0 THEN [text |-> <<>>, rest |-> n]
                      ELSE LET d == g[k - 1]
                           IN  IF k > len THEN d ELSE [text |-> <<d.rest % 10>> \o d.text, rest |-> d.rest \div 10]]
           G == CHOOSE g : g = D(g)
           known == [k \in 0 .. 8 |-> [text |-> DT!Decimal(n, upto(k)), rest |-> n \div (10 ^ upto(k))]]
<1>1. DT!convert(n, len) = G[8].text
  BY DEF DT!convert, DT!LocalDigits
<1>2. DT!Decimal(n, 0) = <<>> /\ n \div (10 ^ 0) = n
  <2>1. n \div 1 = n
    OBVIOUS
  <2>2. QED  BY <2>1, Tens DEF DT!Decimal
<1>3. ASSUME NEW k \in 1 .. 8
      PROVE  LET d == [text |-> DT!Decimal(n, upto(k - 1)), rest |-> n \div (10 ^ upto(k - 1))]
             IN  [text |-> DT!Decimal(n, upto(k)), rest |-> n \div (10 ^ upto(k))]
                   = IF k > len THEN d ELSE [text |-> <<d.rest % 10>> \o d.text, rest |-> d.rest \div 10]
  <2>1. CASE k > len
    <3>1. upto(k - 1) = len /\ upto(k) = len
      BY <2>1
    <3>2. QED  BY <2>1, <3>1
  <2>2. CASE ~(k > len)
    <3>1. upto(k - 1) = k - 1 /\ upto(k) = k
      BY <2>2
    <3> HIDE DEF upto
    <3>2. QED  BY <2>2, <3>1, OneDigitMore, Tens
  <2>3. QED  BY <2>1, <2>2
<1> HIDE DEF upto
<1>4. known = D(known)
  <2>1. ASSUME NEW k \in 0 .. 8
        PROVE  known[k] = IF k = 0 THEN [text |-> <<>>, rest |-> n]
                          ELSE LET d == known[k - 1]
                               IN  IF k > len THEN d ELSE [text |-> <<d.rest % 10>> \o d.text, rest |-> d.rest \div 10]
    <3>1. CASE k = 0
      <4>1. upto(0) = 0
        BY DEF upto
      <4>2. QED  BY <1>2, <3>1, <4>1
    <3>2. CASE k # 0
      <4>1. k \in 1 .. 8 /\ k - 1 \in 0 .. 8
        BY <3>2
      <4>2. QED  BY <1>3, <3>2, <4>1
    <3>3. QED  BY <3>1, <3>2
  <2> HIDE DEF known
  <2>2. known = [k \in 0 .. 8 |-> known[k]]
    BY DEF known
  <2>3. QED  BY <2>1, <2>2
<1>5. G = D(G)
  <2> HIDE DEF known
  <2>1. QED  BY <1>4
<1> HIDE DEF G
<1> DEFINE Bad == { k \in 0 .. 8 : G[k] # known[k] }
<1>6. Bad \in SUBSET (0 .. 8) /\ 0 \notin Bad
  <2>1. G[0] = [text |-> <<>>, rest |-> n]
    BY <1>5
  <2>2. known[0] = [text |-> <<>>, rest |-> n]
    <3> HIDE DEF known
    <3>1. QED  BY <1>4
  <2> HIDE DEF known
  <2>3. QED  BY <2>1, <2>2
<1>7. ASSUME NEW k \in 1 .. 8, k - 1 \notin Bad
      PROVE  k \notin Bad
  <2> HIDE DEF known
  <2>1. k - 1 \in 0 .. 8 /\ k \in 0 .. 8 /\ k # 0
    OBVIOUS
  <2>2. G[k - 1] = known[k - 1]
    BY <1>7, <2>1
  <2>3. G[k] = LET d == G[k - 1]
               IN  IF k > len THEN d ELSE [text |-> <<d.rest % 10>> \o d.text, rest |-> d.rest \div 10]
    BY <1>5, <2>1
  <2>4. known[k] = LET d == known[k - 1]
                   IN  IF k > len THEN d ELSE [text |-> <<d.rest % 10>> \o d.text, rest |-> d.rest \div 10]
    BY <1>4, <2>1
  <2>5. QED  BY <2>2, <2>3, <2>4
<1>8. Bad = {}
  <2> HIDE DEF Bad
  <2>1. QED  BY <1>6, <1>7, UpTo
<1>9. G[8].text = DT!Decimal(n, len)
  <2>1. upto(8) = len
    BY DEF upto
  <2>2. G[8] = known[8]
    <3> HIDE DEF known
    <3>1. 8 \in 0 .. 8 /\ 8 \notin Bad
      BY <1>8
    <3>2. QED  BY <3>1
  <2>3. known[8] = [text |-> DT!Decimal(n, len), rest |-> n \div (10 ^ len)]
    BY <2>1
  <2> HIDE DEF known
  <2>4. QED  BY <2>2, <2>3
<1>10. DT!Decimal(n, len) \in Seq(Nat)
  <2>1. CASE len = 0
    <3>1. <<>> \in Seq(Nat)
      OBVIOUS
    <3>2. QED  BY <1>2, <2>1, <3>1, Zenon
  <2>2. CASE len # 0
    <3>1. len \in 1 .. 8
      BY <2>2
    <3>2. QED  BY <3>1, OneDigitMore
  <2>3. QED  BY <2>1, <2>2
<1>11. QED  BY <1>1, <1>9, <1>10

\* What can stand in a date.
Typed == Nat \cup {"A", "P", "M", "%"} \cup DT!Specifiers \cup Literals

DateInv ==
  /\ format \in Seq(DT!Specifiers \cup Literals)
  /\ time \in [year : Years, hour : Hours, usec : Microseconds]
  /\ width \in Widths

LEMMA WidthOk ==
  ASSUME DT!DateTimeAssumption, DateInv
  PROVE  DT!m_width \in 0 .. 8 /\ DT!m_offset \in Nat \ {0}
<1>1. DT!m_width \in 0 .. 8
  BY DEF DT!DateTimeAssumption, DateInv, DT!m_width
<1>2. DT!m_offset \in {100, 10, 1, 1000}
  <2>1. CASE DT!m_width = 4
    BY <2>1 DEF DT!m_offset
  <2>2. CASE DT!m_width = 5
    BY <2>2 DEF DT!m_offset
  <2>3. CASE DT!m_width = 6
    BY <2>3 DEF DT!m_offset
  <2>4. CASE DT!m_width # 4 /\ DT!m_width # 5 /\ DT!m_width # 6
    BY <2>4 DEF DT!m_offset
  <2>5. QED  BY <2>1, <2>2, <2>3, <2>4
<1>3. QED  BY <1>1, <1>2

\* An item comes out as what it stands for.
LEMMA ItemMeant ==
  ASSUME DT!DateTimeAssumption, DateInv, NEW c \in DT!Specifiers \cup Literals
  PROVE  DT!Item(c) = DT!Meant(c) /\ DT!Meant(c) \in Seq(Typed)
<1>1. /\ time.year \in Nat /\ time.hour \in 0 .. 23 /\ time.usec \in Nat
      /\ 2 \in 0 .. 8 /\ 4 \in 0 .. 8 /\ time.hour \in Nat /\ time.hour % 12 \in Nat /\ time.usec \div DT!m_offset \in Nat
  <2>1. time.year \in Nat /\ time.hour \in 0 .. 23 /\ time.usec \in Nat
    <3>1. time.year \in Years /\ time.hour \in Hours /\ time.usec \in Microseconds
      BY DEF DateInv
    <3>2. Years \subseteq Nat /\ Hours \subseteq 0 .. 23 /\ Microseconds \subseteq Nat
      BY DEF DT!DateTimeAssumption
    <3>3. QED  BY <3>1, <3>2
  <2>2. time.usec \div DT!m_offset \in Nat
    BY <2>1, WidthOk, Divided
  <2>3. QED  BY <2>1, <2>2
<1>2. \A n \in Nat, len \in 0 .. 8 : /\ DT!convert(n, len) = DT!Decimal(n, len)
                                     /\ DT!Decimal(n, len) \in Seq(Typed)
  <2>1. \A s \in Seq(Nat) : s \in Seq(Typed)
    BY DEF Typed
  <2>2. QED  BY <2>1, Converted
<1>3. CASE c = "%y"
  <2>1. DT!Item(c) = DT!convert(time.year, 2) /\ DT!Meant(c) = DT!Decimal(time.year, 2)
    BY <1>3 DEF DT!Item, DT!Meant
  <2>2. QED  BY <1>1, <1>2, <2>1
<1>4. CASE c = "%Y"
  <2>1. DT!Item(c) = DT!convert(time.year, 4) /\ DT!Meant(c) = DT!Decimal(time.year, 4)
    BY <1>4 DEF DT!Item, DT!Meant
  <2>2. QED  BY <1>1, <1>2, <2>1
<1>5. CASE c = "%h"
  <2>1. DT!Item(c) = DT!convert(time.hour % 12, 2) /\ DT!Meant(c) = DT!Decimal(time.hour % 12, 2)
    BY <1>5 DEF DT!Item, DT!Meant
  <2>2. QED  BY <1>1, <1>2, <2>1
<1>11. CASE c = "%H"
  <2>1. DT!Item(c) = DT!convert(time.hour, 2) /\ DT!Meant(c) = DT!Decimal(time.hour, 2)
    BY <1>11 DEF DT!Item, DT!Meant
  <2>2. QED  BY <1>1, <1>2, <2>1
<1>12. CASE c = "%g"
  <2>1. DT!Item(c) = DT!convert(time.usec \div DT!m_offset, DT!m_width) /\ DT!Meant(c) = DT!Decimal(time.usec \div DT!m_offset, DT!m_width)
    BY <1>12 DEF DT!Item, DT!Meant
  <2>2. QED  BY <1>1, <1>2, <2>1, WidthOk
<1>6. CASE c = "%F"
  <2>1. DT!Item(c) = IF time.hour >= 12 THEN <<"P", "M">> ELSE <<"A", "M">>
    BY <1>6 DEF DT!Item
  <2>2. DT!Meant(c) = IF time.hour < 12 THEN <<"A", "M">> ELSE <<"P", "M">>
    BY <1>6 DEF DT!Meant
  <2>3. <<"P", "M">> \in Seq(Typed) /\ <<"A", "M">> \in Seq(Typed)
    BY DEF Typed
  <2>4. QED  BY <1>1, <2>1, <2>2, <2>3
<1>7. CASE c = "%%"
  <2>1. DT!Item(c) = <<"%">> /\ DT!Meant(c) = <<"%">>
    BY <1>7 DEF DT!Item, DT!Meant
  <2>2. QED  BY <2>1 DEF Typed
<1>8. CASE c = "%?"
  <2>1. DT!Item(c) = <<>> /\ DT!Meant(c) = <<>>
    BY <1>8 DEF DT!Item, DT!Meant
  <2>2. QED  BY <2>1
<1>9. CASE /\ c # "%y" /\ c # "%Y" /\ c # "%h" /\ c # "%H" /\ c # "%g" /\ c # "%F"
           /\ c # "%%" /\ c # "%?"
  <2>1. DT!Item(c) = <<c>> /\ DT!Meant(c) = <<c>>
    BY <1>9 DEF DT!Item, DT!Meant
  <2>2. c \in Typed
    BY DEF Typed
  <2>3. QED  BY <2>1, <2>2
<1>10. QED  BY <1>3, <1>4, <1>5, <1>6, <1>7, <1>8, <1>9, <1>11, <1>12

\* The beginning of a text that fits.
Fitting(t) == SubSeq(t, 1, IF Len(t) < BuffSize THEN Len(t) ELSE BuffSize)

LEMMA FittingIs ==
  ASSUME DT!DateTimeAssumption, NEW t \in Seq(Typed)
  PROVE  /\ Fitting(t) \in Seq(Typed)
         /\ Len(Fitting(t)) = IF Len(t) < BuffSize THEN Len(t) ELSE BuffSize
         /\ \A i \in 1 .. Len(Fitting(t)) : Fitting(t)[i] = t[i]
<1>1. BuffSize \in Nat
  BY DEF DT!DateTimeAssumption
<1>2. QED  BY <1>1 DEF Fitting

LEMMA AddsFitting ==
  ASSUME DT!DateTimeAssumption, NEW t \in Seq(Typed), NEW x \in Seq(Typed)
  PROVE  DT!addToBuff(x, Fitting(t)) = Fitting(t \o x)
<1> DEFINE b == Fitting(t)
           room == BuffSize - Len(b)
           m == IF Len(x) < room THEN Len(x) ELSE room
           y == SubSeq(x, 1, m)
           u == t \o x
           f == Fitting(u)
           r == b \o y
<1>1. BuffSize \in Nat /\ Len(t) \in Nat /\ Len(x) \in Nat
  BY DEF DT!DateTimeAssumption
<1>2. /\ b \in Seq(Typed) /\ Len(b) = (IF Len(t) < BuffSize THEN Len(t) ELSE BuffSize)
      /\ \A i \in 1 .. Len(b) : b[i] = t[i]
  BY FittingIs
<1>3. /\ u \in Seq(Typed) /\ Len(u) = Len(t) + Len(x)
      /\ \A i \in 1 .. Len(t) + Len(x) : u[i] = IF i <= Len(t) THEN t[i] ELSE x[i - Len(t)]
  BY ConcatProperties
<1> HIDE DEF u, b
<1>4. /\ f \in Seq(Typed) /\ Len(f) = (IF Len(u) < BuffSize THEN Len(u) ELSE BuffSize)
      /\ \A i \in 1 .. Len(f) : f[i] = u[i]
  BY <1>3, FittingIs
<1>5. /\ Len(b) \in Nat /\ m \in Nat /\ m <= Len(x) /\ (m > 0 => Len(b) = Len(t))
      /\ Len(b) + m = IF Len(t) + Len(x) < BuffSize THEN Len(t) + Len(x) ELSE BuffSize
  <2>1. m = IF Len(x) < BuffSize - Len(b) THEN Len(x) ELSE BuffSize - Len(b)
    OBVIOUS
  <2>2. Len(b) = IF Len(t) < BuffSize THEN Len(t) ELSE BuffSize
    BY <1>2
  <2> HIDE DEF m, room
  <2>3. Len(b) \in Int
    BY <1>1, <2>2
  <2> DEFINE k == Len(b)
             tt == Len(t)
             xx == Len(x)
  <2> HIDE DEF k, tt, xx
  <2>4. /\ BuffSize \in Nat /\ tt \in Nat /\ xx \in Nat
        /\ k = (IF tt < BuffSize THEN tt ELSE BuffSize)
        /\ m = (IF xx < BuffSize - k THEN xx ELSE BuffSize - k)
    BY <1>1, <2>1, <2>2 DEF k, tt, xx
  <2>5. /\ k \in Nat /\ m \in Nat /\ m <= xx /\ (m > 0 => k = tt)
        /\ k + m = IF tt + xx < BuffSize THEN tt + xx ELSE BuffSize
    BY <2>4
  <2>6. QED  BY <2>5 DEF k, tt, xx
<1> HIDE DEF m, room
<1>6. y \in Seq(Typed) /\ Len(y) = m /\ \A i \in 1 .. m : y[i] = x[i]
  BY <1>5
<1> HIDE DEF y, f
<1>7. /\ r \in Seq(Typed) /\ Len(r) = Len(b) + Len(y)
      /\ \A i \in 1 .. Len(b) + Len(y) : r[i] = IF i <= Len(b) THEN b[i] ELSE y[i - Len(b)]
  BY <1>2, <1>6, ConcatProperties
<1> HIDE DEF r
<1>8. Len(r) = Len(f)
  BY <1>3, <1>4, <1>5, <1>6, <1>7
<1>9. ASSUME NEW i \in 1 .. Len(r)
      PROVE  r[i] = f[i]
  <2>1. i \in Nat /\ i >= 1 /\ i <= Len(b) + m /\ f[i] = u[i]
    BY <1>4, <1>5, <1>6, <1>7, <1>8
  <2>2. CASE i <= Len(b)
    <3>1. i <= Len(t)
      BY <1>1, <1>2, <2>1, <2>2
    <3>2. i \in 1 .. Len(b) /\ i \in 1 .. Len(t) + Len(x) /\ i \in 1 .. Len(b) + Len(y)
      BY <1>1, <1>5, <1>6, <2>1, <2>2, <3>1
    <3>3. QED  BY <1>2, <1>3, <1>7, <2>1, <2>2, <3>1, <3>2
  <2>3. CASE ~(i <= Len(b))
    <3>1. Len(b) = Len(t)
      BY <1>5, <2>1, <2>3
    <3>2. /\ i - Len(b) \in 1 .. m /\ i \in 1 .. Len(t) + Len(x) /\ i \in 1 .. Len(b) + Len(y)
          /\ ~(i <= Len(t)) /\ i - Len(t) = i - Len(b)
      BY <1>1, <1>5, <1>6, <2>1, <2>3, <3>1
    <3>3. r[i] = y[i - Len(b)] /\ u[i] = x[i - Len(b)] /\ y[i - Len(b)] = x[i - Len(b)]
      BY <1>3, <1>6, <1>7, <2>3, <3>1, <3>2
    <3>4. QED  BY <2>1, <3>3
  <2>4. QED  BY <2>2, <2>3
<1>10. r = f
  BY <1>4, <1>7, <1>8, <1>9, SeqEqual
<1>11. DT!addToBuff(x, Fitting(t)) = r
  BY DEF DT!addToBuff, r, b, y, m, room
<1>12. QED  BY <1>10, <1>11 DEF f, u

Added == [p \in Seq(Typed) \X (1 .. Len(format)) |-> DT!addToBuff(DT!Item(format[p[2]]), p[1])]

LEMMA DateSteps ==
  ASSUME DT!DateTimeAssumption, DateInv
  PROVE  Reaches(Added, <<>>, Seq(Typed), Len(format), DT!parseFormat)
<1> DEFINE n == Len(format)
           F == Added
           Op(b, c) == DT!addToBuff(DT!Item(c), b)
           D(g) == [s \in SUBSET (DOMAIN format) |->
                      IF s = {} THEN <<>> ELSE Op(g[s \ {Largest(s)}], format[Largest(s)])]
           G == CHOOSE g : g = D(g)
<1>1. /\ n \in Nat /\ <<>> \in Seq(Typed) /\ DOMAIN format = 1 .. n
      /\ \A i \in 1 .. n : format[i] \in DT!Specifiers \cup Literals
  BY DEF DateInv
<1>2. DT!parseFormat = G[DOMAIN format]
  BY DEF DT!parseFormat, DT!FoldLeft, DT!MapThenFoldSet, DT!Max, Largest
<1>3. \A a \in Seq(Typed), i \in 1 .. n : F[<<a, i>>] = Op(a, format[i])
  BY <1>1 DEF Added
<1>4. \A a \in Seq(Typed), i \in 1 .. n : Op(a, format[i]) \in Seq(Typed)
  <2>1. ASSUME NEW a \in Seq(Typed), NEW i \in 1 .. n
        PROVE  Op(a, format[i]) \in Seq(Typed)
    <3> DEFINE x == DT!Item(format[i])
               room == BuffSize - Len(a)
               m == IF Len(x) < room THEN Len(x) ELSE room
    <3>1. x \in Seq(Typed)
      BY <1>1, ItemMeant
    <3>2. m \in Int /\ m <= Len(x)
      BY <3>1 DEF DT!DateTimeAssumption
    <3>3. Op(a, format[i]) = a \o SubSeq(x, 1, m)
      BY DEF DT!addToBuff
    <3> HIDE DEF x, m
    <3>4. SubSeq(x, 1, m) \in Seq(Typed)
      BY <3>1, <3>2
    <3> HIDE DEF Op
    <3>5. QED  BY <3>3, <3>4, ConcatProperties
  <2>2. QED  BY <2>1
<1> HIDE DEF F, n, Op
<1>0. n \in Nat /\ <<>> \in Seq(Typed) /\ StepsIn(F, Seq(Typed), n)
  BY <1>1, <1>3, <1>4, Zenon DEF StepsIn
<1>5. PICK g : Iterates(g, F, <<>>, Seq(Typed), n)
  BY <1>0, IterExists
<1>6. \A s \in SUBSET (1 .. n) : s # {} => Largest(s) \in 1 .. n /\ s \ {Largest(s)} \in SUBSET (1 .. n)
  BY <1>1, LargestIn
<1>7. g = D(g)
  <2>1. g \in [SUBSET (1 .. n) -> Seq(Typed)]
    BY <1>5 DEF Iterates
  <2>2. ASSUME NEW s \in SUBSET (1 .. n)
        PROVE  g[s] = IF s = {} THEN <<>> ELSE Op(g[s \ {Largest(s)}], format[Largest(s)])
    <3>1. g[s] = IF s = {} THEN <<>> ELSE F[<<g[s \ {Largest(s)}], Largest(s)>>]
      BY <1>5 DEF Iterates
    <3>2. s # {} => g[s \ {Largest(s)}] \in Seq(Typed) /\ Largest(s) \in 1 .. n
      BY <1>6, <2>1
    <3>3. QED  BY <1>3, <3>1, <3>2
  <2>3. QED  BY <1>1, <2>1, <2>2
<1>8. G = D(G)
  BY <1>7
<1> HIDE DEF G
<1>9. Unrolls(G, F, <<>>, Seq(Typed), n)
  BY <1>1, <1>3, <1>6, <1>8 DEF Unrolls
<1>10. Reaches(F, <<>>, Seq(Typed), n, G[1 .. n])
  BY <1>0, <1>9, FoldUnrolls
<1>11. QED  BY <1>1, <1>2, <1>10 DEF n, F

LEMMA DatesCut ==
  ASSUME DT!DateTimeAssumption, DateInv
  PROVE  DT!CutAtEnd
<1> DEFINE n == Len(format)
           seqs == [k \in DOMAIN format |-> DT!Meant(format[k])]
           whole == DT!FlattenSeq(seqs)
<1>1. /\ n \in Nat /\ n \in 0 .. n /\ DOMAIN format = 1 .. n
      /\ \A i \in 1 .. n : /\ seqs[i] = DT!Item(format[i]) /\ seqs[i] \in Seq(Typed)
  <2>1. /\ n \in Nat /\ DOMAIN format = 1 .. n
        /\ \A i \in 1 .. n : format[i] \in DT!Specifiers \cup Literals
    BY DEF DateInv
  <2>2. QED  BY <2>1, ItemMeant
<1>2. seqs \in [1 .. n -> Seq(Typed)]
  BY <1>1
<1>3. DT!FlattenSeq(seqs) = Flat(seqs)
  BY DEF DT!FlattenSeq, Flat
<1>4. DT!CutAtEnd <=> DT!parseFormat = Fitting(whole)
  BY DEF DT!CutAtEnd, Fitting
<1> HIDE DEF n, seqs
<1>5. PICK w : Goes(w, Appends(seqs, Typed, n), <<>>, Seq(Typed), n) /\ w[n] = whole
  BY <1>1, <1>2, <1>3, FlatSteps DEF Reaches
<1>6. PICK h : Goes(h, Added, <<>>, Seq(Typed), n) /\ h[n] = DT!parseFormat
  BY DateSteps DEF Reaches, n
<1> DEFINE Bad == { i \in 0 .. n : h[i] # Fitting(w[i]) }
<1>7. Bad \in SUBSET (0 .. n) /\ 0 \notin Bad
  <2>1. h[0] = <<>> /\ w[0] = <<>>
    BY <1>5, <1>6 DEF Goes, StepsOf
  <2>2. Fitting(<<>>) = <<>>
    BY DEF Fitting, DT!DateTimeAssumption
  <2>3. QED  BY <2>1, <2>2
<1>8. ASSUME NEW i \in 1 .. n, i - 1 \notin Bad
      PROVE  i \notin Bad
  <2>1. i - 1 \in 0 .. n
    BY <1>1
  <2>2. h[i - 1] = Fitting(w[i - 1])
    BY <1>8, <2>1
  <2>3. w[i - 1] \in Seq(Typed) /\ h[i - 1] \in Seq(Typed)
    BY <1>5, <1>6, <2>1 DEF Goes
  <2>4. w[i] = w[i - 1] \o seqs[i]
    <3>1. w[i] = Appends(seqs, Typed, n)[<<w[i - 1], i>>]
      BY <1>5 DEF Goes, StepsOf
    <3>2. QED  BY <2>3, <3>1 DEF Appends
  <2>5. h[i] = DT!addToBuff(DT!Item(format[i]), h[i - 1])
    <3>1. h[i] = Added[<<h[i - 1], i>>]
      BY <1>6 DEF Goes, StepsOf
    <3>2. i \in 1 .. Len(format)
      BY DEF n
    <3>3. QED  BY <2>3, <3>1, <3>2 DEF Added
  <2>6. h[i] = Fitting(w[i])
    BY <1>1, <2>2, <2>3, <2>4, <2>5, AddsFitting
  <2>7. QED  BY <2>6
<1>9. Bad = {}
  <2> HIDE DEF Bad
  <2>1. QED  BY <1>1, <1>7, <1>8, UpTo
<1>10. h[n] = Fitting(w[n])
  BY <1>1, <1>9
<1>11. QED  BY <1>4, <1>5, <1>6, <1>10

LEMMA NextDate ==
  ASSUME DT!DateTimeAssumption, DateInv, [DT!Next]_(DT!vars)
  PROVE  DateInv'
BY DEF DateInv, DT!Next, DT!Write, DT!vars, DT!Specifiers

LEMMA InitDate ==
  ASSUME DT!Init
  PROVE  DateInv
BY DEF DateInv, DT!Init

-----------------------------------------------------------------------------
(***************************************************************************)
(* Configuration files.  What the file says of a line depends on the lines *)
(* before it, so it is followed as the file grows.                         *)
(***************************************************************************)
ParsedLevels == {"Global", "Info", "Unknown"}
Assignments == [level : ParsedLevels, type : {"Enabled", "Format"}]
Parsers == [level : ParsedLevels, sets : Seq(Assignments), result : BOOLEAN]

Fresh0 == [level |-> "Unknown", sets |-> <<>>, result |-> FALSE]

LineRead(s, n) == [p \in Parsers \X (1 .. n) |-> CP!parseLine(p[1], s[p[2]])]

\* What a line does to the parser.
LEMMA ParsesLine ==
  ASSUME CP!ConfParserAssumption, NEW p \in Parsers, NEW x \in FileLines
  PROVE  /\ CP!parseLine(p, x) \in Parsers
         /\ CP!parseLine(p, x).level = IF x.kind = "level" THEN x.level ELSE p.level
         /\ CP!parseLine(p, x).sets =
              IF x.kind = "config" /\ p.level # "Unknown" /\ x.type # "Unknown"
              THEN Append(p.sets, [level |-> p.level, type |-> x.type]) ELSE p.sets
<1>1. /\ x.kind \in CP!Kinds
      /\ x.kind = "level" => x.level \in ParsedLevels
      /\ x.kind = "config" => x.type \in {"Enabled", "Format", "Unknown"}
  BY DEF CP!ConfParserAssumption, ParsedLevels
<1>2. p = [level |-> p.level, sets |-> p.sets, result |-> p.result] /\ p.level \in ParsedLevels
        /\ p.sets \in Seq(Assignments) /\ p.result \in BOOLEAN
  BY DEF Parsers
<1>3. CASE x.kind \in {"comment", "empty", "star"}
  <2>1. CP!parseLine(p, x) = [p EXCEPT !.result = TRUE]
    BY <1>3 DEF CP!parseLine
  <2>2. QED  BY <1>2, <1>3, <2>1 DEF Parsers
<1>4. CASE x.kind = "level"
  <2>1. CP!parseLine(p, x) = [p EXCEPT !.level = x.level, !.result = TRUE]
    BY <1>4 DEF CP!parseLine
  <2>2. QED  BY <1>1, <1>2, <1>4, <2>1 DEF Parsers
<1>5. CASE x.kind = "config" /\ p.level # "Unknown" /\ x.type # "Unknown"
  <2> DEFINE a == [level |-> p.level, type |-> x.type]
  <2>1. CP!parseLine(p, x) = [p EXCEPT !.sets = Append(@, a), !.result = TRUE]
    BY <1>5 DEF CP!parseLine
  <2>2. a \in Assignments
    BY <1>1, <1>2, <1>5 DEF Assignments
  <2> HIDE DEF a
  <2>3. Append(p.sets, a) \in Seq(Assignments)
    BY <1>2, <2>2
  <2>4. QED  BY <1>2, <1>5, <2>1, <2>3 DEF Parsers, a
<1>6. CASE /\ x.kind \notin {"comment", "empty", "star", "level"}
           /\ ~(x.kind = "config" /\ p.level # "Unknown" /\ x.type # "Unknown")
  <2>1. CP!parseLine(p, x) = [p EXCEPT !.result = FALSE]
    BY <1>6 DEF CP!parseLine
  <2>2. QED  BY <1>2, <1>6, <2>1 DEF Parsers
<1>7. QED  BY <1>3, <1>4, <1>5, <1>6

LEMMA ParseSteps ==
  ASSUME CP!ConfParserAssumption, NEW s \in Seq(FileLines)
  PROVE  Reaches(LineRead(s, Len(s)), Fresh0, Parsers, Len(s), CP!parseFromText(s))
<1> DEFINE n == Len(s)
           F == LineRead(s, n)
           Op(p, x) == CP!parseLine(p, x)
           base == Fresh0
           D(g) == [t \in SUBSET (DOMAIN s) |->
                      IF t = {} THEN base ELSE Op(g[t \ {Largest(t)}], s[Largest(t)])]
           G == CHOOSE g : g = D(g)
<1>1. n \in Nat /\ DOMAIN s = 1 .. n /\ base \in Parsers /\ \A i \in 1 .. n : s[i] \in FileLines
  BY DEF Fresh0, Parsers, ParsedLevels
<1>2. CP!parseFromText(s) = G[DOMAIN s]
  BY DEF CP!parseFromText, CP!FoldLeft, CP!MapThenFoldSet, CP!Max, Largest, Fresh0
<1>3. \A a \in Parsers, i \in 1 .. n : F[<<a, i>>] = Op(a, s[i])
  BY <1>1 DEF LineRead
<1>4. \A a \in Parsers, i \in 1 .. n : Op(a, s[i]) \in Parsers
  BY <1>1, ParsesLine
<1> HIDE DEF F, n, Op, base
<1>0. StepsIn(F, Parsers, n)
  BY <1>1, <1>3, <1>4, Zenon DEF StepsIn
<1>5. PICK g : Iterates(g, F, base, Parsers, n)
  BY <1>0, <1>1, IterExists
<1>6. \A t \in SUBSET (1 .. n) : t # {} => Largest(t) \in 1 .. n /\ t \ {Largest(t)} \in SUBSET (1 .. n)
  BY <1>1, LargestIn
<1>7. g = D(g)
  <2>1. g \in [SUBSET (1 .. n) -> Parsers]
    BY <1>5 DEF Iterates
  <2>2. ASSUME NEW t \in SUBSET (1 .. n)
        PROVE  g[t] = IF t = {} THEN base ELSE Op(g[t \ {Largest(t)}], s[Largest(t)])
    <3>1. g[t] = IF t = {} THEN base ELSE F[<<g[t \ {Largest(t)}], Largest(t)>>]
      BY <1>5 DEF Iterates
    <3>2. t # {} => g[t \ {Largest(t)}] \in Parsers /\ Largest(t) \in 1 .. n
      BY <1>6, <2>1
    <3>3. QED  BY <1>3, <3>1, <3>2
  <2>3. QED  BY <1>1, <2>1, <2>2
<1>8. G = D(G)
  BY <1>7
<1> HIDE DEF G
<1>9. Unrolls(G, F, base, Parsers, n)
  BY <1>1, <1>3, <1>6, <1>8 DEF Unrolls
<1>10. Reaches(F, base, Parsers, n, G[1 .. n])
  BY <1>0, <1>1, <1>9, FoldUnrolls
<1>11. QED  BY <1>1, <1>2, <1>10 DEF F, n, base

LEMMA ParsesEmpty ==
  ASSUME CP!ConfParserAssumption
  PROVE  CP!parseFromText(<<>>) = Fresh0
<1>1. <<>> \in Seq(FileLines) /\ Len(<<>>) = 0
  OBVIOUS
<1>2. PICK h : Goes(h, LineRead(<<>>, 0), Fresh0, Parsers, 0) /\ h[0] = CP!parseFromText(<<>>)
  BY <1>1, ParseSteps DEF Reaches
<1>3. QED  BY <1>2 DEF Goes, StepsOf

LEMMA ParsesAppended ==
  ASSUME CP!ConfParserAssumption, NEW s \in Seq(FileLines), NEW x \in FileLines
  PROVE  /\ CP!parseFromText(s) \in Parsers
         /\ CP!parseFromText(Append(s, x)) = CP!parseLine(CP!parseFromText(s), x)
<1> DEFINE n == Len(s)
           u == Append(s, x)
           F == LineRead(s, n)
           K == LineRead(u, n + 1)
<1>1. /\ n \in Nat /\ u \in Seq(FileLines) /\ Len(u) = n + 1 /\ u[n + 1] = x
      /\ \A i \in 1 .. n : u[i] = s[i]
  OBVIOUS
<1> HIDE DEF n, u
<1>2. PICK h : Goes(h, F, Fresh0, Parsers, n) /\ h[n] = CP!parseFromText(s)
  BY ParseSteps DEF Reaches, n
<1>3. PICK k : Goes(k, K, Fresh0, Parsers, n + 1) /\ k[n + 1] = CP!parseFromText(u)
  BY <1>1, ParseSteps DEF Reaches
<1>4. StepsOf(h, F, Fresh0, n) /\ StepsOf(k, K, Fresh0, n)
  <2>1. \A i \in 1 .. n : i \in 1 .. n + 1
    BY <1>1
  <2>2. QED  BY <1>2, <1>3, <2>1 DEF Goes, StepsOf
<1>5. ASSUME NEW i \in 1 .. n
      PROVE  F[<<h[i - 1], i>>] = K[<<h[i - 1], i>>]
  <2>1. i - 1 \in 0 .. n /\ i \in 1 .. n + 1 /\ u[i] = s[i]
    BY <1>1
  <2>2. h[i - 1] \in Parsers
    BY <1>2, <2>1 DEF Goes
  <2>3. QED  BY <2>1, <2>2 DEF LineRead
<1> HIDE DEF F, K
<1>6. \A i \in 0 .. n : h[i] = k[i]
  BY <1>1, <1>4, <1>5, StepsAgree
<1>7. n \in 0 .. n /\ n + 1 \in 1 .. n + 1 /\ n + 1 - 1 = n
  BY <1>1
<1>8. h[n] = k[n] /\ h[n] \in Parsers
  BY <1>2, <1>6, <1>7 DEF Goes
<1>9. k[n + 1] = K[<<k[n], n + 1>>]
  BY <1>3, <1>7 DEF Goes, StepsOf
<1>10. K[<<k[n], n + 1>>] = CP!parseLine(k[n], x)
  BY <1>1, <1>7, <1>8 DEF K, LineRead
<1>11. QED  BY <1>2, <1>3, <1>8, <1>9, <1>10 DEF u

\* One sequence more to flatten.
LEMMA FlatExtends ==
  ASSUME NEW T, NEW n \in Nat, NEW seqs \in [1 .. n + 1 -> Seq(T)], NEW front \in [1 .. n -> Seq(T)],
         \A i \in 1 .. n : front[i] = seqs[i]
  PROVE  Flat(front) \in Seq(T) /\ Flat(seqs) = Flat(front) \o seqs[n + 1]
<1> DEFINE F == Appends(front, T, n)
           K == Appends(seqs, T, n + 1)
<1>1. n + 1 \in Nat /\ n \in 0 .. n /\ n + 1 \in 1 .. n + 1 /\ n + 1 - 1 = n
  OBVIOUS
<1>2. PICK h : Goes(h, F, <<>>, Seq(T), n) /\ h[n] = Flat(front)
  BY FlatSteps DEF Reaches
<1>3. PICK k : Goes(k, K, <<>>, Seq(T), n + 1) /\ k[n + 1] = Flat(seqs)
  BY <1>1, FlatSteps DEF Reaches
<1>4. StepsOf(h, F, <<>>, n) /\ StepsOf(k, K, <<>>, n)
  <2>1. \A i \in 1 .. n : i \in 1 .. n + 1
    OBVIOUS
  <2>2. QED  BY <1>2, <1>3, <2>1 DEF Goes, StepsOf
<1>5. ASSUME NEW i \in 1 .. n
      PROVE  F[<<h[i - 1], i>>] = K[<<h[i - 1], i>>]
  <2>1. i - 1 \in 0 .. n /\ i \in 1 .. n + 1 /\ front[i] = seqs[i]
    OBVIOUS
  <2>2. h[i - 1] \in Seq(T)
    BY <1>2, <2>1 DEF Goes
  <2>3. QED  BY <2>1, <2>2 DEF Appends
<1> HIDE DEF F, K
<1>6. \A i \in 0 .. n : h[i] = k[i]
  BY <1>4, <1>5, StepsAgree
<1>7. h[n] = k[n] /\ h[n] \in Seq(T)
  BY <1>1, <1>2, <1>6 DEF Goes
<1>8. k[n + 1] = K[<<k[n], n + 1>>]
  BY <1>1, <1>3 DEF Goes, StepsOf
<1>9. K[<<k[n], n + 1>>] = k[n] \o seqs[n + 1]
  BY <1>1, <1>7 DEF K, Appends
<1>10. QED  BY <1>2, <1>3, <1>7, <1>8, <1>9

LEMMA FlatNothing ==
  ASSUME NEW seqs, Len(seqs) = 0, seqs = <<>>
  PROVE  Flat(seqs) = <<>>
BY DEF Flat

LEMMA LargestIs ==
  ASSUME NEW k \in Int, NEW s \in SUBSET Int, k \in s, \A y \in s : k >= y
  PROVE  Largest(s) = k
<1>1. \A x \in s : (\A y \in s : x >= y) => x = k
  OBVIOUS
<1>2. QED  BY <1>1, Zenon DEF Largest

-----------------------------------------------------------------------------
\* What CP!OwnerOf, CP!LevelAt and CP!SetAt say of line i, for the file f.
Heads(f, i) == {h \in 1 .. (i - 1) : f[h].kind = "logger" /\ f[h].name # "x"}
Owner(f, i) == IF Heads(f, i) = {} THEN NoValue ELSE CP!getLogger(f[Largest(Heads(f, i))].name)

Starts(f, i) == {0} \cup {h \in 1 .. (i - 1) : f[h].kind = "logger"}
Headers(f, i) == {h \in Largest(Starts(f, i)) + 1 .. (i - 1) : f[h].kind = "level"}
LevelIn(f, i) == IF Headers(f, i) = {} THEN "Unknown" ELSE f[Largest(Headers(f, i))].level

SetBy(f, i) ==
  IF f[i].kind = "config" /\ f[i].type # "Unknown" /\ LevelIn(f, i) # "Unknown"
  THEN <<[level |-> LevelIn(f, i), type |-> f[i].type]>> ELSE <<>>
Said(f, g) == [i \in 1 .. Len(f) |-> IF Owner(f, i) = g THEN SetBy(f, i) ELSE <<>>]

LEMMA SaidOfFile ==
  ASSUME NEW i
  PROVE  /\ CP!OwnerOf(i) = Owner(file, i)
         /\ CP!LevelAt(i) = LevelIn(file, i)
<1>1. \A s : CP!Max(s) = Largest(s)
  BY DEF CP!Max, Largest
<1>2. CP!HeadsBefore(i) = Heads(file, i)
  BY DEF CP!HeadsBefore, Heads
<1>3. CP!OwnerOf(i) = Owner(file, i)
  BY <1>1, <1>2 DEF CP!OwnerOf, Owner
<1>4. CP!SectionStart(i) = Largest(Starts(file, i))
  BY <1>1 DEF CP!SectionStart, Starts
<1>5. {h \in CP!SectionStart(i) + 1 .. (i - 1) : file[h].kind = "level"} = Headers(file, i)
  BY <1>4 DEF Headers
<1>6. CP!LevelAt(i) = LevelIn(file, i)
  BY <1>1, <1>5 DEF CP!LevelAt, LevelIn
<1>7. QED  BY <1>3, <1>6

\* The start of the section of a line is before it.
LEMMA StartIn ==
  ASSUME NEW f, NEW i \in Nat \ {0}
  PROVE  /\ Largest(Starts(f, i)) \in 0 .. i - 1
         /\ Headers(f, i) \in SUBSET (1 .. i - 1)
<1> DEFINE S == {h \in 1 .. (i - 1) : f[h].kind = "logger"}
<1>1. S \in SUBSET (1 .. i - 1) /\ i - 1 \in Nat
  OBVIOUS
<1> HIDE DEF S
<1>2. CASE S = {}
  <2>1. Starts(f, i) = {0}
    BY <1>2 DEF Starts, S
  <2>2. Largest({0}) = 0
    BY LargestIs
  <2>3. Largest(Starts(f, i)) = 0
    BY <2>1, <2>2
  <2>4. QED  BY <1>1, <2>3 DEF Headers
<1>3. CASE S # {}
  <2>1. Largest(S) \in S /\ \A y \in S : Largest(S) >= y
    BY <1>1, <1>3, LargestIn
  <2>3. Starts(f, i) = {0} \cup S
    BY DEF Starts, S
  <2>4. Largest({0} \cup S) = Largest(S)
    <3> DEFINE k == Largest(S)
               s == {0} \cup S
    <3>1. k \in S /\ \A y \in S : k >= y
      BY <2>1
    <3>2. k \in 1 .. i - 1
      BY <1>1, <3>1
    <3> HIDE DEF k
    <3>3. k \in Int /\ s \in SUBSET Int /\ k \in s
      BY <1>1, <3>1, <3>2
    <3>4. \A y \in s : k >= y
      BY <3>1, <3>2
    <3> HIDE DEF s
    <3>5. QED  BY <3>3, <3>4, LargestIs DEF k, s
  <2>5. Largest(Starts(f, i)) \in 1 .. i - 1
    BY <1>1, <2>1, <2>3, <2>4
  <2> DEFINE b == Largest(Starts(f, i))
  <2>6. Headers(f, i) = {h \in b + 1 .. (i - 1) : f[h].kind = "level"}
    BY DEF Headers
  <2>7. b \in 1 .. i - 1
    BY <2>5
  <2> HIDE DEF b
  <2>8. \A h \in b + 1 .. (i - 1) : h \in 1 .. i - 1
    BY <1>1, <2>7
  <2>9. Headers(f, i) \in SUBSET (1 .. i - 1)
    BY <2>6, <2>8
  <2>10. b \in 0 .. i - 1
    BY <2>7
  <2>11. QED  BY <2>9, <2>10 DEF b
<1>4. QED  BY <1>2, <1>3

\* What is said of a line is said of it for ever.
LEMMA SaidBefore ==
  ASSUME NEW s \in Seq(FileLines), NEW u \in Seq(FileLines), Len(u) = Len(s) + 1,
         \A h \in 1 .. Len(s) : u[h] = s[h], NEW i \in 1 .. Len(s) + 1
  PROVE  Owner(u, i) = Owner(s, i) /\ LevelIn(u, i) = LevelIn(s, i)
<1>1. i \in Nat \ {0} /\ i - 1 \in Nat /\ \A h \in 1 .. i - 1 : u[h] = s[h]
  OBVIOUS
<1>2. Heads(u, i) = Heads(s, i) /\ Heads(s, i) \in SUBSET (1 .. i - 1) /\ Starts(u, i) = Starts(s, i)
  BY <1>1 DEF Heads, Starts
<1>3. Heads(s, i) # {} => Largest(Heads(s, i)) \in 1 .. i - 1
  BY <1>1, <1>2, LargestIn
<1>4. Owner(u, i) = Owner(s, i)
  BY <1>1, <1>2, <1>3 DEF Owner
<1>5. Headers(u, i) = Headers(s, i)
  <2>1. Largest(Starts(s, i)) \in 0 .. i - 1
    BY <1>1, StartIn
  <2>2. \A h \in Largest(Starts(s, i)) + 1 .. (i - 1) : h \in 1 .. i - 1
    BY <1>1, <2>1
  <2>3. QED  BY <1>1, <1>2, <2>2 DEF Headers
<1>6. Headers(s, i) # {} => Largest(Headers(s, i)) \in 1 .. i - 1
  <2>1. Headers(s, i) \in SUBSET (1 .. i - 1)
    BY <1>1, StartIn
  <2>2. QED  BY <1>1, <2>1, LargestIn
<1>7. LevelIn(u, i) = LevelIn(s, i)
  BY <1>1, <1>5, <1>6 DEF LevelIn
<1>8. QED  BY <1>4, <1>7

LEMMA LevelsIn ==
  ASSUME CP!ConfParserAssumption, NEW s \in Seq(FileLines), NEW i \in 1 .. Len(s) + 1
  PROVE  LevelIn(s, i) \in ParsedLevels
<1>1. CASE Headers(s, i) = {}
  BY <1>1 DEF LevelIn, ParsedLevels
<1>2. CASE Headers(s, i) # {}
  <2>1. Headers(s, i) \in SUBSET (1 .. i - 1) /\ i - 1 \in Nat
    BY StartIn
  <2>2. Largest(Headers(s, i)) \in Headers(s, i)
    BY <1>2, <2>1, LargestIn
  <2>3. s[Largest(Headers(s, i))].kind = "level" /\ s[Largest(Headers(s, i))] \in FileLines
    BY <2>1, <2>2 DEF Headers
  <2>4. QED  BY <1>2, <2>3 DEF LevelIn, ParsedLevels, CP!ConfParserAssumption
<1>3. QED  BY <1>1, <1>2

\* What is said of the line that will come next.
LEMMA SaidNext ==
  ASSUME NEW s \in Seq(FileLines), NEW u \in Seq(FileLines), Len(u) = Len(s) + 1,
         \A h \in 1 .. Len(s) : u[h] = s[h], NEW x, x = u[Len(s) + 1]
  PROVE  /\ Owner(u, Len(s) + 2) = IF x.kind = "logger" /\ x.name # "x" THEN CP!getLogger(x.name)
                                   ELSE Owner(s, Len(s) + 1)
         /\ LevelIn(u, Len(s) + 2) = IF x.kind = "logger" THEN "Unknown"
                                     ELSE IF x.kind = "level" THEN x.level
                                     ELSE LevelIn(s, Len(s) + 1)
<1> DEFINE n == Len(s)
           i == n + 1
           j == n + 2
<1>1. /\ n \in Nat /\ i = n + 1 /\ j = n + 2 /\ i \in Nat \ {0} /\ j \in Nat \ {0} /\ j - 1 = i /\ i - 1 = n
      /\ (1 .. i) = (1 .. n) \cup {i} /\ \A h \in 1 .. n : u[h] = s[h]
  OBVIOUS
<1>2. x = u[i] /\ Len(u) = i
  OBVIOUS
<1> HIDE DEF n, i, j
<1>3. Owner(u, j) = IF x.kind = "logger" /\ x.name # "x" THEN CP!getLogger(x.name) ELSE Owner(s, i)
  <2>1. Heads(u, j) \in SUBSET (1 .. i) /\ Heads(s, i) \in SUBSET (1 .. n)
    BY <1>1 DEF Heads
  <2>2. CASE x.kind = "logger" /\ x.name # "x"
    <3>1. i \in Heads(u, j)
      BY <1>1, <1>2, <2>2 DEF Heads
    <3>2. Largest(Heads(u, j)) = i
      BY <1>1, <2>1, <3>1, LargestOf
    <3>3. QED  BY <1>2, <2>2, <3>1, <3>2 DEF Owner
  <2>3. CASE ~(x.kind = "logger" /\ x.name # "x")
    <3>1. Heads(u, j) = Heads(s, i)
      BY <1>1, <1>2, <2>3 DEF Heads
    <3>2. Heads(s, i) # {} => Largest(Heads(s, i)) \in 1 .. n
      BY <1>1, <2>1, LargestIn
    <3>3. QED  BY <1>1, <2>3, <3>1, <3>2 DEF Owner
  <2>4. QED  BY <2>2, <2>3
<1>4. CASE x.kind = "logger"
  <2>1. Largest(Starts(u, j)) = i
    <3> DEFINE S == Starts(u, j)
    <3>1. i \in Int /\ S \in SUBSET Int /\ i \in S /\ \A y \in S : i >= y
      BY <1>1, <1>2, <1>4 DEF Starts
    <3> HIDE DEF S
    <3>2. QED  BY <3>1, LargestIs DEF S
  <2>2. Headers(u, j) = {}
    BY <1>1, <2>1 DEF Headers
  <2>3. QED  BY <1>1, <1>3, <1>4, <2>2 DEF LevelIn, i, j, n
<1>5. CASE x.kind # "logger"
  <2>1. Starts(u, j) = Starts(s, i)
    BY <1>1, <1>2, <1>5 DEF Starts
  <2> DEFINE b == Largest(Starts(s, i))
  <2>2. b \in 0 .. n /\ Headers(s, i) \in SUBSET (1 .. n)
    BY <1>1, StartIn
  <2>3. Headers(u, j) = {h \in b + 1 .. i : u[h].kind = "level"} /\ Headers(s, i) = {h \in b + 1 .. n : s[h].kind = "level"}
    BY <1>1, <2>1 DEF Headers
  <2> HIDE DEF b
  <2>4. (b + 1 .. i) = (b + 1 .. n) \cup {i} /\ \A h \in b + 1 .. n : u[h] = s[h]
    BY <1>1, <2>2
  <2>5. CASE x.kind = "level"
    <3>1. i \in Headers(u, j) /\ Headers(u, j) \in SUBSET (1 .. i)
      BY <1>1, <1>2, <2>2, <2>3, <2>4, <2>5
    <3>2. Largest(Headers(u, j)) = i
      BY <1>1, <3>1, LargestOf
    <3>3. LevelIn(u, j) = x.level
      BY <1>2, <3>1, <3>2 DEF LevelIn
    <3>4. QED  BY <1>3, <1>5, <2>5, <3>3 DEF i, j, n
  <2>6. CASE x.kind # "level"
    <3>1. Headers(u, j) = Headers(s, i)
      BY <1>2, <2>3, <2>4, <2>6
    <3>2. Headers(s, i) # {} => Largest(Headers(s, i)) \in 1 .. n
      BY <1>1, <2>2, LargestIn
    <3>3. LevelIn(u, j) = LevelIn(s, i)
      BY <1>1, <3>1, <3>2 DEF LevelIn
    <3>4. QED  BY <1>3, <1>5, <2>6, <3>3 DEF i, j, n
  <2>7. QED  BY <2>5, <2>6
<1>6. QED  BY <1>4, <1>5

-----------------------------------------------------------------------------
\* What the sections parsed so far set for g, and what the current one will.
Owners == {"default", "net", "x"}
Sections == [logger : Owners, lines : Seq(FileLines), parsed : Parsers]
Given(a, g) == [i \in 1 .. Len(a) |-> IF a[i].logger = g THEN a[i].parsed.sets ELSE <<>>]
ToBeSet(g) == IF logger = g THEN CP!parseFromText(ss).sets ELSE <<>>

\* The parser stands where the file does, and what is left to set is in the
\* current section.
ConfInv ==
  /\ CP!TypeOK
  /\ applied \in Seq(Sections)
  /\ eof => \A g \in Owners : Flat(Given(applied, g)) = Flat(Said(file, g))
  /\ ~eof => /\ logger = Owner(file, Len(file) + 1)
             /\ CP!parseFromText(ss).level = LevelIn(file, Len(file) + 1)
             /\ \A g \in Owners : Flat(Given(applied, g)) \o ToBeSet(g) = Flat(Said(file, g))

LEMMA GivenIn ==
  ASSUME NEW a \in Seq(Sections), NEW g
  PROVE  Given(a, g) \in [1 .. Len(a) -> Seq(Assignments)] /\ Flat(Given(a, g)) \in Seq(Assignments)
<1>1. Len(a) \in Nat /\ \A i \in 1 .. Len(a) : a[i].parsed.sets \in Seq(Assignments)
  <2>1. Len(a) \in Nat /\ \A i \in 1 .. Len(a) : a[i] \in Sections
    OBVIOUS
  <2>2. \A b \in Sections : b.parsed \in Parsers
    BY DEF Sections
  <2>3. \A p \in Parsers : p.sets \in Seq(Assignments)
    BY DEF Parsers
  <2>4. QED  BY <2>1, <2>2, <2>3
<1>2. <<>> \in Seq(Assignments)
  OBVIOUS
<1>3. Given(a, g) \in [1 .. Len(a) -> Seq(Assignments)]
  BY <1>1, <1>2 DEF Given
<1>4. PICK h : Goes(h, Appends(Given(a, g), Assignments, Len(a)), <<>>, Seq(Assignments), Len(a))
                 /\ h[Len(a)] = Flat(Given(a, g))
  BY <1>1, <1>3, FlatSteps DEF Reaches
<1>5. Len(a) \in 0 .. Len(a)
  BY <1>1
<1>6. QED  BY <1>3, <1>4, <1>5 DEF Goes

\* The lambda configure gives the loggers what the section sets.
LEMMA Configures ==
  ASSUME CP!ConfParserAssumption, ConfInv
  PROVE  /\ CP!configure \in Seq(Sections)
         /\ \A i \in DOMAIN CP!configure :
              CP!configure[i].logger # NoValue /\ CP!configure[i].lines # <<>>
         /\ \A g \in Owners : Flat(Given(CP!configure, g)) = Flat(Given(applied, g)) \o ToBeSet(g)
<1>1. /\ ss \in Seq(FileLines) /\ logger \in {NoValue} \cup Owners /\ NoValue \notin Owners
      /\ applied \in Seq(Sections) /\ Len(applied) \in Nat
      /\ \A i \in DOMAIN applied : applied[i].logger # NoValue /\ applied[i].lines # <<>>
  BY DEF ConfInv, CP!TypeOK, Owners, CP!ConfParserAssumption
<1>2. CASE ss = <<>> \/ logger = NoValue
  <2>1. CP!configure = applied
    BY <1>2 DEF CP!configure
  <2>2. ASSUME NEW g \in Owners
        PROVE  Flat(Given(applied, g)) = Flat(Given(applied, g)) \o ToBeSet(g)
    <3>1. ToBeSet(g) = <<>>
      BY <1>1, <1>2, ParsesEmpty DEF ToBeSet, Fresh0
    <3>2. Flat(Given(applied, g)) \in Seq(Assignments)
      BY <1>1, GivenIn
    <3>3. QED  BY <3>1, <3>2
  <2>3. QED  BY <1>1, <2>1, <2>2
<1>3. CASE ~(ss = <<>> \/ logger = NoValue)
  <2> DEFINE section == [logger |-> logger, lines |-> ss, parsed |-> CP!parseFromText(ss)]
             a == Append(applied, section)
             n == Len(applied)
  <2>1. CP!configure = a
    BY <1>3 DEF CP!configure
  <2>2. CP!parseFromText(ss) \in Parsers
    <3>1. PICK h : Goes(h, LineRead(ss, Len(ss)), Fresh0, Parsers, Len(ss)) /\ h[Len(ss)] = CP!parseFromText(ss)
      BY <1>1, ParseSteps DEF Reaches
    <3>2. Len(ss) \in 0 .. Len(ss)
      BY <1>1
    <3>3. QED  BY <3>1, <3>2 DEF Goes
  <2>3. section \in Sections /\ section.logger # NoValue /\ section.lines # <<>>
    BY <1>1, <1>3, <2>2 DEF Sections
  <2>4. section.logger = logger /\ section.parsed = CP!parseFromText(ss)
    OBVIOUS
  <2> HIDE DEF section
  <2>5. /\ a \in Seq(Sections) /\ Len(a) = n + 1 /\ n \in Nat /\ a[n + 1] = section
        /\ \A i \in 1 .. n : a[i] = applied[i]
    BY <1>1, <2>3
  <2> HIDE DEF a, n
  <2>6. \A i \in DOMAIN a : a[i].logger # NoValue /\ a[i].lines # <<>>
    <3>1. DOMAIN a = 1 .. n + 1 /\ \A i \in 1 .. n + 1 : i = n + 1 \/ i \in DOMAIN applied
      BY <1>1, <2>5 DEF n
    <3>2. \A i \in DOMAIN applied : a[i] = applied[i]
      BY <1>1, <2>5 DEF n
    <3>3. QED  BY <1>1, <2>3, <2>5, <3>1, <3>2
  <2>7. ASSUME NEW g \in Owners
        PROVE  Flat(Given(a, g)) = Flat(Given(applied, g)) \o ToBeSet(g)
    <3> DEFINE front == Given(applied, g)
               seqs == Given(a, g)
    <3>1. front \in [1 .. n -> Seq(Assignments)] /\ seqs \in [1 .. n + 1 -> Seq(Assignments)]
      BY <1>1, <2>5, GivenIn DEF n
    <3>2. \A i \in 1 .. n : front[i] = seqs[i]
      BY <2>5 DEF Given, n
    <3>3. seqs[n + 1] = ToBeSet(g)
      BY <2>4, <2>5 DEF Given, ToBeSet
    <3> HIDE DEF front, seqs
    <3>4. Flat(seqs) = Flat(front) \o seqs[n + 1]
      BY <2>5, <3>1, <3>2, FlatExtends
    <3>5. QED  BY <3>3, <3>4 DEF front, seqs
  <2>8. QED  BY <2>1, <2>5, <2>6, <2>7
<1>4. QED  BY <1>2, <1>3

\* What one line more says.
LEMMA SaidMore ==
  ASSUME CP!ConfParserAssumption, NEW s \in Seq(FileLines), NEW u \in Seq(FileLines),
         Len(u) = Len(s) + 1, \A h \in 1 .. Len(s) : u[h] = s[h], NEW x, x = u[Len(s) + 1], NEW g
  PROVE  Flat(Said(u, g)) = Flat(Said(s, g)) \o
           (IF Owner(s, Len(s) + 1) = g /\ x.kind = "config" /\ x.type # "Unknown"
                 /\ LevelIn(s, Len(s) + 1) # "Unknown"
            THEN <<[level |-> LevelIn(s, Len(s) + 1), type |-> x.type]>> ELSE <<>>)
<1> DEFINE n == Len(s)
           front == Said(s, g)
           seqs == Said(u, g)
<1>1. /\ n \in Nat /\ n + 1 \in 1 .. n + 1 /\ \A i \in 1 .. n : i \in 1 .. n + 1
      /\ Len(u) = n + 1 /\ x = u[n + 1] /\ \A i \in 1 .. n : u[i] = s[i]
  OBVIOUS
<1> HIDE DEF n
<1>2. \A i \in 1 .. n + 1 : Owner(u, i) = Owner(s, i) /\ LevelIn(u, i) = LevelIn(s, i)
  BY SaidBefore DEF n
<1>3. \A i \in 1 .. n + 1 : LevelIn(s, i) \in ParsedLevels /\ u[i] \in FileLines
  BY <1>1, LevelsIn DEF n
<1>4. ASSUME NEW i \in 1 .. n + 1
      PROVE  SetBy(u, i) \in Seq(Assignments)
  <2>1. CASE u[i].kind = "config" /\ u[i].type # "Unknown" /\ LevelIn(u, i) # "Unknown"
    <3> DEFINE e == [level |-> LevelIn(u, i), type |-> u[i].type]
    <3>1. u[i].type \in {"Enabled", "Format"}
      BY <1>3, <2>1 DEF CP!ConfParserAssumption
    <3>2. e \in Assignments
      BY <1>2, <1>3, <3>1 DEF Assignments
    <3>3. SetBy(u, i) = <<e>>
      BY <2>1 DEF SetBy
    <3> HIDE DEF e
    <3>4. QED  BY <3>2, <3>3
  <2>2. CASE ~(u[i].kind = "config" /\ u[i].type # "Unknown" /\ LevelIn(u, i) # "Unknown")
    <3>1. SetBy(u, i) = <<>>
      BY <2>2 DEF SetBy
    <3>2. QED  BY <3>1
  <2>3. QED  BY <2>1, <2>2
<1>5. \A i \in 1 .. n : SetBy(u, i) = SetBy(s, i)
  BY <1>1, <1>2 DEF SetBy
<1>6. <<>> \in Seq(Assignments)
  OBVIOUS
<1>7. front \in [1 .. n -> Seq(Assignments)] /\ seqs \in [1 .. n + 1 -> Seq(Assignments)]
  <2>1. \A i \in 1 .. n : front[i] = IF Owner(s, i) = g THEN SetBy(s, i) ELSE <<>>
    BY DEF Said, n
  <2>2. \A i \in 1 .. n + 1 : seqs[i] = IF Owner(u, i) = g THEN SetBy(u, i) ELSE <<>>
    BY <1>1 DEF Said
  <2>3. front = [i \in 1 .. n |-> front[i]] /\ seqs = [i \in 1 .. n + 1 |-> seqs[i]]
    BY <1>1 DEF Said, n
  <2> HIDE DEF front, seqs
  <2>4. \A i \in 1 .. n : front[i] \in Seq(Assignments)
    BY <1>1, <1>4, <1>5, <1>6, <2>1
  <2>5. \A i \in 1 .. n + 1 : seqs[i] \in Seq(Assignments)
    BY <1>4, <1>6, <2>2
  <2>6. QED  BY <2>3, <2>4, <2>5
<1>8. \A i \in 1 .. n : front[i] = seqs[i]
  BY <1>1, <1>2, <1>5 DEF Said, n
<1>9. seqs[n + 1] = IF Owner(s, n + 1) = g THEN SetBy(u, n + 1) ELSE <<>>
  BY <1>1, <1>2 DEF Said
<1>10. SetBy(u, n + 1) = IF x.kind = "config" /\ x.type # "Unknown" /\ LevelIn(s, n + 1) # "Unknown"
                         THEN <<[level |-> LevelIn(s, n + 1), type |-> x.type]>> ELSE <<>>
  BY <1>1, <1>2 DEF SetBy
<1> HIDE DEF front, seqs
<1>11. Flat(seqs) = Flat(front) \o seqs[n + 1]
  BY <1>1, <1>7, <1>8, FlatExtends
<1>12. QED  BY <1>9, <1>10, <1>11 DEF front, seqs, n

LEMMA InitConf ==
  ASSUME CP!ConfParserAssumption, CP!Init
  PROVE  ConfInv
<1>1. file = <<>> /\ ss = <<>> /\ logger = NoValue /\ applied = <<>> /\ eof = FALSE
  BY DEF CP!Init
<1>2. CP!TypeOK
  <2>1. <<>> \in Seq(FileLines) /\ Len(<<>>) = 0 /\ 0 <= MaxLines
    BY DEF CP!ConfParserAssumption
  <2>2. \A i \in DOMAIN applied : applied[i].logger # NoValue /\ applied[i].lines # <<>>
    <3>1. DOMAIN <<>> = {}
      OBVIOUS
    <3>2. QED  BY <1>1, <3>1
  <2>3. QED  BY <1>1, <2>1, <2>2 DEF CP!TypeOK
<1>3. applied \in Seq(Sections) /\ Len(file) + 1 = 1 /\ 1 - 1 = 0 /\ Len(applied) = 0
  BY <1>1
<1>4. Heads(file, 1) = {} /\ Headers(file, 1) = {}
  <2>1. Headers(file, 1) \in SUBSET (1 .. 0)
    BY StartIn
  <2>2. QED  BY <1>3, <2>1 DEF Heads
<1>5. Owner(file, 1) = NoValue /\ LevelIn(file, 1) = "Unknown"
  BY <1>4 DEF Owner, LevelIn
<1>6. CP!parseFromText(ss).level = "Unknown" /\ CP!parseFromText(ss).sets = <<>>
  BY <1>1, ParsesEmpty DEF Fresh0
<1>7. ASSUME NEW g \in Owners
      PROVE  Flat(Given(applied, g)) \o ToBeSet(g) = Flat(Said(file, g))
  <2>1. Given(applied, g) = <<>> /\ Said(file, g) = <<>>
    BY <1>1 DEF Given, Said
  <2>2. Flat(<<>>) = <<>>
    BY FlatNothing
  <2>3. ToBeSet(g) = <<>>
    BY <1>6 DEF ToBeSet
  <2>4. <<>> \o <<>> = <<>>
    OBVIOUS
  <2>5. QED  BY <2>1, <2>2, <2>3, <2>4
<1>8. QED  BY <1>1, <1>2, <1>3, <1>5, <1>6, <1>7 DEF ConfInv

LEMMA EndsConf ==
  ASSUME CP!ConfParserAssumption, ConfInv, CP!EndOfFile
  PROVE  ConfInv'
<1>1. ~eof /\ eof' = TRUE /\ applied' = CP!configure /\ UNCHANGED <<file, ss, logger>>
  BY DEF CP!EndOfFile
<1>2. CP!TypeOK'
  BY <1>1, Configures DEF ConfInv, CP!TypeOK
<1>3. ASSUME NEW g \in Owners
      PROVE  Flat(Given(applied', g)) = Flat(Said(file', g))
  BY <1>1, Configures DEF ConfInv
<1>4. QED  BY <1>1, <1>2, <1>3, Configures DEF ConfInv

LEMMA ReadsConf ==
  ASSUME CP!ConfParserAssumption, ConfInv, NEW x \in FileLines, CP!ReadLine(x)
  PROVE  ConfInv'
<1> DEFINE n == Len(file)
           u == Append(file, x)
<1>1. /\ ~eof /\ eof' = eof /\ n < MaxLines /\ MaxLines \in Nat /\ file' = u /\ file \in Seq(FileLines)
      /\ CASE x.kind = "comment" -> UNCHANGED <<ss, logger, applied>>
           [] x.kind = "logger" -> CP!StartSection(x)
           [] OTHER -> ss' = Append(ss, x) /\ UNCHANGED <<logger, applied>>
  BY DEF CP!ReadLine, ConfInv, CP!TypeOK, CP!ConfParserAssumption
<1>2. /\ n \in Nat /\ u \in Seq(FileLines) /\ Len(u) = n + 1 /\ u[n + 1] = x /\ n + 1 + 1 = n + 2
      /\ \A h \in 1 .. n : u[h] = file[h]
  BY <1>1
<1>3. /\ logger = Owner(file, n + 1)
      /\ CP!parseFromText(ss).level = LevelIn(file, n + 1)
      /\ \A g \in Owners : Flat(Given(applied, g)) \o ToBeSet(g) = Flat(Said(file, g))
      /\ ss \in Seq(FileLines) /\ logger \in {NoValue, "default", "net", "x"} /\ applied \in Seq(Sections)
      /\ \A i \in DOMAIN applied : applied[i].logger # NoValue /\ applied[i].lines # <<>>
  BY <1>1 DEF ConfInv, CP!TypeOK
<1> HIDE DEF u
<1>4. /\ Owner(u, n + 2) = IF x.kind = "logger" /\ x.name # "x" THEN CP!getLogger(x.name) ELSE logger
      /\ LevelIn(u, n + 2) = IF x.kind = "logger" THEN "Unknown"
                             ELSE IF x.kind = "level" THEN x.level ELSE CP!parseFromText(ss).level
  BY <1>1, <1>2, <1>3, SaidNext
<1> DEFINE more(g) == IF logger = g /\ x.kind = "config" /\ x.type # "Unknown"
                           /\ CP!parseFromText(ss).level # "Unknown"
                      THEN <<[level |-> CP!parseFromText(ss).level, type |-> x.type]>> ELSE <<>>
<1>5. ASSUME NEW g \in Owners
      PROVE  Flat(Said(u, g)) = Flat(Given(applied, g)) \o ToBeSet(g) \o more(g)
  <2>1. Flat(Said(u, g)) = Flat(Said(file, g)) \o
          (IF Owner(file, n + 1) = g /\ x.kind = "config" /\ x.type # "Unknown"
                /\ LevelIn(file, n + 1) # "Unknown"
           THEN <<[level |-> LevelIn(file, n + 1), type |-> x.type]>> ELSE <<>>)
    <3>1. file \in Seq(FileLines) /\ u \in Seq(FileLines) /\ Len(u) = Len(file) + 1
            /\ x = u[Len(file) + 1] /\ \A h \in 1 .. Len(file) : u[h] = file[h]
      BY <1>1, <1>2
    <3> HIDE DEF more
    <3>2. QED  BY <3>1, SaidMore
  <2> HIDE DEF n
  <2>2. QED  BY <1>3, <2>1
<1>6. \A g \in Owners : Flat(Given(applied, g)) \in Seq(Assignments)
  BY <1>3, GivenIn
<1>7. CP!parseFromText(ss) \in Parsers /\ CP!parseFromText(ss).sets \in Seq(Assignments)
  <2>1. CP!parseFromText(ss) \in Parsers
    BY <1>3, ParsesAppended
  <2>2. QED  BY <2>1 DEF Parsers
<1>8. \A g \in Owners : ToBeSet(g) \in Seq(Assignments)
  BY <1>7 DEF ToBeSet
<1> DEFINE Done == /\ applied' \in Seq(Sections) /\ ss' \in Seq(FileLines)
                   /\ logger' \in {NoValue, "default", "net", "x"}
                   /\ \A i \in DOMAIN applied' : applied'[i].logger # NoValue /\ applied'[i].lines # <<>>
                   /\ logger' = Owner(u, n + 2)
                   /\ CP!parseFromText(ss').level = LevelIn(u, n + 2)
                   /\ \A g \in Owners : Flat(Given(applied', g)) \o ToBeSet(g)' = Flat(Said(u, g))
<1>9. ASSUME x.kind = "comment"
      PROVE  Done
  <2>1. UNCHANGED <<ss, logger, applied>>
    BY <1>1, <1>9
  <2>2. \A g \in Owners : ToBeSet(g)' = ToBeSet(g) /\ more(g) = <<>>
    BY <1>9, <2>1 DEF ToBeSet
  <2>3. ASSUME NEW g \in Owners
        PROVE  Flat(Given(applied', g)) \o ToBeSet(g)' = Flat(Said(u, g))
    <3> DEFINE a == Flat(Given(applied, g))
               r == ToBeSet(g)
    <3>1. a \in Seq(Assignments) /\ r \in Seq(Assignments)
      BY <1>6, <1>8
    <3>2. Flat(Given(applied', g)) \o ToBeSet(g)' = a \o r /\ Flat(Said(u, g)) = a \o r \o <<>>
      BY <1>5, <2>1, <2>2
    <3> HIDE DEF a, r
    <3>3. a \o r = a \o r \o <<>>
      BY <3>1
    <3>4. QED  BY <3>2, <3>3
  <2>4. logger' = Owner(u, n + 2) /\ CP!parseFromText(ss').level = LevelIn(u, n + 2)
    BY <1>4, <1>9, <2>1
  <2>5. QED  BY <1>3, <2>1, <2>3, <2>4
<1>10. ASSUME x.kind = "logger"
       PROVE  Done
  <2>1. /\ applied' = CP!configure /\ ss' = <<>>
        /\ logger' = IF x.name = "x" THEN logger ELSE CP!getLogger(x.name)
    BY <1>1, <1>10 DEF CP!StartSection
  <2>2. CP!parseFromText(ss').level = "Unknown" /\ CP!parseFromText(ss').sets = <<>>
    BY <2>1, ParsesEmpty DEF Fresh0
  <2>3. logger' \in {NoValue, "default", "net", "x"}
    BY <1>3, <1>10, <2>1 DEF CP!getLogger, CP!ConfParserAssumption
  <2>4. \A g \in Owners : ToBeSet(g)' = <<>> /\ more(g) = <<>>
    BY <1>10, <2>2 DEF ToBeSet
  <2>5. \A g \in Owners : Flat(Given(applied', g)) = Flat(Given(applied, g)) \o ToBeSet(g)
    BY <2>1, Configures
  <2>6. ASSUME NEW g \in Owners
        PROVE  Flat(Given(applied', g)) \o ToBeSet(g)' = Flat(Said(u, g))
    <3> DEFINE a == Flat(Given(applied, g))
               r == ToBeSet(g)
    <3>1. a \in Seq(Assignments) /\ r \in Seq(Assignments)
      BY <1>6, <1>8
    <3>2. Flat(Given(applied', g)) \o ToBeSet(g)' = (a \o r) \o <<>> /\ Flat(Said(u, g)) = a \o r \o <<>>
      BY <1>5, <2>4, <2>5
    <3>3. QED  BY <3>2
  <2>7. logger' = Owner(u, n + 2) /\ CP!parseFromText(ss').level = LevelIn(u, n + 2)
    BY <1>4, <1>10, <2>1, <2>2
  <2>8. applied' \in Seq(Sections)
        /\ \A i \in DOMAIN applied' : applied'[i].logger # NoValue /\ applied'[i].lines # <<>>
    BY <2>1, Configures
  <2>9. ss' \in Seq(FileLines)
    BY <2>1
  <2>10. QED  BY <2>3, <2>6, <2>7, <2>8, <2>9
<1>11. ASSUME x.kind \notin {"comment", "logger"}
       PROVE  Done
  <2>1. ss' = Append(ss, x) /\ UNCHANGED <<logger, applied>>
    BY <1>1, <1>11
  <2> DEFINE p == CP!parseFromText(ss)
             q == CP!parseFromText(ss')
  <2>2. q = CP!parseLine(p, x) /\ p \in Parsers
    BY <1>3, <2>1, ParsesAppended
  <2>3. /\ q.level = IF x.kind = "level" THEN x.level ELSE p.level
        /\ q.sets = IF x.kind = "config" /\ p.level # "Unknown" /\ x.type # "Unknown"
                    THEN Append(p.sets, [level |-> p.level, type |-> x.type]) ELSE p.sets
    BY <2>2, ParsesLine
  <2>4. logger' = Owner(u, n + 2) /\ q.level = LevelIn(u, n + 2)
    BY <1>4, <1>11, <2>1, <2>3
  <2>5. ASSUME NEW g \in Owners
        PROVE  Flat(Given(applied', g)) \o ToBeSet(g)' = Flat(Said(u, g))
    <3> DEFINE a == Flat(Given(applied, g))
               r == ToBeSet(g)
               e == [level |-> p.level, type |-> x.type]
    <3>1. a \in Seq(Assignments) /\ r \in Seq(Assignments) /\ Flat(Given(applied', g)) = a
          /\ Flat(Said(u, g)) = a \o r \o more(g)
      BY <1>5, <1>6, <1>8, <2>1
    <3>2. r = (IF logger = g THEN p.sets ELSE <<>>) /\ ToBeSet(g)' = IF logger = g THEN q.sets ELSE <<>>
      BY <2>1 DEF ToBeSet
    <3>3. CASE logger = g /\ x.kind = "config" /\ p.level # "Unknown" /\ x.type # "Unknown"
      <4>1. ToBeSet(g)' = Append(r, e) /\ more(g) = <<e>>
        BY <2>3, <3>2, <3>3
      <4>2. e \in Assignments
        <5>1. p.level \in ParsedLevels /\ x.type \in {"Enabled", "Format"}
          BY <2>2, <3>3 DEF Parsers, CP!ConfParserAssumption
        <5>2. QED  BY <5>1 DEF Assignments
      <4> HIDE DEF a, r, e, more
      <4>3. a \o Append(r, e) = a \o r \o <<e>>
        BY <3>1, <4>2
      <4>4. QED  BY <3>1, <4>1, <4>3
    <3>4. CASE ~(logger = g /\ x.kind = "config" /\ p.level # "Unknown" /\ x.type # "Unknown")
      <4>1. ToBeSet(g)' = r /\ more(g) = <<>>
        BY <2>3, <3>2, <3>4
      <4> HIDE DEF a, r, more
      <4>2. a \o r = a \o r \o <<>>
        BY <3>1
      <4>3. QED  BY <3>1, <4>1, <4>2
    <3>5. QED  BY <3>3, <3>4
  <2>6. ss' \in Seq(FileLines)
    BY <1>3, <2>1
  <2>7. QED  BY <1>3, <2>1, <2>4, <2>5, <2>6
<1>12. Done
  BY <1>9, <1>10, <1>11
<1>13. CP!TypeOK'
  BY <1>1, <1>2, <1>12 DEF ConfInv, CP!TypeOK
<1>14. Len(file') + 1 = n + 2
  BY <1>1, <1>2
<1> HIDE DEF n
<1>15. QED  BY <1>1, <1>12, <1>13, <1>14 DEF ConfInv

LEMMA NextConf ==
  ASSUME CP!ConfParserAssumption, ConfInv, [CP!Next]_(CP!vars)
  PROVE  ConfInv'
<1>1. CASE UNCHANGED CP!vars
  BY <1>1 DEF CP!vars, ConfInv, CP!TypeOK, ToBeSet
<1>2. CASE CP!Next
  BY <1>2, EndsConf, ReadsConf DEF CP!Next
<1>3. QED  BY <1>1, <1>2

LEMMA ConfShows ==
  ASSUME CP!ConfParserAssumption, ConfInv
  PROVE  CP!TypeOK /\ CP!FileApplied
<1>1. CP!TypeOK /\ file \in Seq(FileLines) /\ applied \in Seq(Sections)
  BY DEF ConfInv, CP!TypeOK
<1>2. ASSUME NEW s
      PROVE  CP!FlattenSeq(s) = Flat(s)
  BY DEF CP!FlattenSeq, Flat
<1>3. ASSUME eof, NEW g \in Owners
      PROVE  CP!SetFor(g) = CP!Wanted(g)
  <2>1. Flat(Given(applied, g)) = Flat(Said(file, g))
    BY <1>3 DEF ConfInv
  <2>2. [i \in DOMAIN applied |-> IF applied[i].logger = g THEN applied[i].parsed.sets ELSE <<>>] = Given(applied, g)
    BY <1>1 DEF Given
  <2>3. CP!SetFor(g) = Flat(Given(applied, g))
    BY <1>2, <2>2 DEF CP!SetFor
  <2>4. \A i : CP!OwnerOf(i) = Owner(file, i) /\ CP!SetAt(i) = SetBy(file, i)
    BY SaidOfFile DEF CP!SetAt, SetBy
  <2>5. [i \in DOMAIN file |-> IF CP!OwnerOf(i) = g THEN CP!SetAt(i) ELSE <<>>] = Said(file, g)
    BY <1>1, <2>4 DEF Said
  <2>6. CP!Wanted(g) = Flat(Said(file, g))
    BY <1>2, <2>5 DEF CP!Wanted
  <2>7. QED  BY <2>1, <2>3, <2>6
<1>4. QED  BY <1>1, <1>3 DEF CP!FileApplied, Owners

-----------------------------------------------------------------------------
(***************************************************************************)
(* Configurations.  A list has one entry per level and type; in a logger's *)
(* own list there is one for each, and Global's comes before the levels'.  *)
(***************************************************************************)
LEMMA ReachesIn ==
  ASSUME NEW n \in Nat, NEW F, NEW base, NEW T, NEW r, Reaches(F, base, T, n, r)
  PROVE  r \in T
<1>1. n \in 0 .. n
  OBVIOUS
<1>2. QED  BY <1>1 DEF Reaches, Goes

Settable == {"true", "no", "plain", "debug", "3", "6"} \cup ConfiguredFiles
Entries == {c \in [level : LC!Levels, type : Types, value : Settable] : c.value \in LC!ValuesOf(c.type)}

Listed(list) ==
  /\ list \in Seq(Entries)
  /\ \A i, j \in 1 .. Len(list) : list[i].level = list[j].level /\ list[i].type = list[j].type => i = j

GlobalFirst(list) ==
  \A i \in 1 .. Len(list) : list[i].level # "Global" =>
    \E j \in 1 .. i - 1 : list[j].level = "Global" /\ list[j].type = list[i].type

Complete(list, S) == \A l \in LC!Levels, t \in S : LC!Has(list, l, t)

LEMMA ConfConstants ==
  ASSUME LC!LogConfigAssumption
  PROVE  /\ LevelOrder \in Seq(LC!Levels) /\ "Debug" \in LC!Levels /\ "Global" \in LC!Levels
         /\ \A l \in LC!Levels : l = "Global" \/ \E i \in 1 .. Len(LevelOrder) : LevelOrder[i] = l
         /\ \A i \in 1 .. Len(LevelOrder) : LevelOrder[i] # "Global" /\ LevelOrder[i] \in LC!Levels
         /\ Types \in SUBSET {"Enabled", "ToFile", "Format", "MillisecondsWidth", "Filename"}
         /\ \A t \in Types : LC!ValuesOf(t) \in SUBSET Settable /\ LC!Default(t) \in LC!ValuesOf(t)
<1>1. /\ Types \in SUBSET {"Enabled", "ToFile", "Format", "MillisecondsWidth", "Filename"}
      /\ LevelOrder \in Seq(STRING) /\ DefaultFile \in ConfiguredFiles
      /\ "Debug" \in LC!Range(LevelOrder) /\ "Global" \notin LC!Range(LevelOrder)
  BY DEF LC!LogConfigAssumption
<1>2. DOMAIN LevelOrder = 1 .. Len(LevelOrder) /\ LC!Range(LevelOrder) = {LevelOrder[i] : i \in DOMAIN LevelOrder}
  BY <1>1 DEF LC!Range
<1>3. LC!Levels = {"Global"} \cup {LevelOrder[i] : i \in 1 .. Len(LevelOrder)}
  BY <1>2 DEF LC!Levels, LC!Global
<1>4. \A i \in 1 .. Len(LevelOrder) : LevelOrder[i] \in LC!Levels
  BY <1>3
<1>5. LevelOrder \in Seq(LC!Levels)
  BY <1>1, <1>4
<1>6. \A t \in Types : LC!ValuesOf(t) \in SUBSET Settable /\ LC!Default(t) \in LC!ValuesOf(t)
  BY <1>1 DEF LC!ValuesOf, LC!Default, Settable
<1>7. QED  BY <1>1, <1>2, <1>3, <1>4, <1>5, <1>6

\* RegistryWithPred::get finds the one entry there is.
LEMMA GetsEntry ==
  ASSUME NEW list, Listed(list), NEW i \in 1 .. Len(list)
  PROVE  /\ LC!Has(list, list[i].level, list[i].type)
         /\ LC!Get(list, list[i].level, list[i].type) = list[i].value
<1>1. DOMAIN list = 1 .. Len(list) /\ LC!Range(list) = {list[j] : j \in DOMAIN list}
  BY DEF Listed, LC!Range
<1>2. LC!Has(list, list[i].level, list[i].type)
  BY <1>1 DEF LC!Has, LC!Is
<1>3. \E c \in LC!Range(list) : LC!Is(c, list[i].level, list[i].type)
  BY <1>1 DEF LC!Is
<1> DEFINE c == CHOOSE c \in LC!Range(list) : LC!Is(c, list[i].level, list[i].type)
<1>4. c \in LC!Range(list) /\ LC!Is(c, list[i].level, list[i].type)
  BY <1>3
<1>5. LC!Get(list, list[i].level, list[i].type) = c.value
  BY DEF LC!Get
<1> HIDE DEF c
<1>6. c = list[i]
  <2>1. PICK j \in 1 .. Len(list) : c = list[j]
    BY <1>1, <1>4
  <2>2. list[j].level = list[i].level /\ list[j].type = list[i].type
    BY <1>4, <2>1 DEF LC!Is
  <2>3. QED  BY <2>1, <2>2 DEF Listed
<1>7. QED  BY <1>2, <1>5, <1>6

\* Configurations::unsafeSet of one level.
LEMMA PutLists ==
  ASSUME LC!LogConfigAssumption, NEW list, Listed(list), NEW l \in LC!Levels, NEW t \in Types,
         NEW v \in LC!ValuesOf(t)
  PROVE  /\ Listed(LC!Put(list, l, t, v))
         /\ LC!Has(LC!Put(list, l, t, v), l, t)
         /\ \A k, u : LC!Has(list, k, u) => LC!Has(LC!Put(list, l, t, v), k, u)
         /\ GlobalFirst(list) /\ (l = "Global" \/ LC!Has(list, "Global", t)) => GlobalFirst(LC!Put(list, l, t, v))
<1> DEFINE n == Len(list)
           put == LC!Put(list, l, t, v)
           e == [level |-> l, type |-> t, value |-> v]
<1>1. n \in Nat /\ DOMAIN list = 1 .. n /\ list \in Seq(Entries) /\ \A i \in 1 .. n : list[i] \in Entries
  BY DEF Listed
<1>2. e \in Entries /\ e.level = l /\ e.type = t
  BY ConfConstants DEF Entries
<1>3. CASE LC!Has(list, l, t)
  <2> DEFINE w(i) == IF LC!Is(list[i], l, t) THEN [list[i] EXCEPT !.value = v] ELSE list[i]
  <2>1. put = [i \in 1 .. n |-> w(i)]
    BY <1>1, <1>3 DEF LC!Put
  <2>2. \A i \in 1 .. n : w(i) \in Entries /\ w(i).level = list[i].level /\ w(i).type = list[i].type
    <3> SUFFICES ASSUME NEW i \in 1 .. n
                 PROVE  w(i) \in Entries /\ w(i).level = list[i].level /\ w(i).type = list[i].type
      OBVIOUS
    <3>1. CASE LC!Is(list[i], l, t)
      <4>1. list[i] = [level |-> l, type |-> t, value |-> list[i].value]
        BY <1>1, <3>1 DEF Entries, LC!Is
      <4>2. w(i) = e
        BY <3>1, <4>1
      <4>3. QED  BY <1>2, <3>1, <4>2 DEF LC!Is
    <3>2. CASE ~LC!Is(list[i], l, t)
      BY <1>1, <3>2
    <3>3. QED  BY <3>1, <3>2
  <2> HIDE DEF w, e
  <2>3. put \in Seq(Entries) /\ Len(put) = n /\ DOMAIN put = 1 .. n
        /\ \A i \in 1 .. n : put[i].level = list[i].level /\ put[i].type = list[i].type
    BY <1>1, <2>1, <2>2
  <2> HIDE DEF put, n
  <2>4. Listed(put)
    BY <2>3 DEF Listed, n
  <2>5. \A k, u : LC!Has(list, k, u) => LC!Has(put, k, u)
    BY <1>1, <2>3 DEF LC!Has, LC!Is
  <2>6. GlobalFirst(list) => GlobalFirst(put)
    <3> SUFFICES ASSUME GlobalFirst(list), NEW i \in 1 .. n, put[i].level # "Global"
                 PROVE  \E j \in 1 .. i - 1 : put[j].level = "Global" /\ put[j].type = put[i].type
      BY <2>3 DEF GlobalFirst
    <3>1. PICK j \in 1 .. i - 1 : list[j].level = "Global" /\ list[j].type = list[i].type
      BY <2>3 DEF GlobalFirst, n
    <3>2. j \in 1 .. n
      BY <1>1
    <3>3. QED  BY <2>3, <3>1, <3>2
  <2>7. QED  BY <1>3, <2>4, <2>5, <2>6 DEF put
<1>4. CASE ~LC!Has(list, l, t)
  <2>1. put = Append(list, e)
    BY <1>4 DEF LC!Put
  <2> HIDE DEF e
  <2>2. put \in Seq(Entries) /\ Len(put) = n + 1 /\ DOMAIN put = 1 .. n + 1 /\ put[n + 1] = e
        /\ \A i \in 1 .. n : put[i] = list[i]
    BY <1>1, <1>2, <2>1
  <2>3. \A i \in 1 .. n : ~(list[i].level = l /\ list[i].type = t)
    BY <1>1, <1>4 DEF LC!Has, LC!Is
  <2> HIDE DEF put
  <2>4. \A i \in 1 .. n + 1 : i \in 1 .. n \/ i = n + 1
    BY <1>1
  <2>5. ASSUME NEW i \in 1 .. n + 1, NEW j \in 1 .. n + 1, put[i].level = put[j].level, put[i].type = put[j].type
        PROVE  i = j
    <3>1. i \in 1 .. n /\ j \in 1 .. n => i = j
      BY <2>2, <2>5 DEF Listed
    <3>2. QED  BY <1>2, <2>2, <2>3, <2>4, <2>5, <3>1
  <2>6. Listed(put)
    BY <2>2, <2>5 DEF Listed
  <2>7. LC!Has(put, l, t)
    <3>1. n + 1 \in DOMAIN put
      BY <1>1, <2>2
    <3>2. QED  BY <1>2, <2>2, <3>1 DEF LC!Has, LC!Is
  <2>8. \A k, u : LC!Has(list, k, u) => LC!Has(put, k, u)
    <3>1. \A i \in 1 .. n : i \in DOMAIN put /\ put[i] = list[i]
      BY <1>1, <2>2
    <3>2. QED  BY <1>1, <3>1 DEF LC!Has
  <2>9. ASSUME GlobalFirst(list), l = "Global" \/ LC!Has(list, "Global", t)
        PROVE  GlobalFirst(put)
    <3> SUFFICES ASSUME NEW i \in 1 .. n + 1, put[i].level # "Global"
                 PROVE  \E j \in 1 .. i - 1 : put[j].level = "Global" /\ put[j].type = put[i].type
      BY <2>2 DEF GlobalFirst
    <3>1. CASE i \in 1 .. n
      <4>1. PICK j \in 1 .. i - 1 : list[j].level = "Global" /\ list[j].type = list[i].type
        BY <2>2, <2>9, <3>1 DEF GlobalFirst
      <4>2. j \in 1 .. n
        BY <1>1
      <4>3. QED  BY <2>2, <3>1, <4>1, <4>2
    <3>2. CASE i = n + 1
      <4>1. LC!Has(list, "Global", t) /\ put[i].type = t
        BY <1>2, <2>2, <2>9, <3>2
      <4>2. PICK j \in 1 .. n : list[j].level = "Global" /\ list[j].type = t
        BY <1>1, <4>1 DEF LC!Has, LC!Is
      <4>3. j \in 1 .. i - 1
        BY <1>1, <3>2
      <4>4. QED  BY <2>2, <4>1, <4>2, <4>3
    <3>3. QED  BY <2>4, <3>1, <3>2
  <2>10. QED  BY <2>6, <2>7, <2>8, <2>9 DEF put
<1>5. QED  BY <1>3, <1>4

\* The lists that come of putting values of type t into a list.
PutInto(list, t) ==
  {s \in Seq(Entries) :
     /\ Listed(s)
     /\ \A l \in LC!Levels, u \in Types : LC!Has(list, l, u) => LC!Has(s, l, u)
     /\ GlobalFirst(list) /\ LC!Has(list, "Global", t) => GlobalFirst(s)}

PutLevels(T, t, v) == [p \in T \X (1 .. Len(LevelOrder)) |-> LC!Put(p[1], LevelOrder[p[2]], t, v)]

LEMMA PutKeeps ==
  ASSUME LC!LogConfigAssumption, NEW list, Listed(list), NEW t \in Types, NEW v \in LC!ValuesOf(t),
         NEW s \in PutInto(list, t), NEW l \in LC!Levels
  PROVE  LC!Put(s, l, t, v) \in PutInto(list, t)
<1>1. Listed(s)
  BY DEF PutInto
<1>2. Listed(LC!Put(s, l, t, v)) /\ LC!Put(s, l, t, v) \in Seq(Entries)
  <2>1. Listed(LC!Put(s, l, t, v))
    BY <1>1, PutLists
  <2>2. QED  BY <2>1 DEF Listed
<1>3. \A k \in LC!Levels, u \in Types : LC!Has(list, k, u) => LC!Has(LC!Put(s, l, t, v), k, u)
  BY <1>1, PutLists DEF PutInto
<1>4. ASSUME GlobalFirst(list), LC!Has(list, "Global", t)
      PROVE  GlobalFirst(LC!Put(s, l, t, v))
  <2>1. GlobalFirst(s) /\ LC!Has(s, "Global", t)
    BY <1>4, ConfConstants DEF PutInto
  <2>2. QED  BY <1>1, <2>1, PutLists
<1>5. QED  BY <1>2, <1>3, <1>4 DEF PutInto

LEMMA PutSteps ==
  ASSUME LC!LogConfigAssumption, NEW list, Listed(list), NEW t \in Types, NEW v \in LC!ValuesOf(t)
  PROVE  Reaches(PutLevels(PutInto(list, t), t, v), list, PutInto(list, t), Len(LevelOrder), LC!PutAll(list, t, v))
<1> DEFINE n == Len(LevelOrder)
           T == PutInto(list, t)
           F == PutLevels(T, t, v)
           Op(p, x) == LC!Put(p, x, t, v)
           base == list
           D(g) == [k \in SUBSET (DOMAIN LevelOrder) |->
                      IF k = {} THEN base ELSE Op(g[k \ {Largest(k)}], LevelOrder[Largest(k)])]
           G == CHOOSE g : g = D(g)
<1>1. n \in Nat /\ DOMAIN LevelOrder = 1 .. n /\ base \in T
  BY ConfConstants DEF PutInto, Listed
<1>2. LC!PutAll(list, t, v) = G[DOMAIN LevelOrder]
  BY DEF LC!PutAll, LC!FoldLeft, LC!MapThenFoldSet, LC!Max, Largest
<1>3. \A a \in T, i \in 1 .. n : F[<<a, i>>] = Op(a, LevelOrder[i])
  BY <1>1 DEF PutLevels
<1>4. \A a \in T, i \in 1 .. n : Op(a, LevelOrder[i]) \in T
  BY ConfConstants, PutKeeps
<1> HIDE DEF F, n, Op, base, T
<1>0. StepsIn(F, T, n)
  BY <1>1, <1>3, <1>4, Zenon DEF StepsIn
<1>5. PICK g : Iterates(g, F, base, T, n)
  BY <1>0, <1>1, IterExists
<1>6. \A k \in SUBSET (1 .. n) : k # {} => Largest(k) \in 1 .. n /\ k \ {Largest(k)} \in SUBSET (1 .. n)
  BY <1>1, LargestIn
<1>7. g = D(g)
  <2>1. g \in [SUBSET (1 .. n) -> T]
    BY <1>5 DEF Iterates
  <2>2. ASSUME NEW k \in SUBSET (1 .. n)
        PROVE  g[k] = IF k = {} THEN base ELSE Op(g[k \ {Largest(k)}], LevelOrder[Largest(k)])
    <3>1. g[k] = IF k = {} THEN base ELSE F[<<g[k \ {Largest(k)}], Largest(k)>>]
      BY <1>5 DEF Iterates
    <3>2. k # {} => g[k \ {Largest(k)}] \in T /\ Largest(k) \in 1 .. n
      BY <1>6, <2>1
    <3>3. QED  BY <1>3, <3>1, <3>2
  <2>3. QED  BY <1>1, <2>1, <2>2
<1>8. G = D(G)
  BY <1>7
<1> HIDE DEF G
<1>9. Unrolls(G, F, base, T, n)
  BY <1>1, <1>3, <1>6, <1>8 DEF Unrolls
<1>10. Reaches(F, base, T, n, G[1 .. n])
  BY <1>0, <1>1, <1>9, FoldUnrolls
<1>11. QED  BY <1>1, <1>2, <1>10 DEF F, n, base, T

\* All levels but Global are set.
LEMMA PutsAll ==
  ASSUME LC!LogConfigAssumption, NEW list, Listed(list), NEW t \in Types, NEW v \in LC!ValuesOf(t)
  PROVE  /\ LC!PutAll(list, t, v) \in PutInto(list, t)
         /\ \A l \in LC!Levels : l # "Global" => LC!Has(LC!PutAll(list, t, v), l, t)
<1> DEFINE n == Len(LevelOrder)
           T == PutInto(list, t)
           F == PutLevels(T, t, v)
<1>1. n \in Nat /\ n \in 0 .. n
  BY ConfConstants
<1>2. PICK h : Goes(h, F, list, T, n) /\ h[n] = LC!PutAll(list, t, v)
  BY PutSteps DEF Reaches
<1>3. \A i \in 0 .. n : h[i] \in T /\ Listed(h[i])
  BY <1>2 DEF Goes, PutInto
<1>4. \A i \in 1 .. n : i - 1 \in 0 .. n /\ h[i] = LC!Put(h[i - 1], LevelOrder[i], t, v)
  <2>1. \A i \in 1 .. n : i - 1 \in 0 .. n /\ i \in 1 .. n
    BY <1>1
  <2>2. \A i \in 1 .. n : h[i] = F[<<h[i - 1], i>>]
    BY <1>2 DEF Goes, StepsOf
  <2>3. QED  BY <1>3, <2>1, <2>2 DEF PutLevels
<1> HIDE DEF T, F
<1> DEFINE Bad == {i \in 0 .. n : \E j \in 1 .. i : ~LC!Has(h[i], LevelOrder[j], t)}
<1>5. Bad \in SUBSET (0 .. n) /\ 0 \notin Bad
  OBVIOUS
<1>6. ASSUME NEW i \in 1 .. n, i \in Bad
      PROVE  i - 1 \in Bad
  <2>1. PICK j \in 1 .. i : ~LC!Has(h[i], LevelOrder[j], t)
    BY <1>6
  <2>2. Listed(h[i - 1]) /\ h[i] = LC!Put(h[i - 1], LevelOrder[i], t, v) /\ LevelOrder[i] \in LC!Levels
    BY <1>3, <1>4, ConfConstants
  <2>3. /\ LC!Has(h[i], LevelOrder[i], t)
        /\ \A k, u : LC!Has(h[i - 1], k, u) => LC!Has(h[i], k, u)
    BY <2>2, PutLists
  <2>4. j \in 1 .. i - 1 /\ i - 1 \in 0 .. n
    BY <1>1, <2>1, <2>3
  <2>5. QED  BY <2>1, <2>3, <2>4
<1>7. n \notin Bad
  <2> HIDE DEF Bad
  <2>1. QED  BY <1>1, <1>5, <1>6, UpTo
<1>8. \A j \in 1 .. n : LC!Has(h[n], LevelOrder[j], t)
  BY <1>1, <1>7
<1>9. QED  BY <1>1, <1>2, <1>3, <1>8, ConfConstants DEF T

\* Configurations::set of one level or of Global, and setGlobally.
LEMMA SetsLists ==
  ASSUME LC!LogConfigAssumption, NEW list, Listed(list), NEW l \in LC!Levels, NEW t \in Types,
         NEW v \in LC!ValuesOf(t)
  PROVE  /\ Listed(LC!unsafeSet(list, l, t, v))
         /\ LC!Has(LC!unsafeSet(list, l, t, v), l, t)
         /\ \A k \in LC!Levels, u \in Types : LC!Has(list, k, u) => LC!Has(LC!unsafeSet(list, l, t, v), k, u)
         /\ GlobalFirst(list) /\ (l = "Global" \/ LC!Has(list, "Global", t)) => GlobalFirst(LC!unsafeSet(list, l, t, v))
         /\ l = "Global" => \A k \in LC!Levels : LC!Has(LC!unsafeSet(list, l, t, v), k, t)
<1> DEFINE put == LC!Put(list, l, t, v)
<1>1. /\ Listed(put) /\ LC!Has(put, l, t)
      /\ \A k, u : LC!Has(list, k, u) => LC!Has(put, k, u)
      /\ GlobalFirst(list) /\ (l = "Global" \/ LC!Has(list, "Global", t)) => GlobalFirst(put)
  BY PutLists
<1>2. CASE l = "Global"
  <2>1. LC!unsafeSet(list, l, t, v) = LC!PutAll(put, t, v)
    BY <1>2 DEF LC!unsafeSet, LC!Global
  <2> HIDE DEF put
  <2>2. /\ LC!PutAll(put, t, v) \in PutInto(put, t)
        /\ \A k \in LC!Levels : k # "Global" => LC!Has(LC!PutAll(put, t, v), k, t)
    BY <1>1, PutsAll
  <2>3. QED  BY <1>1, <1>2, <2>1, <2>2, ConfConstants DEF PutInto
<1>3. CASE l # "Global"
  <2>1. LC!unsafeSet(list, l, t, v) = put
    BY <1>3 DEF LC!unsafeSet, LC!Global
  <2>2. QED  BY <1>1, <1>3, <2>1
<1>4. QED  BY <1>2, <1>3

LEMMA SetsGlobally ==
  ASSUME LC!LogConfigAssumption, NEW list, Listed(list), NEW t \in Types, NEW v \in LC!ValuesOf(t)
  PROVE  /\ Listed(LC!setGlobally(list, t, v, FALSE))
         /\ Listed(LC!setGlobally(list, t, v, TRUE))
         /\ \A k \in LC!Levels, u \in Types : LC!Has(list, k, u) => LC!Has(LC!setGlobally(list, t, v, TRUE), k, u)
         /\ GlobalFirst(list) => GlobalFirst(LC!setGlobally(list, t, v, TRUE))
         /\ \A k \in LC!Levels : LC!Has(LC!setGlobally(list, t, v, TRUE), k, t)
<1> DEFINE set == LC!unsafeSet(list, "Global", t, v)
<1>1. "Global" \in LC!Levels
  BY ConfConstants
<1>2. /\ Listed(set)
      /\ GlobalFirst(list) => GlobalFirst(set)
      /\ \A k \in LC!Levels, u \in Types : LC!Has(list, k, u) => LC!Has(set, k, u)
      /\ \A k \in LC!Levels : LC!Has(set, k, t)
  <2>1. Listed(set)
    BY <1>1, SetsLists
  <2>2. GlobalFirst(list) => GlobalFirst(set)
    BY <1>1, SetsLists
  <2>3. \A k \in LC!Levels, u \in Types : LC!Has(list, k, u) => LC!Has(set, k, u)
    BY <1>1, SetsLists
  <2>4. \A k \in LC!Levels : LC!Has(set, k, t)
    BY <1>1, SetsLists
  <2>5. QED  BY <2>1, <2>2, <2>3, <2>4
<1>3. LC!setGlobally(list, t, v, FALSE) = LC!PutAll(list, t, v) /\ LC!setGlobally(list, t, v, TRUE) = LC!PutAll(set, t, v)
  BY DEF LC!setGlobally, LC!Global
<1> HIDE DEF set
<1>4. LC!PutAll(list, t, v) \in PutInto(list, t)
  BY PutsAll
<1>5. LC!PutAll(set, t, v) \in PutInto(set, t)
  BY <1>2, PutsAll
<1>6. Listed(LC!setGlobally(list, t, v, FALSE)) /\ Listed(LC!setGlobally(list, t, v, TRUE))
  BY <1>3, <1>4, <1>5 DEF PutInto
<1>7. \A k \in LC!Levels, u \in Types : LC!Has(set, k, u) => LC!Has(LC!setGlobally(list, t, v, TRUE), k, u)
  BY <1>3, <1>5 DEF PutInto
<1>8. GlobalFirst(list) => GlobalFirst(LC!setGlobally(list, t, v, TRUE))
  BY <1>1, <1>2, <1>3, <1>5 DEF PutInto
<1>9. QED  BY <1>2, <1>6, <1>7, <1>8

\* Every type in use is set to its default value.
FromList(list) == {s \in Seq(Entries) : Listed(s) /\ (GlobalFirst(list) => GlobalFirst(s))}

SetDefault(T) ==
  [p \in T \X (1 .. Len(LC!TypeOrder)) |->
     IF LC!TypeOrder[p[2]] \in Types
     THEN LC!setGlobally(p[1], LC!TypeOrder[p[2]], LC!Default(LC!TypeOrder[p[2]]), TRUE) ELSE p[1]]

SetRemaining(T) ==
  [p \in T \X (1 .. Len(LC!TypeOrder)) |->
     IF LC!TypeOrder[p[2]] \in Types
     THEN LC!unsafeSetIfNotExist(p[1], LC!Global, LC!TypeOrder[p[2]], LC!Default(LC!TypeOrder[p[2]])) ELSE p[1]]

Defaults(list) ==
  LC!FoldLeft(LAMBDA s, t : IF t \in Types THEN LC!setGlobally(s, t, LC!Default(t), TRUE) ELSE s,
              list, LC!TypeOrder)

Remaining(list) ==
  LC!FoldLeft(LAMBDA s, t : IF t \in Types THEN LC!unsafeSetIfNotExist(s, LC!Global, t, LC!Default(t)) ELSE s,
              list, LC!TypeOrder)

LEMMA TypesInOrder ==
  ASSUME LC!LogConfigAssumption
  PROVE  /\ Len(LC!TypeOrder) \in Nat /\ DOMAIN LC!TypeOrder = 1 .. Len(LC!TypeOrder)
         /\ \A t \in Types : \E i \in 1 .. Len(LC!TypeOrder) : LC!TypeOrder[i] = t
BY ConfConstants DEF LC!TypeOrder

LEMMA DefaultKeeps ==
  ASSUME LC!LogConfigAssumption, NEW list, NEW s \in FromList(list), NEW t \in Types
  PROVE  LC!setGlobally(s, t, LC!Default(t), TRUE) \in FromList(list)
<1>1. Listed(s) /\ LC!Default(t) \in LC!ValuesOf(t)
  BY ConfConstants DEF FromList
<1> DEFINE set == LC!setGlobally(s, t, LC!Default(t), TRUE)
<1>2. Listed(set)
  BY <1>1, SetsGlobally
<1>3. GlobalFirst(s) => GlobalFirst(set)
  BY <1>1, SetsGlobally
<1> HIDE DEF set
<1>4. set \in Seq(Entries)
  BY <1>2 DEF Listed
<1>5. QED  BY <1>2, <1>3, <1>4 DEF FromList, set

LEMMA RemainingKeeps ==
  ASSUME LC!LogConfigAssumption, NEW s \in Seq(Entries), Listed(s), NEW l \in LC!Levels, NEW t \in Types,
         NEW v \in LC!ValuesOf(t)
  PROVE  LC!unsafeSetIfNotExist(s, l, t, v) \in Seq(Entries) /\ Listed(LC!unsafeSetIfNotExist(s, l, t, v))
<1>1. Listed(LC!unsafeSet(s, l, t, v))
  BY SetsLists
<1>2. LC!unsafeSet(s, l, t, v) \in Seq(Entries)
  BY <1>1 DEF Listed
<1>3. QED  BY <1>1, <1>2 DEF LC!unsafeSetIfNotExist

LEMMA DefaultSteps ==
  ASSUME LC!LogConfigAssumption, NEW list, Listed(list)
  PROVE  Reaches(SetDefault(FromList(list)), list, FromList(list), Len(LC!TypeOrder), Defaults(list))
<1> DEFINE n == Len(LC!TypeOrder)
           S == FromList(list)
           F == SetDefault(FromList(list))
           Op(p, x) == IF x \in Types THEN LC!setGlobally(p, x, LC!Default(x), TRUE) ELSE p
           base == list
           D(g) == [k \in SUBSET (DOMAIN LC!TypeOrder) |->
                      IF k = {} THEN base ELSE Op(g[k \ {Largest(k)}], LC!TypeOrder[Largest(k)])]
           G == CHOOSE g : g = D(g)
<1>1. n \in Nat /\ DOMAIN LC!TypeOrder = 1 .. n /\ base \in S
  BY TypesInOrder DEF FromList, Listed
<1>2. Defaults(list) = G[DOMAIN LC!TypeOrder]
  BY DEF Defaults, LC!FoldLeft, LC!MapThenFoldSet, LC!Max, Largest
<1>3. \A a \in S, i \in 1 .. n : F[<<a, i>>] = Op(a, LC!TypeOrder[i])
  BY <1>1 DEF SetDefault
<1>4. \A a \in S, i \in 1 .. n : Op(a, LC!TypeOrder[i]) \in S
  BY DefaultKeeps
<1> HIDE DEF F, n, Op, base, S
<1>0. StepsIn(F, S, n)
  BY <1>1, <1>3, <1>4, Zenon DEF StepsIn
<1>5. PICK g : Iterates(g, F, base, S, n)
  BY <1>0, <1>1, IterExists
<1>6. \A k \in SUBSET (1 .. n) : k # {} => Largest(k) \in 1 .. n /\ k \ {Largest(k)} \in SUBSET (1 .. n)
  BY <1>1, LargestIn
<1>7. g = D(g)
  <2>1. g \in [SUBSET (1 .. n) -> S]
    BY <1>5 DEF Iterates
  <2>2. ASSUME NEW k \in SUBSET (1 .. n)
        PROVE  g[k] = IF k = {} THEN base ELSE Op(g[k \ {Largest(k)}], LC!TypeOrder[Largest(k)])
    <3>1. g[k] = IF k = {} THEN base ELSE F[<<g[k \ {Largest(k)}], Largest(k)>>]
      BY <1>5 DEF Iterates
    <3>2. k # {} => g[k \ {Largest(k)}] \in S /\ Largest(k) \in 1 .. n
      BY <1>6, <2>1
    <3>3. QED  BY <1>3, <3>1, <3>2
  <2>3. QED  BY <1>1, <2>1, <2>2
<1>8. G = D(G)
  BY <1>7
<1> HIDE DEF G
<1>9. Unrolls(G, F, base, S, n)
  BY <1>1, <1>3, <1>6, <1>8 DEF Unrolls
<1>10. Reaches(F, base, S, n, G[1 .. n])
  BY <1>0, <1>1, <1>9, FoldUnrolls
<1>11. QED  BY <1>1, <1>2, <1>10 DEF F, n, base, S

LEMMA RemainingSteps ==
  ASSUME LC!LogConfigAssumption, NEW list, Listed(list)
  PROVE  Reaches(SetRemaining({s \in Seq(Entries) : Listed(s)}), list, {s \in Seq(Entries) : Listed(s)}, Len(LC!TypeOrder), Remaining(list))
<1> DEFINE n == Len(LC!TypeOrder)
           S == {s \in Seq(Entries) : Listed(s)}
           F == SetRemaining({s \in Seq(Entries) : Listed(s)})
           Op(p, x) == IF x \in Types THEN LC!unsafeSetIfNotExist(p, LC!Global, x, LC!Default(x)) ELSE p
           base == list
           D(g) == [k \in SUBSET (DOMAIN LC!TypeOrder) |->
                      IF k = {} THEN base ELSE Op(g[k \ {Largest(k)}], LC!TypeOrder[Largest(k)])]
           G == CHOOSE g : g = D(g)
<1>1. n \in Nat /\ DOMAIN LC!TypeOrder = 1 .. n /\ base \in S
  BY TypesInOrder DEF Listed
<1>2. Remaining(list) = G[DOMAIN LC!TypeOrder]
  BY DEF Remaining, LC!FoldLeft, LC!MapThenFoldSet, LC!Max, Largest
<1>3. \A a \in S, i \in 1 .. n : F[<<a, i>>] = Op(a, LC!TypeOrder[i])
  BY <1>1 DEF SetRemaining
<1>4. \A a \in S, i \in 1 .. n : Op(a, LC!TypeOrder[i]) \in S
  BY RemainingKeeps, ConfConstants DEF LC!Global
<1> HIDE DEF F, n, Op, base, S
<1>0. StepsIn(F, S, n)
  BY <1>1, <1>3, <1>4, Zenon DEF StepsIn
<1>5. PICK g : Iterates(g, F, base, S, n)
  BY <1>0, <1>1, IterExists
<1>6. \A k \in SUBSET (1 .. n) : k # {} => Largest(k) \in 1 .. n /\ k \ {Largest(k)} \in SUBSET (1 .. n)
  BY <1>1, LargestIn
<1>7. g = D(g)
  <2>1. g \in [SUBSET (1 .. n) -> S]
    BY <1>5 DEF Iterates
  <2>2. ASSUME NEW k \in SUBSET (1 .. n)
        PROVE  g[k] = IF k = {} THEN base ELSE Op(g[k \ {Largest(k)}], LC!TypeOrder[Largest(k)])
    <3>1. g[k] = IF k = {} THEN base ELSE F[<<g[k \ {Largest(k)}], Largest(k)>>]
      BY <1>5 DEF Iterates
    <3>2. k # {} => g[k \ {Largest(k)}] \in S /\ Largest(k) \in 1 .. n
      BY <1>6, <2>1
    <3>3. QED  BY <1>3, <3>1, <3>2
  <2>3. QED  BY <1>1, <2>1, <2>2
<1>8. G = D(G)
  BY <1>7
<1> HIDE DEF G
<1>9. Unrolls(G, F, base, S, n)
  BY <1>1, <1>3, <1>6, <1>8 DEF Unrolls
<1>10. Reaches(F, base, S, n, G[1 .. n])
  BY <1>0, <1>1, <1>9, FoldUnrolls
<1>11. QED  BY <1>1, <1>2, <1>10 DEF F, n, base, S

\* A logger's list is whole after setToDefault.
LEMMA DefaultsSet ==
  ASSUME LC!LogConfigAssumption, NEW list, Listed(list)
  PROVE  /\ Listed(LC!setToDefault(list))
         /\ GlobalFirst(list) => GlobalFirst(LC!setToDefault(list)) /\ Complete(LC!setToDefault(list), Types)
<1> DEFINE n == Len(LC!TypeOrder)
           T == FromList(list)
           F == SetDefault(T)
           all == Defaults(list)
<1>1. n \in Nat /\ n \in 0 .. n
  BY TypesInOrder
<1>2. PICK h : Goes(h, F, list, T, n) /\ h[n] = all
  BY DefaultSteps DEF Reaches
<1>3. \A i \in 0 .. n : h[i] \in T /\ Listed(h[i])
  BY <1>2 DEF Goes, FromList
<1>4. \A i \in 1 .. n : /\ i - 1 \in 0 .. n
                       /\ h[i] = IF LC!TypeOrder[i] \in Types
                                 THEN LC!setGlobally(h[i - 1], LC!TypeOrder[i], LC!Default(LC!TypeOrder[i]), TRUE)
                                 ELSE h[i - 1]
  <2>1. \A i \in 1 .. n : i - 1 \in 0 .. n /\ i \in 1 .. n
    BY <1>1
  <2>2. \A i \in 1 .. n : h[i] = F[<<h[i - 1], i>>]
    BY <1>2 DEF Goes, StepsOf
  <2>3. QED  BY <1>3, <2>1, <2>2 DEF SetDefault
<1> HIDE DEF F, all, n
<1> DEFINE Bad == {i \in 0 .. n : \E j \in 1 .. i : /\ LC!TypeOrder[j] \in Types
                                                  /\ \E l \in LC!Levels : ~LC!Has(h[i], l, LC!TypeOrder[j])}
<1>5. Bad \in SUBSET (0 .. n) /\ 0 \notin Bad
  OBVIOUS
<1>6. ASSUME NEW i \in 1 .. n, i \in Bad
      PROVE  i - 1 \in Bad
  <2>1. PICK j \in 1 .. i, l \in LC!Levels : LC!TypeOrder[j] \in Types /\ ~LC!Has(h[i], l, LC!TypeOrder[j])
    BY <1>6
  <2>2. Listed(h[i - 1]) /\ i - 1 \in 0 .. n
    BY <1>3, <1>4
  <2>3. ASSUME LC!TypeOrder[i] \in Types
        PROVE  /\ LC!Has(h[i], l, LC!TypeOrder[i])
               /\ \A k \in LC!Levels, u \in Types : LC!Has(h[i - 1], k, u) => LC!Has(h[i], k, u)
    <3> DEFINE t == LC!TypeOrder[i]
               g == h[i - 1]
    <3>1. LC!Default(t) \in LC!ValuesOf(t)
      BY <2>3, ConfConstants
    <3>2. h[i] = LC!setGlobally(g, t, LC!Default(t), TRUE)
      BY <1>4, <2>3
    <3>3. Listed(g) /\ t \in Types
      BY <2>2, <2>3
    <3> HIDE DEF t, g
    <3>4. LC!Has(h[i], l, t)
      BY <3>1, <3>2, <3>3, SetsGlobally
    <3>5. \A k \in LC!Levels, u \in Types : LC!Has(g, k, u) => LC!Has(h[i], k, u)
      BY <3>1, <3>2, <3>3, SetsGlobally
    <3>6. QED  BY <3>4, <3>5 DEF t, g
  <2>4. LC!TypeOrder[i] \notin Types => h[i] = h[i - 1]
    BY <1>4
  <2>5. j # i /\ ~LC!Has(h[i - 1], l, LC!TypeOrder[j])
    BY <2>1, <2>3, <2>4
  <2>6. j \in 1 .. i - 1
    BY <1>1, <2>1, <2>5
  <2>7. QED  BY <2>1, <2>2, <2>5, <2>6
<1>7. n \notin Bad
  <2> HIDE DEF Bad
  <2>1. QED  BY <1>1, <1>5, <1>6, UpTo
<1>8. Complete(all, Types)
  <2>1. \A j \in 1 .. n : LC!TypeOrder[j] \in Types => \A l \in LC!Levels : LC!Has(h[n], l, LC!TypeOrder[j])
    BY <1>1, <1>7
  <2>2. QED  BY <1>2, <2>1, TypesInOrder DEF Complete, n
<1>9. Listed(all) /\ (GlobalFirst(list) => GlobalFirst(all))
  BY <1>1, <1>2, <1>3 DEF FromList
<1>10. LC!setToDefault(list) = IF "Format" \in Types THEN LC!unsafeSet(all, "Debug", "Format", "debug") ELSE all
  BY DEF LC!setToDefault, all, Defaults
<1>11. CASE "Format" \in Types
  <2> DEFINE set == LC!unsafeSet(all, "Debug", "Format", "debug")
  <2>1. "debug" \in LC!ValuesOf("Format") /\ "Debug" \in LC!Levels /\ "Global" \in LC!Levels
    BY ConfConstants DEF LC!ValuesOf
  <2>2. LC!Has(all, "Global", "Format")
    BY <1>8, <1>11, <2>1 DEF Complete
  <2>3. Listed(set)
    BY <1>9, <1>11, <2>1, SetsLists
  <2>4. \A k \in LC!Levels, u \in Types : LC!Has(all, k, u) => LC!Has(set, k, u)
    BY <1>9, <1>11, <2>1, SetsLists
  <2>5. GlobalFirst(all) => GlobalFirst(set)
    BY <1>9, <1>11, <2>1, <2>2, SetsLists
  <2> HIDE DEF set
  <2>6. Complete(set, Types)
    BY <1>8, <2>4 DEF Complete
  <2>7. LC!setToDefault(list) = set
    BY <1>10, <1>11 DEF set
  <2>8. QED  BY <1>9, <2>3, <2>5, <2>6, <2>7
<1>12. CASE "Format" \notin Types
  BY <1>8, <1>9, <1>10, <1>12
<1>13. QED  BY <1>11, <1>12

LEMMA RemainingSet ==
  ASSUME LC!LogConfigAssumption, NEW list, Listed(list)
  PROVE  Listed(LC!setRemainingToDefault(list))
<1> DEFINE T == {s \in Seq(Entries) : Listed(s)}
           all == Remaining(list)
<1>1. all \in T
  <2> DEFINE F == SetRemaining(T)
             n == Len(LC!TypeOrder)
  <2>1. Reaches(F, list, T, n, all)
    BY RemainingSteps
  <2>2. n \in Nat
    BY TypesInOrder
  <2> HIDE DEF F, n, T, all
  <2>3. QED  BY <2>1, <2>2, ReachesIn
<1>2. LC!setRemainingToDefault(list) =
        IF "Format" \in Types THEN LC!unsafeSetIfNotExist(all, "Debug", "Format", "debug") ELSE all
  BY DEF LC!setRemainingToDefault, Remaining
<1> HIDE DEF all
<1>3. "Format" \in Types => Listed(LC!unsafeSetIfNotExist(all, "Debug", "Format", "debug"))
  <2>1. "debug" \in LC!ValuesOf("Format") /\ "Debug" \in LC!Levels
    BY ConfConstants DEF LC!ValuesOf
  <2>2. QED  BY <1>1, <2>1, RemainingKeeps
<1>4. QED  BY <1>1, <1>2, <1>3

\* What a logger's own list keeps when a list is set in it.
Own == {s \in Seq(Entries) : Listed(s) /\ GlobalFirst(s) /\ Complete(s, Types)}

SetEntries(list) ==
  [p \in Own \X (1 .. Len(list)) |-> LC!unsafeSet(p[1], list[p[2]].level, list[p[2]].type, list[p[2]].value)]

LEMMA OwnKeeps ==
  ASSUME LC!LogConfigAssumption, NEW s \in Own, NEW l \in LC!Levels, NEW t \in Types, NEW v \in LC!ValuesOf(t)
  PROVE  LC!unsafeSet(s, l, t, v) \in Own
<1> DEFINE set == LC!unsafeSet(s, l, t, v)
<1>1. Listed(s) /\ GlobalFirst(s) /\ Complete(s, Types) /\ LC!Has(s, "Global", t)
  BY ConfConstants DEF Own, Complete
<1>2. Listed(set)
  BY <1>1, SetsLists
<1>3. GlobalFirst(set)
  BY <1>1, SetsLists
<1>4. \A k \in LC!Levels, u \in Types : LC!Has(s, k, u) => LC!Has(set, k, u)
  BY <1>1, SetsLists
<1> HIDE DEF set
<1>5. Complete(set, Types) /\ set \in Seq(Entries)
  BY <1>1, <1>2, <1>4 DEF Complete, Listed
<1>6. QED  BY <1>2, <1>3, <1>5 DEF Own, set

LEMMA BaseSteps ==
  ASSUME LC!LogConfigAssumption, NEW list \in Own, NEW from \in Seq(Entries)
  PROVE  Reaches(SetEntries(from), list, Own, Len(from), LC!setFromBase(list, from))
<1> DEFINE n == Len(from)
           S == Own
           F == SetEntries(from)
           Op(p, x) == LC!unsafeSet(p, x.level, x.type, x.value)
           base == list
           D(g) == [k \in SUBSET (DOMAIN from) |->
                      IF k = {} THEN base ELSE Op(g[k \ {Largest(k)}], from[Largest(k)])]
           G == CHOOSE g : g = D(g)
<1>1. n \in Nat /\ DOMAIN from = 1 .. n /\ base \in S
  OBVIOUS
<1>2. LC!setFromBase(list, from) = G[DOMAIN from]
  BY DEF LC!setFromBase, LC!FoldLeft, LC!MapThenFoldSet, LC!Max, Largest
<1>3. \A a \in S, i \in 1 .. n : F[<<a, i>>] = Op(a, from[i])
  BY <1>1 DEF SetEntries
<1>4. \A a \in S, i \in 1 .. n : Op(a, from[i]) \in S
  <2>1. \A i \in 1 .. n : /\ from[i].level \in LC!Levels /\ from[i].type \in Types
                       /\ from[i].value \in LC!ValuesOf(from[i].type)
    <3>1. \A i \in 1 .. n : from[i] \in Entries
      BY <1>1
    <3>2. QED  BY <3>1 DEF Entries
  <2>2. QED  BY <2>1, OwnKeeps
<1> HIDE DEF F, n, Op, base, S
<1>0. StepsIn(F, S, n)
  BY <1>1, <1>3, <1>4, Zenon DEF StepsIn
<1>5. PICK g : Iterates(g, F, base, S, n)
  BY <1>0, <1>1, IterExists
<1>6. \A k \in SUBSET (1 .. n) : k # {} => Largest(k) \in 1 .. n /\ k \ {Largest(k)} \in SUBSET (1 .. n)
  BY <1>1, LargestIn
<1>7. g = D(g)
  <2>1. g \in [SUBSET (1 .. n) -> S]
    BY <1>5 DEF Iterates
  <2>2. ASSUME NEW k \in SUBSET (1 .. n)
        PROVE  g[k] = IF k = {} THEN base ELSE Op(g[k \ {Largest(k)}], from[Largest(k)])
    <3>1. g[k] = IF k = {} THEN base ELSE F[<<g[k \ {Largest(k)}], Largest(k)>>]
      BY <1>5 DEF Iterates
    <3>2. k # {} => g[k \ {Largest(k)}] \in S /\ Largest(k) \in 1 .. n
      BY <1>6, <2>1
    <3>3. QED  BY <1>3, <3>1, <3>2
  <2>3. QED  BY <1>1, <2>1, <2>2
<1>8. G = D(G)
  BY <1>7
<1> HIDE DEF G
<1>9. Unrolls(G, F, base, S, n)
  BY <1>1, <1>3, <1>6, <1>8 DEF Unrolls
<1>10. Reaches(F, base, S, n, G[1 .. n])
  BY <1>0, <1>1, <1>9, FoldUnrolls
<1>11. QED  BY <1>1, <1>2, <1>10 DEF F, n, base, S

LEMMA BaseSet ==
  ASSUME LC!LogConfigAssumption, NEW list \in Own, NEW from \in Seq(Entries)
  PROVE  LC!setFromBase(list, from) \in Own
<1> DEFINE F == SetEntries(from)
           n == Len(from)
           r == LC!setFromBase(list, from)
<1>1. Reaches(F, list, Own, n, r) /\ n \in Nat
  BY BaseSteps
<1> HIDE DEF F, n, r
<1>2. r \in Own
  BY <1>1, ReachesIn
<1>3. QED  BY <1>2 DEF r

-----------------------------------------------------------------------------
\* The maps of a TypedConfigurations, one per type.
Formats == [level : LC!Levels, userFormat : Settable, format : LC!Levels \X Settable]
KindOf(t) == IF t \in {"Enabled", "ToFile"} THEN BOOLEAN ELSE IF t = "Format" THEN Formats ELSE Settable
MapsTo(V) == UNION {[D -> V] : D \in SUBSET LC!Levels}
TypesKept == Types \cup {"ToFile", "Filename"}
Typeds == {m \in [TypesKept -> UNION {MapsTo(KindOf(t)) : t \in TypesKept}] :
             \A t \in TypesKept : m[t] \in MapsTo(KindOf(t))}

LEMMA WithIn ==
  ASSUME NEW V, NEW map \in MapsTo(V), NEW l \in LC!Levels, NEW v \in V
  PROVE  LC!With(map, l, v) \in MapsTo(V)
<1>1. PICK D \in SUBSET LC!Levels : map \in [D -> V]
  BY DEF MapsTo
<1>2. LC!With(map, l, v) \in [D \cup {l} -> V]
  BY <1>1 DEF LC!With
<1>3. D \cup {l} \in SUBSET LC!Levels
  OBVIOUS
<1>4. QED  BY <1>2, <1>3 DEF MapsTo

LEMMA MapIn ==
  ASSUME NEW V, NEW map \in MapsTo(V)
  PROVE  /\ DOMAIN map \in SUBSET LC!Levels
         /\ \A l \in DOMAIN map : map[l] \in V
BY DEF MapsTo

LEMMA ConvertsTo ==
  ASSUME LC!LogConfigAssumption, NEW t \in Types, NEW l \in LC!Levels, NEW v \in LC!ValuesOf(t)
  PROVE  LC!Convert(t, l, v) \in KindOf(t)
<1>1. v \in Settable /\ t \in {"Enabled", "ToFile", "Format", "MillisecondsWidth", "Filename"}
  BY ConfConstants
<1>2. CASE t \in {"Enabled", "ToFile"}
  BY <1>2 DEF LC!Convert, KindOf
<1>3. CASE t = "Format"
  BY <1>1, <1>3 DEF LC!Convert, KindOf, Formats
<1>4. CASE t \in {"MillisecondsWidth", "Filename"}
  BY <1>1, <1>4 DEF LC!Convert, KindOf
<1>5. QED  BY <1>1, <1>2, <1>3, <1>4

\* TypedConfigurations::setValue.
LEMMA SetsValue ==
  ASSUME LC!LogConfigAssumption, NEW t, NEW map \in MapsTo(KindOf(t)), NEW l \in LC!Levels, NEW v \in KindOf(t)
  PROVE  LC!setValue(map, t, l, v) \in MapsTo(KindOf(t))
<1>1. "Global" \in LC!Levels
  BY ConfConstants
<1>2. CASE DOMAIN map = {}
  BY <1>1, <1>2, WithIn DEF LC!setValue, LC!Global
<1>3. CASE DOMAIN map # {} /\ "Global" \in DOMAIN map /\ map["Global"] = v
  BY <1>3 DEF LC!setValue, LC!Global
<1>4. CASE DOMAIN map # {} /\ ~("Global" \in DOMAIN map /\ map["Global"] = v) /\ t = "Format" /\ l \in DOMAIN map
  <2> DEFINE w == [v EXCEPT !.format = map[l].format]
  <2>1. v \in Formats /\ map[l] \in Formats
    BY <1>4, MapIn DEF KindOf
  <2>2. w \in Formats
    BY <2>1 DEF Formats
  <2>3. LC!setValue(map, t, l, v) = LC!With(map, l, w) /\ KindOf(t) = Formats
    BY <1>4 DEF LC!setValue, LC!Global, KindOf
  <2> HIDE DEF w
  <2>4. QED  BY <2>2, <2>3, WithIn
<1>5. CASE DOMAIN map # {} /\ ~("Global" \in DOMAIN map /\ map["Global"] = v) /\ ~(t = "Format" /\ l \in DOMAIN map)
  <2>1. LC!setValue(map, t, l, v) = LC!With(map, l, v)
    BY <1>5 DEF LC!setValue, LC!Global
  <2>2. QED  BY <2>1, WithIn
<1>6. QED  BY <1>2, <1>3, <1>4, <1>5

\* The first value of a type is Global's.
LEMMA FirstValue ==
  ASSUME LC!LogConfigAssumption, NEW t, NEW map \in MapsTo(KindOf(t)), NEW l \in LC!Levels, NEW v \in KindOf(t),
         DOMAIN map = {}
  PROVE  DOMAIN LC!setValue(map, t, l, v) = {"Global"} /\ LC!setValue(map, t, l, v)["Global"] = v
<1>1. LC!setValue(map, t, l, v) = LC!With(map, "Global", v)
  BY DEF LC!setValue, LC!Global
<1>2. QED  BY <1>1 DEF LC!With

\* A level's value is read for it, and no other level's is changed.
LEMMA LevelValue ==
  ASSUME LC!LogConfigAssumption, NEW t, NEW map \in MapsTo(KindOf(t)), NEW l \in LC!Levels, NEW v \in KindOf(t),
         "Global" \in DOMAIN map, l # "Global", l \notin DOMAIN map
  PROVE  /\ LC!Lookup(LC!setValue(map, t, l, v), l) = v
         /\ DOMAIN LC!setValue(map, t, l, v) \in SUBSET (DOMAIN map \cup {l})
         /\ "Global" \in DOMAIN LC!setValue(map, t, l, v)
         /\ \A k \in LC!Levels \ {l} : LC!Lookup(LC!setValue(map, t, l, v), k) = LC!Lookup(map, k)
<1>1. CASE map["Global"] = v
  <2>1. LC!setValue(map, t, l, v) = map
    BY <1>1 DEF LC!setValue, LC!Global
  <2>2. QED  BY <1>1, <2>1 DEF LC!Lookup, LC!Global
<1>2. CASE map["Global"] # v
  <2>1. LC!setValue(map, t, l, v) = LC!With(map, l, v)
    BY <1>2 DEF LC!setValue, LC!Global
  <2> DEFINE w == LC!With(map, l, v)
  <2>2. DOMAIN w = DOMAIN map \cup {l} /\ w[l] = v /\ \A k \in DOMAIN map : k # l => w[k] = map[k]
    BY DEF LC!With
  <2> HIDE DEF w
  <2>3. LC!Lookup(w, l) = v /\ \A k \in LC!Levels \ {l} : LC!Lookup(w, k) = LC!Lookup(map, k)
    BY <2>2 DEF LC!Lookup, LC!Global
  <2>4. QED  BY <2>1, <2>2, <2>3 DEF w
<1>3. QED  BY <1>1, <1>2

\* Global's value is the last one set, but for a LogFormat.
LEMMA GlobalValue ==
  ASSUME LC!LogConfigAssumption, NEW t, NEW map \in MapsTo(KindOf(t)), NEW v \in KindOf(t), t # "Format"
  PROVE  /\ "Global" \in DOMAIN LC!setValue(map, t, "Global", v)
         /\ LC!setValue(map, t, "Global", v)["Global"] = v
<1>1. CASE DOMAIN map # {} /\ "Global" \in DOMAIN map /\ map["Global"] = v
  BY <1>1 DEF LC!setValue, LC!Global
<1>2. CASE ~(DOMAIN map # {} /\ "Global" \in DOMAIN map /\ map["Global"] = v)
  <2>1. LC!setValue(map, t, "Global", v) = LC!With(map, "Global", v)
    BY <1>2 DEF LC!setValue, LC!Global
  <2>2. QED  BY <2>1 DEF LC!With
<1>3. QED  BY <1>1, <1>2

\* Where a file cannot be opened ToFile goes off, and nothing else happens.
LEMMA OffValue ==
  ASSUME LC!LogConfigAssumption, NEW map \in MapsTo(BOOLEAN), NEW l \in LC!Levels, "Global" \in DOMAIN map
  PROVE  /\ "Global" \in DOMAIN LC!setValue(map, "ToFile", l, FALSE)
         /\ \A k \in LC!Levels :
              \/ LC!Lookup(LC!setValue(map, "ToFile", l, FALSE), k) = LC!Lookup(map, k)
              \/ LC!Lookup(LC!setValue(map, "ToFile", l, FALSE), k) = FALSE /\ l \in {k, "Global"}
<1>1. CASE map["Global"] = FALSE
  <2>1. LC!setValue(map, "ToFile", l, FALSE) = map
    BY <1>1 DEF LC!setValue, LC!Global
  <2>2. QED  BY <2>1
<1>2. CASE map["Global"] # FALSE
  <2> DEFINE w == LC!With(map, l, FALSE)
  <2>1. LC!setValue(map, "ToFile", l, FALSE) = w
    BY <1>2 DEF LC!setValue, LC!Global
  <2>2. DOMAIN w = DOMAIN map \cup {l} /\ w[l] = FALSE /\ \A k \in DOMAIN map : k # l => w[k] = map[k]
    BY DEF LC!With
  <2> HIDE DEF w
  <2>3. \A k \in LC!Levels : \/ LC!Lookup(w, k) = LC!Lookup(map, k)
                             \/ LC!Lookup(w, k) = FALSE /\ l \in {k, "Global"}
    BY <2>2 DEF LC!Lookup, LC!Global
  <2>4. QED  BY <2>1, <2>2, <2>3
<1>3. QED  BY <1>1, <1>2

\* The first loop of TypedConfigurations::build.
Built(m, c) ==
  IF c.type = "Filename" THEN m
  ELSE [m EXCEPT ![c.type] = LC!setValue(@, c.type, LC!LevelOf(c), LC!Convert(c.type, c.level, c.value))]

BuildEntries(list) == [p \in Typeds \X (1 .. Len(list)) |-> Built(p[1], list[p[2]])]
NoMaps == [t \in TypesKept |-> <<>>]

LEMMA NoMapsIn == NoMaps \in Typeds
<1>1. ASSUME NEW V
      PROVE  <<>> \in MapsTo(V)
  <2>1. <<>> \in [{} -> V] /\ {} \in SUBSET LC!Levels
    OBVIOUS
  <2>2. QED  BY <2>1 DEF MapsTo
<1>2. \A t \in TypesKept : <<>> \in MapsTo(KindOf(t))
  BY <1>1
<1>3. QED  BY <1>2 DEF NoMaps, Typeds

LEMMA MapReplaced ==
  ASSUME NEW m \in Typeds, NEW t \in TypesKept, NEW map \in MapsTo(KindOf(t))
  PROVE  /\ [m EXCEPT ![t] = map] \in Typeds /\ [m EXCEPT ![t] = map][t] = map
         /\ \A u \in TypesKept : u # t => [m EXCEPT ![t] = map][u] = m[u]
<1>1. map \in UNION {MapsTo(KindOf(u)) : u \in TypesKept}
  OBVIOUS
<1> DEFINE All == UNION {MapsTo(KindOf(u)) : u \in TypesKept}
           w == [m EXCEPT ![t] = map]
<1>2. m \in [TypesKept -> All] /\ \A u \in TypesKept : m[u] \in MapsTo(KindOf(u))
  BY DEF Typeds
<1> HIDE DEF All
<1>3. w \in [TypesKept -> All] /\ w[t] = map /\ \A u \in TypesKept : u # t => w[u] = m[u]
  BY <1>1, <1>2 DEF All
<1> HIDE DEF w
<1>4. \A u \in TypesKept : w[u] \in MapsTo(KindOf(u))
  BY <1>2, <1>3
<1>5. QED  BY <1>3, <1>4 DEF Typeds, w, All

LEMMA BuiltIn ==
  ASSUME LC!LogConfigAssumption, NEW m \in Typeds, NEW c \in Entries
  PROVE  /\ Built(m, c) \in Typeds
         /\ \A u \in TypesKept : u # c.type => Built(m, c)[u] = m[u]
         /\ c.type = "Filename" => Built(m, c) = m
         /\ c.type # "Filename" =>
              Built(m, c)[c.type] = LC!setValue(m[c.type], c.type, LC!LevelOf(c), LC!Convert(c.type, c.level, c.value))
<1>1. c.level \in LC!Levels /\ c.type \in Types /\ c.value \in LC!ValuesOf(c.type) /\ c.type \in TypesKept
  BY DEF Entries, TypesKept
<1>2. CASE c.type = "Filename"
  BY <1>2 DEF Built
<1>3. CASE c.type # "Filename"
  <2> DEFINE t == c.type
             map == LC!setValue(m[t], t, LC!LevelOf(c), LC!Convert(t, c.level, c.value))
  <2>1. LC!LevelOf(c) \in LC!Levels
    BY <1>1, ConfConstants DEF LC!LevelOf, LC!Global
  <2>2. LC!Convert(t, c.level, c.value) \in KindOf(t)
    BY <1>1, ConvertsTo
  <2>3. m[t] \in MapsTo(KindOf(t))
    BY <1>1 DEF Typeds
  <2>4. map \in MapsTo(KindOf(t))
    BY <2>1, <2>2, <2>3, SetsValue
  <2>5. Built(m, c) = [m EXCEPT ![t] = map]
    BY <1>3 DEF Built
  <2> HIDE DEF map, t
  <2>6. t \in TypesKept
    BY <1>1 DEF t
  <2>7. [m EXCEPT ![t] = map] \in Typeds /\ [m EXCEPT ![t] = map][t] = map
    BY <2>4, <2>6, MapReplaced
  <2>8. \A u \in TypesKept : u # t => [m EXCEPT ![t] = map][u] = m[u]
    BY <2>4, <2>6, MapReplaced
  <2>9. QED  BY <1>3, <2>5, <2>7, <2>8 DEF map, t
<1>4. QED  BY <1>2, <1>3

LEMMA BuildSteps ==
  ASSUME LC!LogConfigAssumption, NEW list \in Seq(Entries)
  PROVE  Reaches(BuildEntries(list), NoMaps, Typeds, Len(list), LC!BuildTypes(list))
<1> DEFINE n == Len(list)
           S == Typeds
           F == BuildEntries(list)
           Op(p, x) == Built(p, x)
           base == NoMaps
           D(g) == [k \in SUBSET (DOMAIN list) |->
                      IF k = {} THEN base ELSE Op(g[k \ {Largest(k)}], list[Largest(k)])]
           G == CHOOSE g : g = D(g)
<1>1. n \in Nat /\ DOMAIN list = 1 .. n /\ base \in S
  BY NoMapsIn
<1>2. LC!BuildTypes(list) = G[DOMAIN list]
  BY DEF LC!BuildTypes, Built, NoMaps, TypesKept, LC!FoldLeft, LC!MapThenFoldSet, LC!Max, Largest
<1>3. \A a \in S, i \in 1 .. n : F[<<a, i>>] = Op(a, list[i])
  BY <1>1 DEF BuildEntries
<1>4. \A a \in S, i \in 1 .. n : Op(a, list[i]) \in S
  BY <1>1, BuiltIn
<1> HIDE DEF F, n, Op, base, S
<1>0. StepsIn(F, S, n)
  BY <1>1, <1>3, <1>4, Zenon DEF StepsIn
<1>5. PICK g : Iterates(g, F, base, S, n)
  BY <1>0, <1>1, IterExists
<1>6. \A k \in SUBSET (1 .. n) : k # {} => Largest(k) \in 1 .. n /\ k \ {Largest(k)} \in SUBSET (1 .. n)
  BY <1>1, LargestIn
<1>7. g = D(g)
  <2>1. g \in [SUBSET (1 .. n) -> S]
    BY <1>5 DEF Iterates
  <2>2. ASSUME NEW k \in SUBSET (1 .. n)
        PROVE  g[k] = IF k = {} THEN base ELSE Op(g[k \ {Largest(k)}], list[Largest(k)])
    <3>1. g[k] = IF k = {} THEN base ELSE F[<<g[k \ {Largest(k)}], Largest(k)>>]
      BY <1>5 DEF Iterates
    <3>2. k # {} => g[k \ {Largest(k)}] \in S /\ Largest(k) \in 1 .. n
      BY <1>6, <2>1
    <3>3. QED  BY <1>3, <3>1, <3>2
  <2>3. QED  BY <1>1, <2>1, <2>2
<1>8. G = D(G)
  BY <1>7
<1> HIDE DEF G
<1>9. Unrolls(G, F, base, S, n)
  BY <1>1, <1>3, <1>6, <1>8 DEF Unrolls
<1>10. Reaches(F, base, S, n, G[1 .. n])
  BY <1>0, <1>1, <1>9, FoldUnrolls
<1>11. QED  BY <1>1, <1>2, <1>10 DEF F, n, base, S

\* The maps after the first k entries of the list.
AsListed(list, k, m, t) ==
  /\ \A l \in DOMAIN m[t] : \E i \in 1 .. k : list[i].level = l /\ list[i].type = t
  /\ \A i \in 1 .. k : list[i].type = t =>
       "Global" \in DOMAIN m[t] /\ LC!Lookup(m[t], list[i].level) = LC!Convert(t, list[i].level, list[i].value)

LastWidth(list, k, i) ==
  list[i].type = "MillisecondsWidth" /\ \A j \in 1 .. k : j > i => list[j].type # "MillisecondsWidth"

TypesBuilt(list, k, m) ==
  /\ DOMAIN m["Filename"] = {}
  /\ \A t \in Types \ {"Filename", "MillisecondsWidth"} : AsListed(list, k, m, t)
  /\ \A i \in 1 .. k : LastWidth(list, k, i) => m["MillisecondsWidth"]["Global"] = list[i].value

LEMMA TypeBuilt ==
  ASSUME LC!LogConfigAssumption, NEW list \in Own, NEW i \in 1 .. Len(list), NEW m \in Typeds,
         NEW t \in Types \ {"Filename", "MillisecondsWidth"}, AsListed(list, i - 1, m, t)
  PROVE  AsListed(list, i, Built(m, list[i]), t)
<1> DEFINE n == Len(list)
           c == list[i]
           w == Built(m, c)
           map == m[t]
           new == w[t]
<1>1. /\ n \in Nat /\ i \in 1 .. n /\ i - 1 \in Nat /\ \A j \in 1 .. n : list[j] \in Entries
      /\ Listed(list) /\ GlobalFirst(list)
  BY DEF Own
<1>2. c \in Entries /\ c.level \in LC!Levels /\ c.type \in Types /\ c.value \in LC!ValuesOf(c.type)
      /\ t \in TypesKept
  BY <1>1 DEF Entries, TypesKept
<1>3. \A j \in 1 .. i : j \in 1 .. i - 1 \/ j = i
  BY <1>1
<1>4. /\ \A l \in DOMAIN map : \E j \in 1 .. i - 1 : list[j].level = l /\ list[j].type = t
      /\ \A j \in 1 .. i - 1 : list[j].type = t =>
           "Global" \in DOMAIN map /\ LC!Lookup(map, list[j].level) = LC!Convert(t, list[j].level, list[j].value)
  BY DEF AsListed
<1>5. CASE c.type # t
  <2>1. new = map
    BY <1>2, <1>5, BuiltIn
  <2> HIDE DEF w, map
  <2>2. /\ \A l \in DOMAIN new : \E j \in 1 .. i : list[j].level = l /\ list[j].type = t
        /\ \A j \in 1 .. i : list[j].type = t =>
             "Global" \in DOMAIN new /\ LC!Lookup(new, list[j].level) = LC!Convert(t, list[j].level, list[j].value)
    <3>1. \A j \in 1 .. i - 1 : j \in 1 .. i
      BY <1>1
    <3>2. QED  BY <1>3, <1>4, <1>5, <2>1, <3>1
  <2>3. QED  BY <2>2 DEF AsListed, w
<1>6. CASE c.type = t
  <2> DEFINE l == c.level
             v == LC!Convert(t, l, c.value)
  <2>1. new = LC!setValue(map, t, l, v)
    BY <1>2, <1>6, BuiltIn DEF LC!LevelOf
  <2>2. map \in MapsTo(KindOf(t)) /\ v \in KindOf(t) /\ l \in LC!Levels
    BY <1>2, <1>6, ConvertsTo DEF Typeds
  <2>3. \A j \in 1 .. i - 1 : list[j].type = t => list[j].level # l
    BY <1>1, <1>6 DEF Listed
  <2>4. l \notin DOMAIN map
    BY <1>4, <2>3
  <2> HIDE DEF w, v, map
  <2>5. CASE l = "Global"
    <3>1. \A j \in 1 .. i - 1 : list[j].type # t
      <4> SUFFICES ASSUME NEW j \in 1 .. i - 1, list[j].type = t PROVE FALSE
        OBVIOUS
      <4>1. "Global" \in DOMAIN map
        BY <1>4
      <4>2. QED  BY <2>4, <2>5, <4>1
    <3>2. DOMAIN map = {}
      BY <1>4, <3>1
    <3>3. DOMAIN new = {"Global"} /\ new["Global"] = v
      BY <2>1, <2>2, <3>2, FirstValue
    <3>4. LC!Lookup(new, l) = v
      BY <2>5, <3>3 DEF LC!Lookup, LC!Global
    <3>5. \A k \in DOMAIN new : \E j \in 1 .. i : list[j].level = k /\ list[j].type = t
      <4>1. i \in 1 .. i
        BY <1>1
      <4>2. QED  BY <1>6, <2>5, <3>3, <4>1
    <3>6. \A j \in 1 .. i : list[j].type = t => j = i
      BY <1>3, <3>1
    <3>7. QED  BY <2>5, <3>3, <3>4, <3>5, <3>6 DEF AsListed, w, v
  <2>6. CASE l # "Global"
    <3>1. PICK g \in 1 .. i - 1 : list[g].level = "Global" /\ list[g].type = t
      BY <1>1, <1>6, <2>6 DEF GlobalFirst
    <3>2. "Global" \in DOMAIN map
      BY <1>4, <3>1
    <3>3. /\ LC!Lookup(new, l) = v
          /\ DOMAIN new \in SUBSET (DOMAIN map \cup {l})
          /\ "Global" \in DOMAIN new
          /\ \A k \in LC!Levels \ {l} : LC!Lookup(new, k) = LC!Lookup(map, k)
      <4> HIDE DEF c, l
      <4>1. QED  BY <2>1, <2>2, <2>4, <2>6, <3>2, LevelValue
    <3>4. \A k \in DOMAIN new : \E j \in 1 .. i : list[j].level = k /\ list[j].type = t
      <4>1. i \in 1 .. i /\ \A j \in 1 .. i - 1 : j \in 1 .. i
        BY <1>1
      <4>2. QED  BY <1>4, <1>6, <3>3, <4>1
    <3>5. ASSUME NEW j \in 1 .. i, list[j].type = t
          PROVE  LC!Lookup(new, list[j].level) = LC!Convert(t, list[j].level, list[j].value)
      <4>1. CASE j = i
        BY <3>3, <4>1 DEF v
      <4>2. CASE j \in 1 .. i - 1
        <5>1. list[j].level \in LC!Levels \ {l}
          <6>1. j \in 1 .. n
            BY <1>1, <4>2
          <6>2. QED  BY <1>1, <2>3, <3>5, <4>2, <6>1 DEF Entries
        <5>2. QED  BY <1>4, <3>3, <3>5, <4>2, <5>1
      <4>3. QED  BY <1>3, <4>1, <4>2
    <3>6. QED  BY <3>3, <3>4, <3>5 DEF AsListed, w
  <2>7. QED  BY <2>5, <2>6
<1>7. QED  BY <1>5, <1>6

LEMMA EntryBuilt ==
  ASSUME LC!LogConfigAssumption, NEW list \in Own, NEW i \in 1 .. Len(list), NEW m \in Typeds,
         TypesBuilt(list, i - 1, m)
  PROVE  TypesBuilt(list, i, Built(m, list[i]))
<1> DEFINE n == Len(list)
           c == list[i]
           w == Built(m, c)
<1>1. /\ n \in Nat /\ i \in 1 .. n /\ i - 1 \in Nat /\ c \in Entries /\ c.type \in Types
      /\ c.level \in LC!Levels /\ c.value \in LC!ValuesOf(c.type)
  <2>1. c \in Entries
    BY DEF Own
  <2>2. QED  BY <2>1 DEF Own, Entries
<1>2. \A j \in 1 .. i : j \in 1 .. i - 1 \/ j = i
  BY <1>1
<1>3. DOMAIN w["Filename"] = {}
  <2>1. "Filename" \in TypesKept
    BY DEF TypesKept
  <2>2. w["Filename"] = m["Filename"]
    BY <1>1, <2>1, BuiltIn
  <2>3. QED  BY <2>2 DEF TypesBuilt
<1>4. \A t \in Types \ {"Filename", "MillisecondsWidth"} : AsListed(list, i, w, t)
  BY TypeBuilt DEF TypesBuilt
<1>5. ASSUME NEW j \in 1 .. i, LastWidth(list, i, j)
      PROVE  w["MillisecondsWidth"]["Global"] = list[j].value
  <2> DEFINE W == "MillisecondsWidth"
  <2>1. CASE j = i
    <3>1. c.type = W
      BY <1>5, <2>1 DEF LastWidth
    <3>2. w[W] = LC!setValue(m[W], W, "Global", LC!Convert(W, c.level, c.value))
      BY <1>1, <3>1, BuiltIn DEF LC!LevelOf, LC!Global
    <3>3. LC!Convert(W, c.level, c.value) = c.value
      BY DEF LC!Convert
    <3>4. m[W] \in MapsTo(KindOf(W)) /\ c.value \in KindOf(W)
      BY <1>1, <3>1, <3>3, ConvertsTo DEF Typeds, TypesKept
    <3>5. QED  BY <2>1, <3>2, <3>3, <3>4, GlobalValue
  <2>2. CASE j \in 1 .. i - 1
    <3>1. c.type # W
      BY <1>1, <1>5, <2>2 DEF LastWidth
    <3>2. LastWidth(list, i - 1, j)
      <4>1. \A k \in 1 .. i - 1 : k \in 1 .. i
        BY <1>1
      <4>2. QED  BY <1>5, <4>1 DEF LastWidth
    <3>3. m[W]["Global"] = list[j].value
      BY <2>2, <3>2 DEF TypesBuilt
    <3>4. W \in TypesKept
      <4>1. list[j].type = W /\ list[j] \in Entries
        <5>1. j \in 1 .. n
          BY <1>1, <2>2
        <5>2. QED  BY <1>5, <5>1 DEF LastWidth, Own
      <4>2. QED  BY <4>1 DEF Entries, TypesKept
    <3>5. w[W] = m[W]
      BY <1>1, <3>1, <3>4, BuiltIn
    <3>6. QED  BY <3>3, <3>5
  <2>3. QED  BY <1>2, <2>1, <2>2
<1>6. QED  BY <1>3, <1>4, <1>5 DEF TypesBuilt

LEMMA TypesGoIn ==
  ASSUME LC!LogConfigAssumption, NEW list \in Own
  PROVE  LC!BuildTypes(list) \in Typeds /\ TypesBuilt(list, Len(list), LC!BuildTypes(list))
<1> DEFINE n == Len(list)
           F == BuildEntries(list)
<1>1. n \in Nat /\ n \in 0 .. n /\ list \in Seq(Entries)
  BY DEF Own
<1>2. PICK h : Goes(h, F, NoMaps, Typeds, n) /\ h[n] = LC!BuildTypes(list)
  BY <1>1, BuildSteps DEF Reaches
<1>3. \A i \in 0 .. n : h[i] \in Typeds
  BY <1>2 DEF Goes
<1>4. h[0] = NoMaps /\ \A i \in 1 .. n : i - 1 \in 0 .. n /\ h[i] = Built(h[i - 1], list[i])
  <2>1. \A i \in 1 .. n : i - 1 \in 0 .. n /\ i \in 1 .. n
    BY <1>1
  <2>2. h[0] = NoMaps /\ \A i \in 1 .. n : h[i] = F[<<h[i - 1], i>>]
    BY <1>2 DEF Goes, StepsOf
  <2>3. QED  BY <1>3, <2>1, <2>2 DEF BuildEntries
<1> HIDE DEF F
<1> DEFINE Bad == {i \in 0 .. n : ~TypesBuilt(list, i, h[i])}
<1>5. TypesBuilt(list, 0, NoMaps)
  <2>1. \A t \in TypesKept : NoMaps[t] = <<>>
    BY DEF NoMaps
  <2>2. DOMAIN <<>> = {} /\ 1 .. 0 = {}
    OBVIOUS
  <2>3. QED  BY <2>1, <2>2 DEF TypesBuilt, AsListed, LastWidth, TypesKept
<1>6. Bad \in SUBSET (0 .. n) /\ 0 \notin Bad
  BY <1>4, <1>5
<1>7. ASSUME NEW i \in 1 .. n, i \in Bad
      PROVE  i - 1 \in Bad
  BY <1>3, <1>4, <1>7, EntryBuilt
<1>8. n \notin Bad
  <2> HIDE DEF Bad
  <2>1. QED  BY <1>1, <1>6, <1>7, UpTo
<1>9. QED  BY <1>1, <1>2, <1>3, <1>8

\* The second loop, which opens the files.
StreamMaps == UNION {[D -> BOOLEAN] : D \in SUBSET ConfiguredFiles}
BuildStates == [typed : Typeds, streams : StreamMaps]

Filed(b, c) == IF c.type = "Filename" THEN LC!insertFile(b, c) ELSE b
FileEntries(list) == [p \in BuildStates \X (1 .. Len(list)) |-> Filed(p[1], list[p[2]])]
Start(list, refs) == [typed |-> LC!BuildTypes(list), streams |-> refs]

LevelFor(b, c) == IF DOMAIN b.typed["Filename"] = {} THEN "Global" ELSE c.level
Known(b, c) == LC!Inserted(b.streams, c.value, c.value \in Openable)

LEMMA StreamKnown ==
  ASSUME NEW s \in StreamMaps, NEW f \in ConfiguredFiles, NEW good \in BOOLEAN
  PROVE  /\ LC!Inserted(s, f, good) \in StreamMaps
         /\ f \in DOMAIN LC!Inserted(s, f, good)
         /\ \A g \in DOMAIN s : g \in DOMAIN LC!Inserted(s, f, good) /\ LC!Inserted(s, f, good)[g] = s[g]
<1>1. PICK D \in SUBSET ConfiguredFiles : s \in [D -> BOOLEAN]
  BY DEF StreamMaps
<1>2. CASE f \in DOMAIN s
  BY <1>2 DEF LC!Inserted
<1>3. CASE f \notin DOMAIN s
  <2> DEFINE w == LC!With(s, f, good)
  <2>1. w \in [D \cup {f} -> BOOLEAN] /\ D \cup {f} \in SUBSET ConfiguredFiles
    BY <1>1 DEF LC!With
  <2>2. f \in DOMAIN w /\ \A g \in DOMAIN s : g \in DOMAIN w /\ w[g] = s[g]
    BY <1>3 DEF LC!With
  <2>3. LC!Inserted(s, f, good) = w
    BY <1>3 DEF LC!Inserted
  <2> HIDE DEF w
  <2>4. w \in StreamMaps
    BY <2>1 DEF StreamMaps
  <2>5. QED  BY <2>2, <2>3, <2>4
<1>4. QED  BY <1>2, <1>3

\* TypedConfigurations::insertFile, whatever it finds.
LEMMA FileInserted ==
  ASSUME LC!LogConfigAssumption, NEW b \in BuildStates, NEW c \in Entries, c.type = "Filename"
  PROVE  /\ LC!insertFile(b, c) \in BuildStates
         /\ LC!insertFile(b, c).streams = Known(b, c)
         /\ LC!insertFile(b, c).typed["Filename"] = LC!Inserted(b.typed["Filename"], LevelFor(b, c), c.value)
         /\ \A u \in TypesKept \ {"Filename", "ToFile"} : LC!insertFile(b, c).typed[u] = b.typed[u]
         /\ LC!insertFile(b, c).typed["ToFile"] =
              IF Known(b, c)[c.value] THEN b.typed["ToFile"]
              ELSE LC!setValue(b.typed["ToFile"], "ToFile", LevelFor(b, c), FALSE)
<1> DEFINE l == LevelFor(b, c)
           w == LC!insertFile(b, c)
           known == Known(b, c)
           file1 == LC!Inserted(b.typed["Filename"], l, c.value)
           named == [b.typed EXCEPT !["Filename"] = file1]
           off == LC!setValue(named["ToFile"], "ToFile", l, FALSE)
           offs == [named EXCEPT !["ToFile"] = off]
<1>1. /\ b.typed \in Typeds /\ b.streams \in StreamMaps /\ c.level \in LC!Levels /\ c.value \in ConfiguredFiles
      /\ c.value \in Settable /\ l \in LC!Levels /\ "Filename" \in TypesKept /\ "ToFile" \in TypesKept
  BY ConfConstants DEF BuildStates, Entries, LC!ValuesOf, Settable, LevelFor, TypesKept
<1>2. w = [typed |-> IF known[c.value] THEN named ELSE offs, streams |-> known]
  BY DEF LC!insertFile, LevelFor, Known, LC!Global
<1>3. known \in StreamMaps /\ c.value \in DOMAIN known
  <2>1. (c.value \in Openable) \in BOOLEAN
    OBVIOUS
  <2>2. QED  BY <1>1, <2>1, StreamKnown DEF Known
<1>4. KindOf("Filename") = Settable /\ KindOf("ToFile") = BOOLEAN
  BY DEF KindOf
<1>5. b.typed["Filename"] \in MapsTo(KindOf("Filename")) /\ b.typed["ToFile"] \in MapsTo(KindOf("ToFile"))
  BY <1>1 DEF Typeds
<1>6. file1 \in MapsTo(KindOf("Filename"))
  <2>1. LC!With(b.typed["Filename"], l, c.value) \in MapsTo(KindOf("Filename"))
    BY <1>1, <1>4, <1>5, WithIn
  <2>2. QED  BY <1>5, <2>1 DEF LC!Inserted
<1> HIDE DEF l, file1, known
<1>7. /\ named \in Typeds /\ named["Filename"] = file1
  BY <1>1, <1>6, MapReplaced
<1>8. \A u \in TypesKept : u # "Filename" => named[u] = b.typed[u]
  BY <1>1, <1>6, MapReplaced
<1>9. named["ToFile"] = b.typed["ToFile"]
  BY <1>1, <1>8
<1> HIDE DEF named
<1>10. off \in MapsTo(KindOf("ToFile"))
  <2>1. FALSE \in KindOf("ToFile")
    BY <1>4
  <2>2. QED  BY <1>1, <1>5, <1>9, <2>1, SetsValue
<1> HIDE DEF off
<1>11. offs \in Typeds /\ offs["ToFile"] = off
  BY <1>1, <1>7, <1>10, MapReplaced
<1>12. \A u \in TypesKept : u # "ToFile" => offs[u] = named[u]
  BY <1>1, <1>7, <1>10, MapReplaced
<1> HIDE DEF offs, w
<1>13. w \in BuildStates /\ w.streams = known /\ w.typed = IF known[c.value] THEN named ELSE offs
  BY <1>2, <1>3, <1>7, <1>11 DEF BuildStates
<1>14. /\ w.typed["Filename"] = file1
       /\ \A u \in TypesKept \ {"Filename", "ToFile"} : w.typed[u] = b.typed[u]
       /\ w.typed["ToFile"] = IF known[c.value] THEN b.typed["ToFile"] ELSE off
  BY <1>1, <1>7, <1>8, <1>9, <1>11, <1>12, <1>13
<1>15. off = LC!setValue(b.typed["ToFile"], "ToFile", l, FALSE)
  BY <1>9 DEF off
<1>16. QED  BY <1>13, <1>14, <1>15 DEF w, l, known, file1

LEMMA FiledIn ==
  ASSUME LC!LogConfigAssumption, NEW b \in BuildStates, NEW c \in Entries
  PROVE  Filed(b, c) \in BuildStates
BY FileInserted DEF Filed

LEMMA FileSteps ==
  ASSUME LC!LogConfigAssumption, NEW list \in Own, NEW refs \in StreamMaps
  PROVE  Reaches(FileEntries(list), Start(list, refs), BuildStates, Len(list), LC!build(list, refs))
<1> DEFINE n == Len(list)
           S == BuildStates
           F == FileEntries(list)
           Op(p, x) == Filed(p, x)
           base == Start(list, refs)
           D(g) == [k \in SUBSET (DOMAIN list) |->
                      IF k = {} THEN base ELSE Op(g[k \ {Largest(k)}], list[Largest(k)])]
           G == CHOOSE g : g = D(g)
<1>1. n \in Nat /\ DOMAIN list = 1 .. n /\ base \in S
  BY TypesGoIn DEF Own, Start, BuildStates
<1>2. LC!build(list, refs) = G[DOMAIN list]
  BY DEF LC!build, Filed, Start, LC!FoldLeft, LC!MapThenFoldSet, LC!Max, Largest
<1>3. \A a \in S, i \in 1 .. n : F[<<a, i>>] = Op(a, list[i])
  BY <1>1 DEF FileEntries
<1>4. \A a \in S, i \in 1 .. n : Op(a, list[i]) \in S
  <2>1. \A i \in 1 .. n : list[i] \in Entries
    BY <1>1 DEF Own
  <2>2. QED  BY <2>1, FiledIn
<1> HIDE DEF F, n, Op, base, S
<1>0. StepsIn(F, S, n)
  BY <1>1, <1>3, <1>4, Zenon DEF StepsIn
<1>5. PICK g : Iterates(g, F, base, S, n)
  BY <1>0, <1>1, IterExists
<1>6. \A k \in SUBSET (1 .. n) : k # {} => Largest(k) \in 1 .. n /\ k \ {Largest(k)} \in SUBSET (1 .. n)
  BY <1>1, LargestIn
<1>7. g = D(g)
  <2>1. g \in [SUBSET (1 .. n) -> S]
    BY <1>5 DEF Iterates
  <2>2. ASSUME NEW k \in SUBSET (1 .. n)
        PROVE  g[k] = IF k = {} THEN base ELSE Op(g[k \ {Largest(k)}], list[Largest(k)])
    <3>1. g[k] = IF k = {} THEN base ELSE F[<<g[k \ {Largest(k)}], Largest(k)>>]
      BY <1>5 DEF Iterates
    <3>2. k # {} => g[k \ {Largest(k)}] \in S /\ Largest(k) \in 1 .. n
      BY <1>6, <2>1
    <3>3. QED  BY <1>3, <3>1, <3>2
  <2>3. QED  BY <1>1, <2>1, <2>2
<1>8. G = D(G)
  BY <1>7
<1> HIDE DEF G
<1>9. Unrolls(G, F, base, S, n)
  BY <1>1, <1>3, <1>6, <1>8 DEF Unrolls
<1>10. Reaches(F, base, S, n, G[1 .. n])
  BY <1>0, <1>1, <1>9, FoldUnrolls
<1>11. QED  BY <1>1, <1>2, <1>10 DEF F, n, base, S

\* The files after the first k entries of the list, when the maps m0 were built.
Off(b, l) ==
  /\ LC!Lookup(b.typed["ToFile"], l) = FALSE
  /\ \E k \in {l, "Global"} \cap DOMAIN b.typed["Filename"] : ~b.streams[b.typed["Filename"][k]]

FilesBuilt(list, k, m0, b) ==
  /\ \A t \in TypesKept \ {"Filename", "ToFile"} : b.typed[t] = m0[t]
  /\ \A l \in DOMAIN b.typed["Filename"] :
       /\ \E i \in 1 .. k : list[i].level = l /\ list[i].type = "Filename"
       /\ b.typed["Filename"][l] \in DOMAIN b.streams
  /\ \A i \in 1 .. k : list[i].type = "Filename" =>
       /\ "Global" \in DOMAIN b.typed["Filename"] /\ list[i].level \in DOMAIN b.typed["Filename"]
       /\ b.typed["Filename"][list[i].level] = list[i].value
  /\ "Global" \in DOMAIN m0["ToFile"] =>
       /\ "Global" \in DOMAIN b.typed["ToFile"]
       /\ \A l \in LC!Levels : LC!Lookup(b.typed["ToFile"], l) = LC!Lookup(m0["ToFile"], l) \/ Off(b, l)

LEMMA FileBuilt ==
  ASSUME LC!LogConfigAssumption, NEW list \in Own, NEW i \in 1 .. Len(list), NEW m0, NEW b \in BuildStates,
         FilesBuilt(list, i - 1, m0, b)
  PROVE  FilesBuilt(list, i, m0, Filed(b, list[i]))
<1> DEFINE n == Len(list)
           c == list[i]
           F == b.typed["Filename"]
           l == c.level
<1>1. /\ n \in Nat /\ i \in 1 .. n /\ i - 1 \in Nat /\ \A j \in 1 .. n : list[j] \in Entries
      /\ Listed(list) /\ GlobalFirst(list) /\ c \in Entries /\ l \in LC!Levels
  BY DEF Own, Entries
<1>2. i \in 1 .. i /\ \A j \in 1 .. i : j \in 1 .. i - 1 \/ j = i
  BY <1>1
<1>3. \A j \in 1 .. i - 1 : j \in 1 .. i
  BY <1>1
<1>4. CASE c.type # "Filename"
  <2>1. Filed(b, c) = b
    BY <1>4 DEF Filed
  <2>2. FilesBuilt(list, i, m0, b)
    BY <1>2, <1>3, <1>4 DEF FilesBuilt
  <2>3. QED  BY <2>1, <2>2
<1>5. CASE c.type = "Filename"
  <2> DEFINE w == LC!insertFile(b, c)
             known == Known(b, c)
             W == w.typed["Filename"]
  <2>1. Filed(b, c) = w
    BY <1>5 DEF Filed
  <2>2. \A j \in 1 .. i - 1 : list[j].type = "Filename" => list[j].level # l
    BY <1>1, <1>5 DEF Listed
  <2>3. l \notin DOMAIN F
    BY <2>2 DEF FilesBuilt
  <2>4. l # "Global" => "Global" \in DOMAIN F
    <3>1. l # "Global" => \E j \in 1 .. i - 1 : list[j].level = "Global" /\ list[j].type = "Filename"
      BY <1>1, <1>5 DEF GlobalFirst
    <3>2. QED  BY <3>1 DEF FilesBuilt
  <2>5. LevelFor(b, c) = l
    BY <2>4 DEF LevelFor
  <2>6. /\ w.streams = known /\ W = LC!Inserted(F, l, c.value)
        /\ \A u \in TypesKept \ {"Filename", "ToFile"} : w.typed[u] = b.typed[u]
        /\ w.typed["ToFile"] = IF known[c.value] THEN b.typed["ToFile"]
                               ELSE LC!setValue(b.typed["ToFile"], "ToFile", l, FALSE)
    <3> DEFINE x == LC!insertFile(b, c)
    <3> HIDE DEF c
    <3>1. x.streams = Known(b, c)
      BY <1>1, <1>5, FileInserted
    <3>2. x.typed["Filename"] = LC!Inserted(b.typed["Filename"], LevelFor(b, c), c.value)
      BY <1>1, <1>5, FileInserted
    <3>3. \A u \in TypesKept \ {"Filename", "ToFile"} : x.typed[u] = b.typed[u]
      BY <1>1, <1>5, FileInserted
    <3>4. x.typed["ToFile"] = IF Known(b, c)[c.value] THEN b.typed["ToFile"]
                              ELSE LC!setValue(b.typed["ToFile"], "ToFile", LevelFor(b, c), FALSE)
      BY <1>1, <1>5, FileInserted
    <3> HIDE DEF x
    <3>5. x = w
      BY DEF x
    <3>6. QED  BY <2>5, <3>1, <3>2, <3>3, <3>4, <3>5
  <2>7. /\ c.value \in DOMAIN known
        /\ \A g \in DOMAIN b.streams : g \in DOMAIN known /\ known[g] = b.streams[g]
    <3>1. b.streams \in StreamMaps /\ c.value \in ConfiguredFiles /\ (c.value \in Openable) \in BOOLEAN
      BY <1>1, <1>5 DEF BuildStates, Entries, LC!ValuesOf
    <3>2. QED  BY <3>1, StreamKnown DEF Known
  <2>8. DOMAIN W = DOMAIN F \cup {l} /\ W[l] = c.value /\ \A k \in DOMAIN F : W[k] = F[k]
    <3>1. W = LC!With(F, l, c.value)
      BY <2>3, <2>6 DEF LC!Inserted
    <3> HIDE DEF F, l, W, w
    <3>2. QED  BY <2>3, <3>1 DEF LC!With
  <2> HIDE DEF w, known
  <2>9. \A t \in TypesKept \ {"Filename", "ToFile"} : w.typed[t] = m0[t]
    BY <2>6 DEF FilesBuilt
  <2>10. ASSUME NEW k \in DOMAIN W
         PROVE  /\ \E j \in 1 .. i : list[j].level = k /\ list[j].type = "Filename"
                /\ W[k] \in DOMAIN w.streams
    <3>1. CASE k = l
      BY <1>2, <1>5, <2>6, <2>7, <2>8, <3>1
    <3>2. CASE k \in DOMAIN F
      BY <1>3, <2>6, <2>7, <2>8, <3>2 DEF FilesBuilt
    <3>3. QED  BY <2>8, <3>1, <3>2
  <2>11. ASSUME NEW j \in 1 .. i, list[j].type = "Filename"
         PROVE  /\ "Global" \in DOMAIN W /\ list[j].level \in DOMAIN W
                /\ W[list[j].level] = list[j].value
    <3>1. CASE j = i
      BY <2>4, <2>8, <3>1
    <3>2. CASE j \in 1 .. i - 1
      <4>1. "Global" \in DOMAIN F /\ list[j].level \in DOMAIN F /\ F[list[j].level] = list[j].value
        BY <2>11, <3>2 DEF FilesBuilt
      <4>2. QED  BY <2>8, <4>1
    <3>3. QED  BY <1>2, <3>1, <3>2
  <2>12. ASSUME "Global" \in DOMAIN m0["ToFile"]
         PROVE  /\ "Global" \in DOMAIN w.typed["ToFile"]
                /\ \A k \in LC!Levels : LC!Lookup(w.typed["ToFile"], k) = LC!Lookup(m0["ToFile"], k) \/ Off(w, k)
    <3> DEFINE A == b.typed["ToFile"]
               B == w.typed["ToFile"]
    <3>1. /\ "Global" \in DOMAIN A
          /\ \A k \in LC!Levels : LC!Lookup(A, k) = LC!Lookup(m0["ToFile"], k) \/ Off(b, k)
      BY <2>12 DEF FilesBuilt
    <3>2. \A k \in LC!Levels : Off(b, k) /\ LC!Lookup(B, k) = LC!Lookup(A, k) => Off(w, k)
      <4> SUFFICES ASSUME NEW k \in LC!Levels, Off(b, k), LC!Lookup(B, k) = LC!Lookup(A, k) PROVE Off(w, k)
        OBVIOUS
      <4>1. LC!Lookup(B, k) = FALSE
        BY DEF Off
      <4>2. PICK g \in {k, "Global"} \cap DOMAIN F : ~b.streams[F[g]]
        BY DEF Off
      <4>3. g \in DOMAIN W /\ W[g] = F[g] /\ F[g] \in DOMAIN b.streams
        BY <2>8, <4>2 DEF FilesBuilt
      <4>4. ~w.streams[W[g]]
        BY <2>6, <2>7, <4>2, <4>3
      <4>5. QED  BY <4>1, <4>2, <4>3, <4>4 DEF Off
    <3>3. CASE known[c.value]
      <4>1. B = A
        BY <2>6, <3>3
      <4>2. QED  BY <3>1, <3>2, <4>1
    <3>4. CASE ~known[c.value]
      <4>1. B = LC!setValue(A, "ToFile", l, FALSE)
        BY <2>6, <3>4
      <4>2. A \in MapsTo(BOOLEAN)
        BY DEF BuildStates, Typeds, TypesKept, KindOf
      <4>3. /\ "Global" \in DOMAIN B
            /\ \A k \in LC!Levels :
                 \/ LC!Lookup(B, k) = LC!Lookup(A, k)
                 \/ LC!Lookup(B, k) = FALSE /\ l \in {k, "Global"}
        <5> HIDE DEF A, B, l
        <5>1. l \in LC!Levels /\ "Global" \in DOMAIN A
          BY <1>1, <3>1
        <5>2. QED  BY <4>1, <4>2, <5>1, OffValue
      <4>4. \A k \in LC!Levels : LC!Lookup(B, k) = FALSE /\ l \in {k, "Global"} => Off(w, k)
        <5>1. l \in DOMAIN W /\ ~w.streams[W[l]]
          BY <2>6, <2>8, <3>4
        <5>2. QED  BY <5>1 DEF Off
      <4>5. QED  BY <3>1, <3>2, <4>3, <4>4
    <3>5. QED  BY <3>3, <3>4
  <2>13. FilesBuilt(list, i, m0, w)
    BY <2>9, <2>10, <2>11, <2>12 DEF FilesBuilt
  <2>14. QED  BY <2>1, <2>13
<1>6. QED  BY <1>4, <1>5

LEMMA FilesGoIn ==
  ASSUME LC!LogConfigAssumption, NEW list \in Own, NEW refs \in StreamMaps
  PROVE  /\ LC!build(list, refs) \in BuildStates
         /\ FilesBuilt(list, Len(list), LC!BuildTypes(list), LC!build(list, refs))
<1> DEFINE n == Len(list)
           F == FileEntries(list)
           m0 == LC!BuildTypes(list)
<1>1. n \in Nat /\ n \in 0 .. n
  BY DEF Own
<1>2. PICK h : Goes(h, F, Start(list, refs), BuildStates, n) /\ h[n] = LC!build(list, refs)
  BY FileSteps DEF Reaches
<1>3. \A i \in 0 .. n : h[i] \in BuildStates
  BY <1>2 DEF Goes
<1>4. h[0] = Start(list, refs) /\ \A i \in 1 .. n : i - 1 \in 0 .. n /\ h[i] = Filed(h[i - 1], list[i])
  <2>1. \A i \in 1 .. n : i - 1 \in 0 .. n /\ i \in 1 .. n
    BY <1>1
  <2>2. h[0] = Start(list, refs) /\ \A i \in 1 .. n : h[i] = F[<<h[i - 1], i>>]
    BY <1>2 DEF Goes, StepsOf
  <2>3. QED  BY <1>3, <2>1, <2>2 DEF FileEntries
<1> HIDE DEF F
<1>5. FilesBuilt(list, 0, m0, Start(list, refs))
  <2>1. DOMAIN m0["Filename"] = {}
    BY TypesGoIn DEF TypesBuilt
  <2>2. Start(list, refs).typed = m0 /\ 1 .. 0 = {}
    BY DEF Start
  <2> HIDE DEF m0
  <2>3. QED  BY <2>1, <2>2 DEF FilesBuilt
<1> HIDE DEF m0
<1> DEFINE Bad == {i \in 0 .. n : ~FilesBuilt(list, i, m0, h[i])}
<1>6. Bad \in SUBSET (0 .. n) /\ 0 \notin Bad
  BY <1>4, <1>5
<1>7. ASSUME NEW i \in 1 .. n, i \in Bad
      PROVE  i - 1 \in Bad
  BY <1>3, <1>4, <1>7, FileBuilt
<1>8. n \notin Bad
  <2> HIDE DEF Bad
  <2>1. QED  BY <1>1, <1>6, <1>7, UpTo
<1>9. QED  BY <1>1, <1>2, <1>3, <1>8 DEF m0

\* What is read of the maps m and the streams s is what the list says.
ReadsRight(list, m, s) ==
  /\ \A l \in LC!Range(LevelOrder), t \in Types \ {"MillisecondsWidth"} :
       \/ LC!Lookup(m[t], l) = LC!Convert(t, l, LC!Get(list, l, t))
       \/ t = "ToFile" /\ ~LC!Lookup(m[t], l) /\ \E k \in {l, "Global"} : ~s[LC!Lookup(m["Filename"], k)]
  /\ \A i \in 1 .. Len(list) :
       LastWidth(list, Len(list), i) => LC!Lookup(m["MillisecondsWidth"], "Global") = list[i].value

\* TypedConfigurations::build.
LEMMA BuildReads ==
  ASSUME LC!LogConfigAssumption, NEW list \in Own, NEW refs \in StreamMaps
  PROVE  /\ LC!build(list, refs).typed \in Typeds
         /\ LC!build(list, refs).streams \in StreamMaps
         /\ ReadsRight(list, LC!build(list, refs).typed, LC!build(list, refs).streams)
<1> DEFINE b == LC!build(list, refs)
           n == Len(list)
           m0 == LC!BuildTypes(list)
           m == b.typed
           s == b.streams
<1>1. b \in BuildStates /\ FilesBuilt(list, n, m0, b)
  BY FilesGoIn
<1>2. TypesBuilt(list, n, m0)
  BY TypesGoIn
<1>3. /\ n \in Nat /\ DOMAIN list = 1 .. n /\ Listed(list) /\ Complete(list, Types)
      /\ \A i \in 1 .. n : list[i] \in Entries
  BY DEF Own
<1> HIDE DEF b, m0, n
<1>4. ASSUME NEW l \in LC!Range(LevelOrder), NEW t \in Types \ {"MillisecondsWidth"}
      PROVE  \/ LC!Lookup(m[t], l) = LC!Convert(t, l, LC!Get(list, l, t))
             \/ t = "ToFile" /\ ~LC!Lookup(m[t], l) /\ \E k \in {l, "Global"} : ~s[LC!Lookup(m["Filename"], k)]
  <2>1. l \in LC!Levels /\ t \in TypesKept
    BY DEF LC!Levels, TypesKept
  <2>2. PICK i \in 1 .. n : list[i].level = l /\ list[i].type = t
    BY <1>3, <2>1 DEF Complete, LC!Has, LC!Is
  <2>3. LC!Get(list, l, t) = list[i].value
    BY <1>3, <2>2, GetsEntry DEF n
  <2>4. CASE t = "Filename"
    <3>1. l \in DOMAIN m[t] /\ m[t][l] = list[i].value
      BY <1>1, <2>2, <2>4 DEF FilesBuilt
    <3>2. LC!Convert(t, l, list[i].value) = list[i].value
      BY <2>4 DEF LC!Convert
    <3>3. QED  BY <2>3, <3>1, <3>2 DEF LC!Lookup
  <2>5. CASE t # "Filename"
    <3>1. AsListed(list, n, m0, t)
      BY <1>2, <2>5 DEF TypesBuilt
    <3>2. "Global" \in DOMAIN m0[t] /\ LC!Lookup(m0[t], l) = LC!Convert(t, l, list[i].value)
      BY <2>2, <3>1 DEF AsListed
    <3>3. CASE t # "ToFile"
      <4>1. m[t] = m0[t]
        BY <1>1, <2>1, <2>5, <3>3 DEF FilesBuilt
      <4>2. QED  BY <2>3, <3>2, <4>1
    <3>4. CASE t = "ToFile"
      <4>1. LC!Lookup(m[t], l) = LC!Lookup(m0[t], l) \/ Off(b, l)
        BY <1>1, <2>1, <3>2, <3>4 DEF FilesBuilt
      <4>2. ASSUME Off(b, l)
            PROVE  ~LC!Lookup(m[t], l) /\ \E k \in {l, "Global"} : ~s[LC!Lookup(m["Filename"], k)]
        <5>1. PICK k \in {l, "Global"} \cap DOMAIN m["Filename"] : ~s[m["Filename"][k]]
          BY <4>2 DEF Off
        <5>2. LC!Lookup(m["Filename"], k) = m["Filename"][k]
          BY DEF LC!Lookup
        <5>3. LC!Lookup(m[t], l) = FALSE
          BY <3>4, <4>2 DEF Off
        <5>4. QED  BY <5>1, <5>2, <5>3
      <4>3. QED  BY <2>3, <3>2, <3>4, <4>1, <4>2
    <3>5. QED  BY <3>3, <3>4
  <2>6. QED  BY <2>4, <2>5
<1>5. ASSUME NEW i \in 1 .. n, LastWidth(list, n, i)
      PROVE  LC!Lookup(m["MillisecondsWidth"], "Global") = list[i].value
  <2>1. m0["MillisecondsWidth"]["Global"] = list[i].value
    BY <1>2, <1>5 DEF TypesBuilt
  <2>2. "MillisecondsWidth" \in TypesKept
    <3>1. list[i].type = "MillisecondsWidth" /\ list[i] \in Entries
      BY <1>3, <1>5 DEF LastWidth
    <3>2. QED  BY <3>1 DEF Entries, TypesKept
  <2>3. m["MillisecondsWidth"] = m0["MillisecondsWidth"]
    BY <1>1, <2>2 DEF FilesBuilt
  <2>4. QED  BY <2>1, <2>3 DEF LC!Lookup, LC!Global
<1>6. ReadsRight(list, m, s)
  BY <1>4, <1>5 DEF ReadsRight, n
<1>7. m \in Typeds /\ s \in StreamMaps
  BY <1>1 DEF BuildStates
<1>8. QED  BY <1>6, <1>7 DEF b

-----------------------------------------------------------------------------
\* The lists are lists, the maps are built from the logger's own, and what they
\* are read for is what it says.
CfgInv ==
  /\ Listed(conf) /\ mine \in Own
  /\ maps \in Typeds /\ streams \in StreamMaps
  /\ ReadsRight(mine, maps, streams)
  /\ ops \in 0 .. MaxOps

LEMMA EmptyList == Listed(<<>>) /\ GlobalFirst(<<>>) /\ <<>> \in StreamMaps
<1>1. <<>> \in Seq(Entries) /\ Len(<<>>) = 0 /\ 1 .. 0 = {}
  OBVIOUS
<1>2. <<>> \in [{} -> BOOLEAN]
  OBVIOUS
<1>3. {} \in SUBSET ConfiguredFiles
  OBVIOUS
<1>4. QED  BY <1>1, <1>2, <1>3 DEF Listed, GlobalFirst, StreamMaps

LEMMA InitCfg ==
  ASSUME LC!LogConfigAssumption, LC!Init
  PROVE  CfgInv
<1>1. mine \in Own
  <2>1. mine = LC!setToDefault(<<>>)
    BY DEF LC!Init
  <2>2. Listed(mine) /\ GlobalFirst(mine) /\ Complete(mine, Types)
    BY <2>1, EmptyList, DefaultsSet
  <2>3. QED  BY <2>2 DEF Own, Listed
<1>2. maps = LC!build(mine, <<>>).typed /\ streams = LC!build(mine, <<>>).streams
  BY DEF LC!Init
<1>3. maps \in Typeds /\ streams \in StreamMaps /\ ReadsRight(mine, maps, streams)
  BY <1>1, <1>2, EmptyList, BuildReads
<1>4. Listed(conf) /\ ops \in 0 .. MaxOps
  BY EmptyList DEF LC!Init, LC!LogConfigAssumption
<1>5. QED  BY <1>1, <1>3, <1>4 DEF CfgInv

\* A call on the program's list leaves the logger's alone.
LEMMA ListCalled ==
  ASSUME LC!LogConfigAssumption, CfgInv, LC!Call, Listed(conf'), UNCHANGED <<mine, maps, streams>>
  PROVE  CfgInv'
<1>1. ops' \in 0 .. MaxOps
  BY DEF CfgInv, LC!Call, LC!LogConfigAssumption
<1>2. mine' = mine /\ maps' = maps /\ streams' = streams
  OBVIOUS
<1>3. QED  BY <1>1, <1>2 DEF CfgInv

\* The logger's list is replaced and the maps are built again.
LEMMA Configured ==
  ASSUME LC!LogConfigAssumption, CfgInv, NEW list \in Own, LC!ConfigureWith(list)
  PROVE  CfgInv'
<1>1. ops' \in 0 .. MaxOps
  BY DEF CfgInv, LC!ConfigureWith, LC!Call, LC!LogConfigAssumption
<1>2. /\ mine' = list /\ conf' = conf
      /\ maps' = LC!build(list, streams).typed /\ streams' = LC!build(list, streams).streams
  BY DEF LC!ConfigureWith
<1>3. maps' \in Typeds /\ streams' \in StreamMaps /\ ReadsRight(mine', maps', streams')
  <2>1. streams \in StreamMaps
    BY DEF CfgInv
  <2>2. QED  BY <1>2, <2>1, BuildReads
<1>4. Listed(conf)
  BY DEF CfgInv
<1>5. QED  BY <1>1, <1>2, <1>3, <1>4 DEF CfgInv

LEMMA NextCfg ==
  ASSUME LC!LogConfigAssumption, CfgInv, [LC!Next]_(LC!vars)
  PROVE  CfgInv'
<1>1. CASE UNCHANGED LC!vars
  BY <1>1 DEF LC!vars, CfgInv
<1>2. ASSUME NEW t \in Types, NEW v \in LC!ValuesOf(t), LC!SetGlobally(t, v)
      PROVE  CfgInv'
  <2>1. Listed(conf)
    BY DEF CfgInv
  <2>2. Listed(LC!setGlobally(conf, t, v, FALSE))
    BY <2>1, SetsGlobally
  <2>3. LC!Call /\ conf' = LC!setGlobally(conf, t, v, FALSE) /\ UNCHANGED <<mine, maps, streams>>
    BY <1>2 DEF LC!SetGlobally
  <2>4. QED  BY <2>2, <2>3, ListCalled
<1>3. ASSUME NEW t \in Types, NEW v \in LC!ValuesOf(t), NEW l \in LC!Levels, LC!Set(l, t, v)
      PROVE  CfgInv'
  <2>1. Listed(conf)
    BY DEF CfgInv
  <2>2. Listed(LC!unsafeSet(conf, l, t, v))
    BY <2>1, SetsLists
  <2>3. LC!Call /\ conf' = LC!unsafeSet(conf, l, t, v) /\ UNCHANGED <<mine, maps, streams>>
    BY <1>3 DEF LC!Set
  <2>4. QED  BY <2>2, <2>3, ListCalled
<1>4. ASSUME NEW t \in Types, NEW v \in LC!ValuesOf(t), NEW l \in LC!Levels, LC!Reconfigure(l, t, v)
      PROVE  CfgInv'
  <2>1. mine \in Own
    BY DEF CfgInv
  <2>2. LC!unsafeSet(mine, l, t, v) \in Own
    BY <2>1, OwnKeeps
  <2>3. QED  BY <1>4, <2>2, Configured DEF LC!Reconfigure
<1>5. CASE LC!Clear
  <2>1. LC!Call /\ conf' = <<>> /\ UNCHANGED <<mine, maps, streams>>
    BY <1>5 DEF LC!Clear
  <2>2. QED  BY <2>1, EmptyList, ListCalled
<1>6. CASE LC!SetToDefault
  <2>1. Listed(conf)
    BY DEF CfgInv
  <2>2. Listed(LC!setToDefault(conf))
    BY <2>1, DefaultsSet
  <2>3. LC!Call /\ conf' = LC!setToDefault(conf) /\ UNCHANGED <<mine, maps, streams>>
    BY <1>6 DEF LC!SetToDefault
  <2>4. QED  BY <2>2, <2>3, ListCalled
<1>7. CASE LC!SetRemainingToDefault
  <2>1. Listed(conf)
    BY DEF CfgInv
  <2>2. Listed(LC!setRemainingToDefault(conf))
    BY <2>1, RemainingSet
  <2>3. LC!Call /\ conf' = LC!setRemainingToDefault(conf) /\ UNCHANGED <<mine, maps, streams>>
    BY <1>7 DEF LC!SetRemainingToDefault
  <2>4. QED  BY <2>2, <2>3, ListCalled
<1>8. CASE LC!Configure
  <2>1. mine \in Own /\ conf \in Seq(Entries)
    BY DEF CfgInv, Listed
  <2>2. LC!setFromBase(mine, conf) \in Own
    BY <2>1, BaseSet
  <2>3. QED  BY <1>8, <2>2, Configured DEF LC!Configure
<1>9. QED  BY <1>1, <1>2, <1>3, <1>4, <1>5, <1>6, <1>7, <1>8 DEF LC!Next

LEMMA CfgShows ==
  ASSUME LC!LogConfigAssumption, CfgInv
  PROVE  LC!TypeOK /\ LC!TypedReadsConfigured
<1>1. /\ mine \in Own /\ Listed(mine) /\ Listed(conf) /\ maps \in Typeds /\ streams \in StreamMaps
      /\ ReadsRight(mine, maps, streams) /\ ops \in 0 .. MaxOps
  BY DEF CfgInv, Own
<1>2. ASSUME NEW list, Listed(list)
      PROVE  \A i \in DOMAIN list :
               /\ list[i].level \in LC!Levels /\ list[i].type \in Types
               /\ list[i].value \in LC!ValuesOf(list[i].type)
               /\ \A j \in DOMAIN list : LC!Is(list[j], list[i].level, list[i].type) => i = j
  <2>1. DOMAIN list = 1 .. Len(list) /\ \A i \in 1 .. Len(list) : list[i] \in Entries
    BY <1>2 DEF Listed
  <2>2. QED  BY <1>2, <2>1 DEF Listed, Entries, LC!Is
<1>3. \A list \in {conf, mine} : \A i \in DOMAIN list :
        /\ list[i].level \in LC!Levels /\ list[i].type \in Types
        /\ list[i].value \in LC!ValuesOf(list[i].type)
        /\ \A j \in DOMAIN list : LC!Is(list[j], list[i].level, list[i].type) => i = j
  BY <1>1, <1>2
<1>4. \A t \in DOMAIN maps : DOMAIN maps[t] \in SUBSET LC!Levels
  BY <1>1, MapIn DEF Typeds
<1>5. streams \in [DOMAIN streams -> BOOLEAN] /\ DOMAIN streams \in SUBSET ConfiguredFiles
  BY <1>1 DEF StreamMaps
<1>6. LC!TypeOK
  BY <1>1, <1>3, <1>4, <1>5 DEF LC!TypeOK
<1>7. DOMAIN mine = 1 .. Len(mine)
  BY <1>1 DEF Listed
<1>8. LC!TypedReadsConfigured
  BY <1>1, <1>7 DEF ReadsRight, LastWidth, LC!TypedReadsConfigured, LC!Reads, LC!Written, LC!Global
<1>9. QED  BY <1>6, <1>8

-------------------------------------------------------------------------------
(***************************************************************************)
(* The parts together.  A step is one of the part that was chosen, or      *)
(* leaves its variables alone.                                             *)
(***************************************************************************)
LEMMA PartSteps ==
  ASSUME [Next]_vars
  PROVE  /\ part' = part
         /\ part = "HitCounters" => [HC!Next]_(HC!vars)
         /\ part = "LogConfig" => [LC!Next]_(LC!vars)
         /\ part = "ConfLine" => [CL!Next]_line
         /\ part = "ConfParser" => [CP!Next]_(CP!vars)
         /\ part = "Logging" => [LG!Next]_(LG!vars)
         /\ part = "DateTime" => [DT!Next]_(DT!vars)
         /\ part = "PerformanceTracker" => [PT!Next]_(PT!vars)
BY DEF Next, vars, hitVars, configVars, parserVars, loggingVars, dateVars, trackerVars,
       HC!vars, LC!vars, CP!vars, LG!vars, DT!vars, PT!vars

LEMMA PartStarts ==
  ASSUME Init
  PROVE  /\ part = "HitCounters" => HC!Init
         /\ part = "LogConfig" => LC!Init
         /\ part = "ConfLine" => CL!Init
         /\ part = "ConfParser" => CP!Init
         /\ part = "Logging" => LG!Init
         /\ part = "DateTime" => DT!Init
         /\ part = "PerformanceTracker" => PT!Init
BY DEF Init

\* A LOG_EVERY_N statement has logged floor(h / n) of its h hits, for counters
\* wound back at the ceiling as well; LOG_AFTER_N and LOG_N_TIMES count as they
\* say (RegisteredHitCounters, easylogging.h).
THEOREM HitsAreCounted == Spec => []EveryNth
<1> DEFINE Inv == part = "HitCounters" => HitInv
<1>1. Init => Inv
  BY EasyLoggingAssumption, PartStarts, InitHits
<1>2. Inv /\ [Next]_vars => Inv'
  BY EasyLoggingAssumption, PartSteps, NextHits
<1>3. Inv => EveryNth
  BY EasyLoggingAssumption, HitsShow DEF EveryNth
<1> HIDE DEF Inv
<1>4. QED  BY <1>1, <1>2, <1>3, PTL DEF Spec

\* Whatever loggers are registered, configured, flushed and rolled, an entry is
\* in a buffer or a file until the file is truncated, unless a buffer could not
\* be written; and each has the text of one statement (Writer, LogDispatcher and
\* TypedConfigurations, easylogging.h).
THEOREM EntriesSurvive == Spec => []NothingVanishes
<1> DEFINE Inv == part = "Logging" => LogInv
<1>1. Init => Inv
  BY EasyLoggingAssumption, PartStarts, InitLog
<1>2. Inv /\ [Next]_vars => Inv'
  BY EasyLoggingAssumption, PartSteps, NextLog
<1>3. Inv => NothingVanishes
  BY EasyLoggingAssumption, LogShows DEF NothingVanishes
<1> HIDE DEF Inv
<1>4. QED  BY <1>1, <1>2, <1>3, PTL DEF Spec

\* The counter of unflushed entries of a logger and level never stays below what
\* waits in the buffer, so the threshold bounds it (isFlushNeeded and flush,
\* easylogging.h).
THEOREM BuffersAreBounded == Spec => []PendingBounded
<1> DEFINE Inv == part = "Logging" => LogInv
<1>1. Init => Inv
  BY EasyLoggingAssumption, PartStarts, InitLog
<1>2. Inv /\ [Next]_vars => Inv'
  BY EasyLoggingAssumption, PartSteps, NextLog
<1>3. Inv => PendingBounded
  BY EasyLoggingAssumption, LogShows DEF PendingBounded
<1> HIDE DEF Inv
<1>4. QED  BY <1>1, <1>2, <1>3, PTL DEF Spec

\* A tracked time is what passed unless the clock was set back in between, is
\* shown in the largest unit it has more than one of, and is reported as the
\* tracker was configured when it was made (PerformanceTracker and
\* DateTime::formatTime, easylogging.h).
THEOREM TimesAreExact == Spec => []TimesExact
<1> DEFINE Inv == part = "PerformanceTracker" => TimeInv
<1>1. Init => Inv
  BY EasyLoggingAssumption, PartStarts, InitTime
<1>2. Inv /\ [Next]_vars => Inv'
  BY EasyLoggingAssumption, PartSteps, NextTime
<1>3. Inv => TimesExact
  BY EasyLoggingAssumption, TimeShows DEF TimesExact
<1> HIDE DEF Inv
<1>4. QED  BY <1>1, <1>2, <1>3, PTL DEF Spec

\* What is read of a level when a message is logged is what the logger's list
\* says of it, however it was configured; ToFile may be off where a file could
\* not be opened, and the width in use is the last in the list
\* (TypedConfigurations and Configurations, easylogging.h).
THEOREM ReadsAreConfigured == Spec => []TypedReadsConfigured
<1> DEFINE Inv == part = "LogConfig" => CfgInv
<1>1. Init => Inv
  BY EasyLoggingAssumption, PartStarts, InitCfg
<1>2. Inv /\ [Next]_vars => Inv'
  BY EasyLoggingAssumption, PartSteps, NextCfg
<1>3. Inv => TypedReadsConfigured
  BY EasyLoggingAssumption, CfgShows DEF TypedReadsConfigured
<1> HIDE DEF Inv
<1>4. QED  BY <1>1, <1>2, <1>3, PTL DEF Spec

\* A line of a configuration ends before the first ## that is outside quotes, and
\* a value in quotes loses these (ignoreComments and stripQuotes of
\* Configurations::Parser, easylogging.h).
THEOREM CommentsAreStripped == Spec => []CommentStripped
<1> DEFINE Inv == part = "ConfLine" => LineInv
<1>1. Init => Inv
  BY EasyLoggingAssumption, PartStarts, InitLine
<1>2. Inv /\ [Next]_vars => Inv'
  BY EasyLoggingAssumption, PartSteps, NextLine
<1>3. Inv => CommentStripped
  BY EasyLoggingAssumption, LineShows DEF CommentStripped
<1> HIDE DEF Inv
<1>4. QED  BY <1>1, <1>2, <1>3, PTL DEF Spec

\* Once a configuration file is read, every logger has been given the
\* assignments of its sections, each at the level of the last header before it
\* in the section, in the order of the file, and no others
\* (Loggers::configureFromGlobal and Configurations::Parser, easylogging.h).
THEOREM FilesAreApplied == Spec => []FileApplied
<1> DEFINE Inv == part = "ConfParser" => ConfInv
<1>1. Init => Inv
  BY EasyLoggingAssumption, PartStarts, InitConf
<1>2. Inv /\ [Next]_vars => Inv'
  BY EasyLoggingAssumption, PartSteps, NextConf
<1>3. Inv => FileApplied
  BY EasyLoggingAssumption, ConfShows DEF FileApplied
<1> HIDE DEF Inv
<1>4. QED  BY <1>1, <1>2, <1>3, PTL DEF Spec

\* A date is the text its format stands for, as much of it as the buffer holds,
\* whatever the format, the time and the width of the fraction
\* (DateTime::parseFormat with convertAndAddToBuff and addToBuff,
\* easylogging.h).
THEOREM DatesAreCut == Spec => []CutAtEnd
<1> DEFINE Inv == part = "DateTime" => DateInv
<1>1. Init => Inv
  BY EasyLoggingAssumption, PartStarts, InitDate
<1>2. Inv /\ [Next]_vars => Inv'
  BY EasyLoggingAssumption, PartSteps, NextDate
<1>3. Inv => CutAtEnd
  BY EasyLoggingAssumption, DatesCut DEF CutAtEnd
<1> HIDE DEF Inv
<1>4. QED  BY <1>1, <1>2, <1>3, PTL DEF Spec
===============================================================================
