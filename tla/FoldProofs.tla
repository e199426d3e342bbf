------------------------------- MODULE FoldProofs ------------------------------
(***************************************************************************)
(* Sums over finite sets and folds of sequences, for the modules with      *)
(* proofs that need them.  The folds of the library are recursive          *)
(* functions on the subsets of a set; an equation about all their values   *)
(* holds because it holds for the smallest subset that would be an         *)
(* exception.                                                              *)
(***************************************************************************)
EXTENDS Integers, FiniteSets, FiniteSetTheorems, TLAPS

\* A set of naturals has a least element.
LEMMA LeastNatural ==
  ASSUME NEW T \in SUBSET Nat, T # {}
  PROVE  \E n \in T : \A m \in T : n <= m
<1>1. PICK n \in T : \A m \in T : ~(<<m, n>> \in OpToRel(<, Nat))
  BY NatLessThanWellFounded, WFMin, Zenon
<1>2. \A m \in T : ~(m < n)
  BY <1>1 DEF OpToRel
<1>3. QED  BY <1>2

Rest(s) == s \ {CHOOSE x \in s : TRUE}

LEMMA SmallerRest ==
  ASSUME NEW S, IsFiniteSet(S), NEW s \in SUBSET S, s # {}
  PROVE  /\ (CHOOSE x \in s : TRUE) \in S
         /\ Rest(s) \in SUBSET S
         /\ Cardinality(Rest(s)) = Cardinality(s) - 1
         /\ Cardinality(Rest(s)) < Cardinality(s)
<1>1. IsFiniteSet(s) /\ Cardinality(s) \in Nat
  BY FS_Subset, FS_CardinalityType
<1>2. (CHOOSE x \in s : TRUE) \in s
  OBVIOUS
<1>3. IsFiniteSet(Rest(s)) /\ Cardinality(Rest(s)) = Cardinality(s) - 1
  BY <1>1, <1>2, FS_RemoveElement DEF Rest
<1>4. Cardinality(Rest(s)) < Cardinality(s)
  BY <1>1, <1>3
<1>5. QED  BY <1>2, <1>3, <1>4 DEF Rest

\* A property of all subsets of S follows from the smallest exception.
LEMMA SmallestException ==
  ASSUME NEW S, IsFiniteSet(S), NEW E \in SUBSET (SUBSET S), E # {}
  PROVE  \E s \in E : \A r \in E : Cardinality(s) <= Cardinality(r)
<1> DEFINE T == { Cardinality(s) : s \in E }
<1>1. \A s \in E : Cardinality(s) \in Nat
  BY FS_Subset, FS_CardinalityType
<1>2. T \in SUBSET Nat /\ T # {}
  BY <1>1
<1>3. PICK n \in T : \A m \in T : n <= m
  <2> HIDE DEF T
  <2>1. QED  BY <1>2, LeastNatural
<1>4. QED  BY <1>3

-----------------------------------------------------------------------------
(***************************************************************************)
(* Sums over the subsets of a finite set, in the order of CHOOSE.          *)
(***************************************************************************)
Recurs(g, f, s) == g[s] = IF s = {} THEN 0 ELSE f[CHOOSE x \in s : TRUE] + g[Rest(s)]

\* g adds up f over each subset of S.
IsSum(g, f, S) ==
  /\ IsFiniteSet(S) /\ f \in [S -> Int]
  /\ g \in [SUBSET S -> Int] /\ \A s \in SUBSET S : Recurs(g, f, s)

\* The recursion holds for the subsets that have at most n elements.
Adds(g, f, S, n) ==
  /\ g \in [SUBSET S -> Int]
  /\ \A s \in SUBSET S :
       Cardinality(s) <= n =>
         g[s] = IF s = {} THEN 0 ELSE f[CHOOSE x \in s : TRUE] + g[Rest(s)]

LEMMA AddsExists ==
  ASSUME NEW S, IsFiniteSet(S), NEW f \in [S -> Int], NEW n \in Nat
  PROVE  \E g : Adds(g, f, S, n)
<1> DEFINE Bad == { k \in Nat : ~ \E g : Adds(g, f, S, k) }
<1>1. SUFFICES ASSUME Bad # {} PROVE FALSE
  OBVIOUS
<1>2. PICK k \in Bad : \A m \in Bad : k <= m
  <2> HIDE DEF Bad
  <2>1. Bad \in SUBSET Nat
    BY DEF Bad
  <2>2. QED  BY <1>1, <2>1, LeastNatural
<1>3. \A s \in SUBSET S : /\ Cardinality(s) \in Nat
                          /\ Cardinality(s) = 0 <=> s = {}
                          /\ s # {} => /\ (CHOOSE x \in s : TRUE) \in S
                                       /\ Rest(s) \in SUBSET S
                                       /\ Cardinality(Rest(s)) = Cardinality(s) - 1
  <2>1. ASSUME NEW s \in SUBSET S
        PROVE  /\ Cardinality(s) \in Nat
               /\ Cardinality(s) = 0 <=> s = {}
               /\ s # {} => /\ (CHOOSE x \in s : TRUE) \in S
                            /\ Rest(s) \in SUBSET S
                            /\ Cardinality(Rest(s)) = Cardinality(s) - 1
    <3>1. IsFiniteSet(s)
      BY FS_Subset
    <3>2. s # {} => (CHOOSE x \in s : TRUE) \in s
      OBVIOUS
    <3>3. QED  BY <3>1, <3>2, FS_CardinalityType, FS_EmptySet, FS_RemoveElement DEF Rest
  <2>2. QED  BY <2>1
<1>4. CASE k = 0
  <2>1. Adds([s \in SUBSET S |-> 0], f, S, 0)
    BY <1>3 DEF Adds
  <2>2. QED  BY <1>4, <2>1
<1>5. CASE k # 0
  <2>1. k - 1 \in Nat /\ k - 1 \notin Bad
    BY <1>2, <1>5
  <2>2. PICK g : Adds(g, f, S, k - 1)
    BY <2>1
  <2> DEFINE G == [s \in SUBSET S |-> IF Cardinality(s) = k THEN f[CHOOSE x \in s : TRUE] + g[Rest(s)] ELSE g[s]]
  <2>3. \A s \in SUBSET S : s # {} => f[CHOOSE x \in s : TRUE] + g[Rest(s)] \in Int
    BY <1>3, <2>2 DEF Adds
  <2>4. G \in [SUBSET S -> Int]
    BY <1>2, <1>3, <1>5, <2>2, <2>3 DEF Adds
  <2>5. ASSUME NEW s \in SUBSET S, Cardinality(s) <= k
        PROVE  G[s] = IF s = {} THEN 0 ELSE f[CHOOSE x \in s : TRUE] + G[Rest(s)]
    <3>1. s # {} => G[Rest(s)] = g[Rest(s)]
      BY <1>2, <1>3, <2>5
    <3>2. CASE Cardinality(s) = k
      BY <1>2, <1>3, <1>5, <3>1, <3>2
    <3>3. CASE Cardinality(s) # k
      <4>1. Cardinality(s) <= k - 1 /\ G[s] = g[s]
        BY <1>2, <1>3, <2>5, <3>3
      <4>2. g[s] = IF s = {} THEN 0 ELSE f[CHOOSE x \in s : TRUE] + g[Rest(s)]
        BY <2>2, <4>1 DEF Adds
      <4>3. QED  BY <3>1, <4>1, <4>2
    <3>4. QED  BY <3>2, <3>3
  <2>6. Adds(G, f, S, k)
    BY <2>4, <2>5 DEF Adds
  <2>7. QED  BY <2>6
<1>6. QED  BY <1>4, <1>5

LEMMA SumExists ==
  ASSUME NEW S, IsFiniteSet(S), NEW f \in [S -> Int]
  PROVE  \E g : IsSum(g, f, S)
<1>1. PICK g : Adds(g, f, S, Cardinality(S))
  BY AddsExists, FS_CardinalityType
<1>2. \A s \in SUBSET S : Cardinality(s) <= Cardinality(S)
  BY FS_Subset, FS_CardinalityType
<1>3. IsSum(g, f, S)
  BY <1>1, <1>2 DEF Adds, IsSum, Recurs
<1>4. QED  BY <1>3

\* Whatever satisfies the recursion is the sum.
LEMMA SumUnrolls ==
  ASSUME NEW S, IsFiniteSet(S), NEW f \in [S -> Int],
         NEW G, DOMAIN G = SUBSET S, G = [s \in DOMAIN G |-> G[s]],
         \A s \in SUBSET S : Recurs(G, f, s)
  PROVE  IsSum(G, f, S)
<1>1. \A s \in SUBSET S : G[s] \in Int
  <2> DEFINE E == { s \in SUBSET S : G[s] \notin Int }
  <2>1. SUFFICES ASSUME E # {} PROVE FALSE
    OBVIOUS
  <2>2. PICK s \in E : \A r \in E : Cardinality(s) <= Cardinality(r)
    <3>1. E \in SUBSET (SUBSET S)
      OBVIOUS
    <3> HIDE DEF E
    <3>2. QED  BY <2>1, <3>1, SmallestException
  <2>3. s # {} /\ s \in SUBSET S
    BY <2>2 DEF Recurs
  <2>4. /\ (CHOOSE x \in s : TRUE) \in S /\ Rest(s) \in SUBSET S
        /\ Cardinality(Rest(s)) < Cardinality(s)
    BY <2>3, SmallerRest
  <2>5. G[Rest(s)] \in Int
    <3>1. Cardinality(s) \in Nat /\ Cardinality(Rest(s)) \in Nat
      BY <2>3, <2>4, FS_Subset, FS_CardinalityType
    <3>2. QED  BY <2>2, <2>4, <3>1
  <2>6. G[s] = f[CHOOSE x \in s : TRUE] + G[Rest(s)]
    BY <2>3 DEF Recurs
  <2>7. QED  BY <2>2, <2>4, <2>5, <2>6
<1>2. QED  BY <1>1 DEF IsSum

\* The order does not matter: any element can be added last.
LEMMA SumElement ==
  ASSUME NEW S, NEW f, NEW g, IsSum(g, f, S), NEW A \in SUBSET S, NEW x \in S, x \notin A
  PROVE  g[A \cup {x}] = g[A] + f[x]
<1>0. IsFiniteSet(S) /\ f \in [S -> Int]
  BY DEF IsSum
<1> DEFINE E == { s \in SUBSET S : \E y \in s : g[s] # g[s \ {y}] + f[y] }
<1>1. E = {}
  <2>1. SUFFICES ASSUME E # {} PROVE FALSE
    OBVIOUS
  <2>2. PICK s \in E : \A r \in E : Cardinality(s) <= Cardinality(r)
    <3>1. E \in SUBSET (SUBSET S)
      OBVIOUS
    <3> HIDE DEF E
    <3>2. QED  BY <2>1, <3>1, <1>0, SmallestException
  <2>3. PICK y \in s : g[s] # g[s \ {y}] + f[y]
    BY <2>2
  <2> DEFINE z == CHOOSE z \in s : TRUE
  <2>4. s \in SUBSET S /\ s # {} /\ z \in s /\ Rest(s) = s \ {z}
    BY <2>2, <2>3 DEF Rest
  <2>5. g[s] = f[z] + g[s \ {z}]
    BY <2>4 DEF IsSum, Recurs, Rest
  <2> HIDE DEF z
  <2>6. ASSUME NEW v \in s
        PROVE  s \ {v} \in SUBSET S /\ s \ {v} \notin E
    <3>1. IsFiniteSet(s) /\ Cardinality(s) \in Nat
      BY <2>4, <1>0, FS_Subset, FS_CardinalityType
    <3>2. Cardinality(s \ {v}) = Cardinality(s) - 1
      BY <2>6, <3>1, FS_RemoveElement
    <3>3. s \ {v} \in SUBSET S
      BY <2>4
    <3> HIDE DEF E
    <3>4. QED  BY <2>2, <3>1, <3>2, <3>3
  <2>7. y # z
    <3>1. \A r \in SUBSET S : g[r] \in Int
      BY DEF IsSum
    <3>2. f[z] \in Int /\ s \ {z} \in SUBSET S
      BY <1>0, <2>4
    <3>3. g[s] = g[s \ {z}] + f[z]
      BY <2>5, <3>1, <3>2
    <3>4. QED  BY <2>3, <3>3
  <2>8. g[s \ {z}] = g[(s \ {z}) \ {y}] + f[y]
    BY <2>3, <2>4, <2>6, <2>7
  <2>9. g[s \ {y}] = g[(s \ {y}) \ {z}] + f[z]
    BY <2>3, <2>4, <2>6, <2>7
  <2>10. (s \ {y}) \ {z} = (s \ {z}) \ {y}
    OBVIOUS
  <2>11. g[(s \ {z}) \ {y}] \in Int /\ f[y] \in Int /\ f[z] \in Int
    <3>1. (s \ {z}) \ {y} \in SUBSET S /\ y \in S /\ z \in S
      BY <2>4
    <3>2. QED  BY <3>1 DEF IsSum
  <2>12. g[s] = f[z] + (g[(s \ {z}) \ {y}] + f[y])
    BY <2>5, <2>8
  <2>13. g[s \ {y}] + f[y] = (g[(s \ {z}) \ {y}] + f[z]) + f[y]
    BY <2>9, <2>10
  <2>14. f[z] + (g[(s \ {z}) \ {y}] + f[y]) = (g[(s \ {z}) \ {y}] + f[z]) + f[y]
    BY <2>11
  <2>15. QED  BY <2>3, <2>12, <2>13, <2>14
<1>2. A \cup {x} \in SUBSET S /\ (A \cup {x}) \ {x} = A
  OBVIOUS
<1>3. QED  BY <1>1, <1>2

LEMMA SumUnion ==
  ASSUME NEW S, NEW f, NEW g, IsSum(g, f, S),
         NEW A \in SUBSET S, NEW B \in SUBSET S, A \cap B = {}
  PROVE  g[A \cup B] = g[A] + g[B]
<1>0. IsFiniteSet(S) /\ f \in [S -> Int]
  BY DEF IsSum
<1> DEFINE E == { s \in SUBSET S : s \subseteq B /\ g[A \cup s] # g[A] + g[s] }
<1>1. \A s \in SUBSET S : g[s] \in Int
  BY DEF IsSum
<1>2. E = {}
  <2>1. SUFFICES ASSUME E # {} PROVE FALSE
    OBVIOUS
  <2>2. PICK s \in E : \A r \in E : Cardinality(s) <= Cardinality(r)
    <3>1. E \in SUBSET (SUBSET S)
      OBVIOUS
    <3> HIDE DEF E
    <3>2. QED  BY <2>1, <3>1, <1>0, SmallestException
  <2>3. g[{}] = 0 /\ A \cup {} = A
    BY DEF IsSum, Recurs
  <2>4. s # {}
    <3>1. g[A] \in Int
      BY <1>1
    <3>2. g[A] = g[A] + g[{}]
      BY <2>3, <3>1
    <3>3. QED  BY <2>2, <2>3, <3>2
  <2>5. PICK x \in s : TRUE
    BY <2>4
  <2> DEFINE r == s \ {x}
  <2>6. r \in SUBSET S /\ r \subseteq B /\ x \in S /\ x \notin r /\ x \notin A \cup r /\ A \cup r \in SUBSET S
    BY <2>2
  <2>7. r \notin E
    <3>1. IsFiniteSet(s) /\ Cardinality(s) \in Nat
      BY <2>2, <1>0, FS_Subset, FS_CardinalityType
    <3>2. Cardinality(r) = Cardinality(s) - 1
      BY <2>5, <3>1, FS_RemoveElement
    <3> HIDE DEF E, r
    <3>3. QED  BY <2>2, <3>1, <3>2
  <2>8. s = r \cup {x} /\ A \cup s = (A \cup r) \cup {x}
    BY <2>5
  <2> HIDE DEF r
  <2>9. g[s] = g[r] + f[x] /\ g[A \cup s] = g[A \cup r] + f[x]
    BY <2>6, <2>8, SumElement
  <2>10. g[A \cup r] = g[A] + g[r]
    BY <2>6, <2>7
  <2>11. f[x] \in Int
    BY <1>0, <2>6
  <2>12. QED  BY <1>1, <2>2, <2>6, <2>9, <2>10, <2>11
<1>3. QED  BY <1>2

\* Sums of f and h over the same set compare as f and h do.
LEMMA SumCompares ==
  ASSUME NEW S, NEW f, NEW g, IsSum(g, f, S), NEW T, NEW h, NEW k, IsSum(k, h, T),
         NEW A, A \in SUBSET S, A \in SUBSET T, \A x \in A : f[x] <= h[x]
  PROVE  g[A] <= k[A]
<1>0. IsFiniteSet(S) /\ f \in [S -> Int] /\ IsFiniteSet(T) /\ h \in [T -> Int]
  BY DEF IsSum
<1> DEFINE E == { s \in SUBSET S : s \subseteq A /\ ~(g[s] <= k[s]) }
<1>1. /\ \A s \in SUBSET S : g[s] \in Int
      /\ \A s \in SUBSET T : k[s] \in Int
  BY DEF IsSum
<1>2. E = {}
  <2>1. SUFFICES ASSUME E # {} PROVE FALSE
    OBVIOUS
  <2>2. PICK s \in E : \A r \in E : Cardinality(s) <= Cardinality(r)
    <3>1. E \in SUBSET (SUBSET S)
      OBVIOUS
    <3> HIDE DEF E
    <3>2. QED  BY <2>1, <3>1, <1>0, SmallestException
  <2>3. g[{}] = 0 /\ k[{}] = 0
    BY DEF IsSum, Recurs
  <2>4. s # {}
    <3>1. g[{}] <= k[{}]
      BY <2>3
    <3>2. QED  BY <2>2, <3>1
  <2>5. PICK x \in s : TRUE
    BY <2>4
  <2> DEFINE r == s \ {x}
  <2>6. /\ r \in SUBSET S /\ r \in SUBSET T /\ r \subseteq A /\ x \in S /\ x \in T /\ x \in A
        /\ x \notin r /\ s \in SUBSET S /\ s \in SUBSET T
    BY <2>2
  <2>7. r \notin E
    <3>1. IsFiniteSet(s) /\ Cardinality(s) \in Nat
      BY <2>2, <1>0, FS_Subset, FS_CardinalityType
    <3>2. Cardinality(r) = Cardinality(s) - 1
      BY <2>5, <3>1, FS_RemoveElement
    <3> HIDE DEF E, r
    <3>3. QED  BY <2>2, <3>1, <3>2
  <2>8. s = r \cup {x}
    BY <2>5
  <2> HIDE DEF r
  <2>9. g[s] = g[r] + f[x] /\ k[s] = k[r] + h[x]
    <3>1. x \in S \ r /\ x \in T \ r
      BY <2>6
    <3>2. g[r \cup {x}] = g[r] + f[x]
      BY <2>6, <3>1, SumElement
    <3>3. k[r \cup {x}] = k[r] + h[x]
      BY <2>6, <3>1, SumElement
    <3>4. QED  BY <2>8, <3>2, <3>3
  <2>10. g[r] <= k[r]
    BY <2>6, <2>7
  <2>11. f[x] \in Int /\ h[x] \in Int /\ f[x] <= h[x]
    BY <1>0, <2>6
  <2>12. QED  BY <1>1, <2>2, <2>6, <2>9, <2>10, <2>11
<1>3. QED  BY <1>2

LEMMA SumOfZeros ==
  ASSUME NEW S, IsFiniteSet(S)
  PROVE  IsSum([s \in SUBSET S |-> 0], [x \in S |-> 0], S)
<1>1. \A s \in SUBSET S : Rest(s) \in SUBSET S /\ (s # {} => (CHOOSE x \in s : TRUE) \in S)
  BY DEF Rest
<1>2. QED  BY <1>1 DEF IsSum, Recurs

\* A sum over more is more, when nothing is negative.
LEMMA SumGrows ==
  ASSUME NEW S, NEW f, NEW g, IsSum(g, f, S), \A x \in S : f[x] >= 0,
         NEW A, NEW B \in SUBSET S, A \subseteq B
  PROVE  0 <= g[A] /\ g[A] <= g[B] /\ g[A] \in Int /\ g[B] \in Int
<1> DEFINE zero == [x \in S |-> 0]
           nil == [s \in SUBSET S |-> 0]
           D == B \ A
<1>1. IsFiniteSet(S) /\ (\A s \in SUBSET S : g[s] \in Int) /\ \A x \in S : f[x] \in Int
  BY DEF IsSum
<1>2. IsSum(nil, zero, S)
  BY <1>1, SumOfZeros
<1>3. A \in SUBSET S /\ D \in SUBSET S /\ A \cap D = {} /\ A \cup D = B
  OBVIOUS
<1>4. (\A x \in S : zero[x] <= f[x]) /\ nil[A] = 0 /\ nil[D] = 0
  BY <1>1, <1>3
<1> HIDE DEF zero, nil, D
<1>5. nil[A] <= g[A] /\ nil[D] <= g[D]
  <2>1. \A s \in SUBSET S : nil[s] <= g[s]
    <3> SUFFICES ASSUME NEW s \in SUBSET S PROVE nil[s] <= g[s]
      OBVIOUS
    <3>1. \A x \in s : zero[x] <= f[x]
      BY <1>4
    <3>2. QED  BY <1>2, <3>1, SumCompares
  <2>2. QED  BY <1>3, <2>1
<1>6. g[A \cup D] = g[A] + g[D]
  BY <1>3, SumUnion
<1>7. g[A] \in Int /\ g[D] \in Int /\ g[B] \in Int
  BY <1>1, <1>3
<1>8. g[B] = g[A] + g[D]
  BY <1>3, <1>6
<1>9. QED  BY <1>4, <1>5, <1>7, <1>8

-----------------------------------------------------------------------------
(***************************************************************************)
(* Folds of a sequence of length n from the left: FoldLeft recurs on the   *)
(* sets of positions, of which only 1..k are ever met.  F is what one step *)
(* makes of a result in T at a position.                                   *)
(***************************************************************************)
Largest(s) == CHOOSE x \in s : \A y \in s : x >= y

LEMMA LargestOf ==
  ASSUME NEW k \in Nat \ {0}, NEW s \in SUBSET (1 .. k), k \in s
  PROVE  Largest(s) = k /\ s \ {k} \in SUBSET (1 .. k - 1)
<1>1. \A x \in s : (\A y \in s : x >= y) => x = k
  OBVIOUS
<1>2. \A y \in s : k >= y
  OBVIOUS
<1>3. Largest(s) = k
  BY <1>1, <1>2, Zenon DEF Largest
<1>4. ASSUME NEW x \in s, x # k
      PROVE  x \in 1 .. k - 1
  BY <1>4
<1>5. s \ {k} \subseteq 1 .. k - 1
  BY <1>4
<1>6. QED  BY <1>3, <1>5

LEMMA LargestIn ==
  ASSUME NEW n \in Nat, NEW s \in SUBSET (1 .. n), s # {}
  PROVE  Largest(s) \in s /\ \A y \in s : Largest(s) >= y
<1> DEFINE T == { n - x : x \in s }
<1>1. T \in SUBSET Nat /\ T # {}
  <2>1. \A x \in s : n - x \in Nat
    OBVIOUS
  <2>2. QED  BY <2>1
<1>2. PICK d \in T : \A e \in T : d <= e
  <2> HIDE DEF T
  <2>1. QED  BY <1>1, LeastNatural
<1>3. PICK x \in s : d = n - x
  BY <1>2
<1>4. \A y \in s : x >= y
  <2>1. \A y \in s : d <= n - y /\ y \in 1 .. n
    BY <1>2
  <2>2. QED  BY <1>3, <2>1
<1>5. QED  BY <1>3, <1>4, Zenon DEF Largest

Iterates(g, F, base, T, n) ==
  /\ g \in [SUBSET (1 .. n) -> T]
  /\ \A s \in SUBSET (1 .. n) :
       g[s] = IF s = {} THEN base ELSE F[<<g[s \ {Largest(s)}], Largest(s)>>]

StepsOf(h, F, base, n) == h[0] = base /\ \A k \in 1 .. n : h[k] = F[<<h[k - 1], k>>]

StepsIn(F, T, n) == \A r \in T, k \in 1 .. n : F[<<r, k>>] \in T

LEMMA IterExists ==
  ASSUME NEW n \in Nat, NEW T, NEW base \in T, NEW F, StepsIn(F, T, n)
  PROVE  \E g : Iterates(g, F, base, T, n)
<1> USE DEF StepsIn
<1> DEFINE Bad == { k \in 0 .. n : ~ \E g : Iterates(g, F, base, T, k) }
<1>1. SUFFICES ASSUME Bad # {} PROVE FALSE
  <2>1. n \in 0 .. n
    OBVIOUS
  <2>2. n \notin Bad => \E g : Iterates(g, F, base, T, n)
    BY <2>1
  <2>3. QED  BY <2>2
<1>2. PICK k \in Bad : \A m \in Bad : k <= m
  <2>1. Bad \in SUBSET Nat
    OBVIOUS
  <2> HIDE DEF Bad
  <2>2. QED  BY <1>1, <2>1, LeastNatural
<1>3. CASE k = 0
  <2>1. SUBSET (1 .. 0) = {{}}
    OBVIOUS
  <2>2. Iterates([s \in SUBSET (1 .. 0) |-> base], F, base, T, 0)
    BY <2>1 DEF Iterates
  <2>3. QED  BY <1>2, <1>3, <2>2
<1>4. CASE k # 0
  <2>1. k - 1 \in 0 .. n /\ k \in 1 .. n /\ k \in Nat \ {0}
    BY <1>2, <1>4
  <2>2. k - 1 \notin Bad
    <3> HIDE DEF Bad
    <3>1. QED  BY <1>2, <2>1
  <2>3. PICK g : Iterates(g, F, base, T, k - 1)
    BY <2>1, <2>2
  <2> DEFINE G == [s \in SUBSET (1 .. k) |-> IF k \in s THEN F[<<g[s \ {k}], k>>] ELSE g[s]]
  <2>4. \A s \in SUBSET (1 .. k) :
          /\ k \in s => Largest(s) = k /\ s \ {k} \in SUBSET (1 .. k - 1)
          /\ k \notin s => s \in SUBSET (1 .. k - 1)
    <3>1. ASSUME NEW s \in SUBSET (1 .. k), k \notin s
          PROVE  s \in SUBSET (1 .. k - 1)
      BY <2>1, <3>1
    <3>2. QED  BY <2>1, <3>1, LargestOf
  <2>5. G \in [SUBSET (1 .. k) -> T]
    BY <2>1, <2>3, <2>4 DEF Iterates
  <2>6. Iterates(G, F, base, T, k)
    <3> SUFFICES ASSUME NEW s \in SUBSET (1 .. k)
                 PROVE  G[s] = IF s = {} THEN base ELSE F[<<G[s \ {Largest(s)}], Largest(s)>>]
      BY <2>5 DEF Iterates
    <3>1. CASE k \in s
      <4>1. s \ {k} \in SUBSET (1 .. k) /\ k \notin s \ {k}
        OBVIOUS
      <4>2. G[s \ {k}] = g[s \ {k}]
        BY <4>1
      <4>3. QED  BY <2>4, <3>1, <4>2
    <3>2. CASE k \notin s
      <4>1. s \in SUBSET (1 .. k - 1) /\ G[s] = g[s]
        BY <2>4, <3>2
      <4>2. G[s \ {Largest(s)}] = g[s \ {Largest(s)}]
        BY <3>2
      <4>3. g[s] = IF s = {} THEN base ELSE F[<<g[s \ {Largest(s)}], Largest(s)>>]
        BY <2>3, <4>1 DEF Iterates
      <4>4. QED  BY <4>1, <4>2, <4>3
    <3>3. QED  BY <3>1, <3>2
  <2>7. QED  BY <1>2, <2>5, <2>6
<1>5. QED  BY <1>3, <1>4

\* Whatever satisfies the recursion, as far as its values are in T, goes step by
\* step along the sequence.
Goes(h, F, base, T, n) == StepsOf(h, F, base, n) /\ \A k \in 0 .. n : h[k] \in T

Reaches(F, base, T, n, r) == \E h : Goes(h, F, base, T, n) /\ h[n] = r

Unrolls(G, F, base, T, n) ==
  /\ G[{}] = base
  /\ \A s \in SUBSET (1 .. n) :
       s # {} /\ G[s \ {Largest(s)}] \in T => G[s] = F[<<G[s \ {Largest(s)}], Largest(s)>>]

LEMMA FoldUnrolls ==
  ASSUME NEW n \in Nat, NEW T, NEW base \in T, NEW F, StepsIn(F, T, n),
         NEW G, Unrolls(G, F, base, T, n)
  PROVE  Reaches(F, base, T, n, G[1 .. n])
<1> USE DEF StepsIn, Unrolls, Goes, Reaches
<1> DEFINE h == [k \in 0 .. n |-> G[1 .. k]]
<1>1. h[0] = base
  <2>1. 1 .. 0 = {}
    OBVIOUS
  <2>2. QED  BY <2>1
<1>2. \A k \in 1 .. n : h[k - 1] \in T => h[k] = F[<<h[k - 1], k>>] /\ h[k] \in T
  <2> SUFFICES ASSUME NEW k \in 1 .. n, h[k - 1] \in T
               PROVE  h[k] = F[<<h[k - 1], k>>] /\ h[k] \in T
    OBVIOUS
  <2>1. 1 .. k \in SUBSET (1 .. n) /\ k \in 1 .. k /\ (1 .. k) \ {k} = 1 .. k - 1
    OBVIOUS
  <2>2. Largest(1 .. k) = k
    BY LargestOf
  <2>3. h[k - 1] = G[1 .. k - 1] /\ h[k] = G[1 .. k]
    OBVIOUS
  <2>4. G[1 .. k] = F[<<G[1 .. k - 1], k>>]
    BY <2>1, <2>2, <2>3
  <2>5. QED  BY <2>3, <2>4
<1>3. \A k \in 0 .. n : h[k] \in T
  <2> DEFINE Bad == { k \in 0 .. n : h[k] \notin T }
  <2> SUFFICES ASSUME Bad # {} PROVE FALSE
    OBVIOUS
  <2>1. PICK k \in Bad : \A m \in Bad : k <= m
    <3>1. Bad \in SUBSET Nat
      OBVIOUS
    <3> HIDE DEF Bad
    <3>2. QED  BY <3>1, LeastNatural
  <2> HIDE DEF h
  <2>2. k # 0
    BY <1>1, <2>1
  <2>3. k \in 1 .. n /\ k - 1 \in 0 .. n
    BY <2>1, <2>2
  <2>4. k - 1 \notin Bad
    <3> HIDE DEF Bad
    <3>1. QED  BY <2>1, <2>3
  <2>5. QED  BY <1>2, <2>1, <2>3, <2>4
<1>4. h \in [0 .. n -> T] /\ h[n] = G[1 .. n]
  BY <1>3
<1> HIDE DEF h
<1>5. StepsOf(h, F, base, n)
  <2>1. \A k \in 1 .. n : k - 1 \in 0 .. n
    OBVIOUS
  <2>2. QED  BY <1>1, <1>2, <1>3, <2>1 DEF StepsOf
<1>6. QED  BY <1>4, <1>5

\* Folds of two sequences that agree on their first m positions agree there.
LEMMA StepsAgree ==
  ASSUME NEW m \in Nat, NEW base, NEW F, NEW G, NEW h, NEW k, StepsOf(h, F, base, m), StepsOf(k, G, base, m),
         \A i \in 1 .. m : F[<<h[i - 1], i>>] = G[<<h[i - 1], i>>]
  PROVE  \A i \in 0 .. m : h[i] = k[i]
<1> DEFINE Bad == { i \in 0 .. m : h[i] # k[i] }
<1> SUFFICES ASSUME Bad # {} PROVE FALSE
  OBVIOUS
<1>1. PICK i \in Bad : \A j \in Bad : i <= j
  <2>1. Bad \in SUBSET Nat
    OBVIOUS
  <2> HIDE DEF Bad
  <2>2. QED  BY <2>1, LeastNatural
<1>2. i # 0
  BY <1>1 DEF StepsOf
<1>3. i \in 1 .. m /\ i - 1 \in 0 .. m
  BY <1>1, <1>2
<1>4. i - 1 \notin Bad
  <2> HIDE DEF Bad
  <2>1. QED  BY <1>1, <1>3
<1>5. h[i - 1] = k[i - 1]
  BY <1>3, <1>4
<1>6. h[i] = F[<<h[i - 1], i>>] /\ k[i] = G[<<k[i - 1], i>>]
  BY <1>3 DEF StepsOf
<1>7. QED  BY <1>1, <1>3, <1>5, <1>6
===============================================================================
