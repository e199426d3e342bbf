----------------------------- MODULE LifetimeProofs ----------------------------
(***************************************************************************)
(* Proofs about Lifetime.tla, for every set of lifetimes, however nested,  *)
(* and every set of actions.  The shape of lists and calls (ShapeInv) and  *)
(* what ran (RanInv) hold whatever is thrown; that links are true and that *)
(* nothing is lost (LinkInv, KeptInv), as long as nothing is.              *)
(***************************************************************************)
EXTENDS Lifetime, TLAPS

In(s, x) == \E i \in DOMAIN s : s[i] = x

Once(s) == \A i, j \in DOMAIN s : s[i] = s[j] => i = j

-----------------------------------------------------------------------------
(***************************************************************************)
(* Sequences: what is in one, and in which order.                          *)
(***************************************************************************)
LEMMA IsSeqOf ==
  ASSUME NEW S, NEW T, NEW s \in Seq(S), \A i \in DOMAIN s : s[i] \in T
  PROVE  s \in Seq(T)
<1>1. s = [i \in 1 .. Len(s) |-> s[i]] /\ Len(s) \in Nat /\ DOMAIN s = 1 .. Len(s)
  OBVIOUS
<1>2. QED  BY <1>1

LEMMA AppendFacts ==
  ASSUME NEW S, NEW s \in Seq(S), NEW x \in S
  PROVE  /\ Append(s, x) \in Seq(S)
         /\ DOMAIN Append(s, x) = 1 .. Len(s) + 1 /\ DOMAIN s = 1 .. Len(s) /\ Len(s) \in Nat
         /\ \A i \in 1 .. Len(s) : Append(s, x)[i] = s[i]
         /\ Append(s, x)[Len(s) + 1] = x
         /\ \A y : In(Append(s, x), y) <=> In(s, y) \/ y = x
         /\ Once(s) /\ ~In(s, x) => Once(Append(s, x))
BY DEF In, Once

LEMMA TailFacts ==
  ASSUME NEW S, NEW s \in Seq(S), s # << >>
  PROVE  /\ Tail(s) \in Seq(S) /\ Head(s) \in S /\ Head(s) = s[1]
         /\ DOMAIN s = 1 .. Len(s) /\ Len(s) \in Nat \ {0}
         /\ Len(Tail(s)) = Len(s) - 1 /\ DOMAIN Tail(s) = 1 .. Len(s) - 1
         /\ \A i \in 1 .. Len(s) - 1 : Tail(s)[i] = s[i + 1]
         /\ \A y : In(s, y) <=> In(Tail(s), y) \/ y = Head(s)
         /\ Once(s) => Once(Tail(s)) /\ ~In(Tail(s), Head(s))
<1>1. /\ Tail(s) \in Seq(S) /\ Head(s) \in S /\ Head(s) = s[1]
      /\ DOMAIN s = 1 .. Len(s) /\ Len(s) \in Nat \ {0}
      /\ Len(Tail(s)) = Len(s) - 1 /\ DOMAIN Tail(s) = 1 .. Len(s) - 1
      /\ \A i \in 1 .. Len(s) - 1 : Tail(s)[i] = s[i + 1]
  OBVIOUS
<1>2. \A y : In(s, y) <=> In(Tail(s), y) \/ y = Head(s)
  <2>1. ASSUME NEW i \in DOMAIN s PROVE s[i] = Head(s) \/ In(Tail(s), s[i])
    <3>1. i = 1 \/ (i - 1 \in DOMAIN Tail(s) /\ Tail(s)[i - 1] = s[i])
      BY <1>1
    <3>2. QED  BY <1>1, <3>1 DEF In
  <2>2. QED  BY <1>1, <2>1 DEF In
<1>3. Once(s) => Once(Tail(s)) /\ ~In(Tail(s), Head(s))
  BY <1>1 DEF Once, In
<1>4. QED  BY <1>1, <1>2, <1>3

LEMMA ConcatFacts ==
  ASSUME NEW S, NEW a \in Seq(S), NEW b \in Seq(S)
  PROVE  /\ a \o b \in Seq(S) /\ Len(a \o b) = Len(a) + Len(b)
         /\ \A i \in 1 .. Len(a) + Len(b) : (a \o b)[i] = IF i <= Len(a) THEN a[i] ELSE b[i - Len(a)]
<1>1. a \o b \in Seq(S) /\ Len(a \o b) = Len(a) + Len(b)
  OBVIOUS
<1>2. ASSUME NEW i \in 1 .. Len(a) + Len(b)
      PROVE  (a \o b)[i] = IF i <= Len(a) THEN a[i] ELSE b[i - Len(a)]
  OBVIOUS
<1>3. QED  BY <1>1, <1>2

LEMMA ReverseFacts ==
  ASSUME NEW S, NEW s \in Seq(S)
  PROVE  /\ Reverse(s) \in Seq(S) /\ Len(Reverse(s)) = Len(s) /\ Len(s) \in Nat
         /\ DOMAIN Reverse(s) = 1 .. Len(s) /\ DOMAIN s = 1 .. Len(s)
         /\ \A i \in 1 .. Len(s) : Reverse(s)[i] = s[Len(s) - i + 1] /\ Len(s) - i + 1 \in 1 .. Len(s)
         /\ \A y : In(Reverse(s), y) <=> In(s, y)
         /\ Once(s) => Once(Reverse(s))
<1>1. /\ Reverse(s) \in Seq(S) /\ Len(Reverse(s)) = Len(s) /\ Len(s) \in Nat
      /\ DOMAIN Reverse(s) = 1 .. Len(s) /\ DOMAIN s = 1 .. Len(s)
      /\ \A i \in 1 .. Len(s) : Reverse(s)[i] = s[Len(s) - i + 1] /\ Len(s) - i + 1 \in 1 .. Len(s)
  BY DEF Reverse
<1>2. \A y : In(Reverse(s), y) <=> In(s, y)
  <2>1. ASSUME NEW i \in DOMAIN s PROVE In(Reverse(s), s[i])
    <3>1. Len(s) - i + 1 \in 1 .. Len(s) /\ Len(s) - (Len(s) - i + 1) + 1 = i
      BY <1>1
    <3>2. QED  BY <1>1, <3>1 DEF In
  <2>2. QED  BY <1>1, <2>1 DEF In
<1>3. ASSUME Once(s), NEW i \in DOMAIN Reverse(s), NEW j \in DOMAIN Reverse(s), Reverse(s)[i] = Reverse(s)[j]
      PROVE  i = j
  <2>1. /\ Reverse(s)[i] = s[Len(s) - i + 1] /\ Len(s) - i + 1 \in DOMAIN s
        /\ Reverse(s)[j] = s[Len(s) - j + 1] /\ Len(s) - j + 1 \in DOMAIN s
    BY <1>1
  <2>2. Len(s) - i + 1 = Len(s) - j + 1
    BY <1>3, <2>1 DEF Once
  <2>3. i \in Int /\ j \in Int /\ Len(s) \in Int
    BY <1>1
  <2>4. QED  BY <2>2, <2>3
<1>4. Once(s) => Once(Reverse(s))
  BY <1>3 DEF Once
<1>5. QED  BY <1>1, <1>2, <1>4

\* An item that is held once is taken out.
LEMMA RemoveFacts ==
  ASSUME NEW S, NEW s \in Seq(S), NEW e, Once(s)
  PROVE  /\ RemoveFirst(s, e) \in Seq(S)
         /\ Once(RemoveFirst(s, e))
         /\ \A y : In(RemoveFirst(s, e), y) <=> In(s, y) /\ y # e
         /\ \A i \in DOMAIN RemoveFirst(s, e) : \E m \in DOMAIN s : s[m] = RemoveFirst(s, e)[i] /\ i <= m
         /\ \A p, q \in DOMAIN RemoveFirst(s, e) : \A m, n \in DOMAIN s :
              RemoveFirst(s, e)[p] = s[m] /\ RemoveFirst(s, e)[q] = s[n] /\ m < n => p < q
<1> DEFINE r == RemoveFirst(s, e)
<1>1. CASE ~In(s, e)
  <2>1. r = s
    BY <1>1 DEF RemoveFirst, In
  <2>2. DOMAIN s = 1 .. Len(s) /\ Len(s) \in Nat
    OBVIOUS
  <2>3. QED  BY <1>1, <2>1, <2>2 DEF In, Once
<1>2. CASE In(s, e)
  <2>1. PICK at \in 1 .. Len(s) : s[at] = e
    BY <1>2 DEF In
  <2>2. { i \in 1 .. Len(s) : s[i] = e } = {at}
    BY <2>1 DEF Once
  <2>3. r = RemoveAt(s, at)
    <3>1. Min({at}) = at
      BY <2>1 DEF Min
    <3>2. SelectInSeq(s, LAMBDA v : v = e) = at
      BY <2>2, <3>1 DEF SelectInSeq
    <3>3. QED  BY <2>1, <3>2 DEF RemoveFirst
  <2>4. /\ r \in Seq(S) /\ Len(s) \in Nat /\ DOMAIN s = 1 .. Len(s) /\ DOMAIN r = 1 .. Len(s) - 1
        /\ \A i \in 1 .. Len(s) - 1 : i < at => r[i] = s[i]
        /\ \A i \in 1 .. Len(s) - 1 : i >= at => r[i] = s[i + 1]
    <3> DEFINE a == SubSeq(s, 1, at - 1)
               b == SubSeq(s, at + 1, Len(s))
    <3>1. /\ Len(s) \in Nat /\ DOMAIN s = 1 .. Len(s) /\ at \in Nat
          /\ a \in Seq(S) /\ Len(a) = at - 1 /\ \A i \in 1 .. at - 1 : a[i] = s[i]
          /\ b \in Seq(S) /\ Len(b) = Len(s) - at
      BY <2>1
    <3>2. \A i \in 1 .. Len(s) - at : b[i] = s[at + i]
      BY <2>1
    <3> HIDE DEF a, b
    <3>3. /\ a \o b \in Seq(S) /\ Len(a \o b) = Len(a) + Len(b)
          /\ \A i \in 1 .. Len(a) + Len(b) : (a \o b)[i] = IF i <= Len(a) THEN a[i] ELSE b[i - Len(a)]
      BY <3>1, ConcatFacts
    <3>4. r = a \o b
      BY <2>3 DEF RemoveAt, a, b
    <3> HIDE DEF r
    <3>5. DOMAIN r = 1 .. Len(s) - 1
      <4>1. r \in Seq(S) /\ Len(r) = Len(s) - 1
        <5>1. r \in Seq(S) /\ Len(r) = Len(a) + Len(b)
          BY <3>3, <3>4, Zenon
        <5>2. QED  BY <2>1, <3>1, <5>1
      <4>2. QED  BY <4>1
    <3>6. ASSUME NEW i \in 1 .. Len(s) - 1, i >= at PROVE r[i] = s[i + 1]
      <4>1. r[i] = b[i - (at - 1)] /\ i - (at - 1) \in 1 .. Len(s) - at /\ at + (i - (at - 1)) = i + 1
        BY <2>1, <3>1, <3>3, <3>4, <3>6
      <4>2. QED  BY <3>2, <4>1
    <3>7. ASSUME NEW i \in 1 .. Len(s) - 1, i < at PROVE r[i] = s[i]
      BY <2>1, <3>1, <3>3, <3>4, <3>7
    <3>8. QED  BY <3>1, <3>3, <3>4, <3>5, <3>6, <3>7
  <2> HIDE DEF r
  <2> DEFINE from(i) == IF i < at THEN i ELSE i + 1
  <2>f. \A i \in DOMAIN r : from(i) \in DOMAIN s /\ r[i] = s[from(i)] /\ i <= from(i) /\ from(i) # at
    BY <2>1, <2>4
  <2>g. \A i, j \in DOMAIN r : from(i) < from(j) <=> i < j
    BY <2>1, <2>4
  <2>h. DOMAIN r \subseteq Int
    BY <2>4
  <2> HIDE DEF from
  <2>5. Once(r)
    <3>1. \A i, j \in DOMAIN r : from(i) = from(j) => i = j
      BY <2>h, <2>g, <2>f, <2>4
    <3>2. QED  BY <2>f, <3>1 DEF Once
  <2>6. ASSUME NEW i \in DOMAIN s, i # at PROVE In(r, s[i])
    <3>1. CASE i < at
      BY <2>1, <2>4, <3>1 DEF In
    <3>2. CASE i > at
      <4>1. i - 1 \in DOMAIN r /\ r[i - 1] = s[i]
        BY <2>1, <2>4, <3>2
      <4>2. QED  BY <4>1 DEF In
    <3>3. QED  BY <2>1, <2>4, <2>6, <3>1, <3>2
  <2>7. \A i \in DOMAIN r : \E m \in DOMAIN s : s[m] = r[i] /\ i <= m /\ m # at
    BY <2>f
  <2>8. \A y : In(r, y) <=> In(s, y) /\ y # e
    BY <2>1, <2>4, <2>6, <2>7 DEF In, Once
  <2>9. ASSUME NEW p \in DOMAIN r, NEW q \in DOMAIN r, NEW m \in DOMAIN s, NEW n \in DOMAIN s,
               r[p] = s[m], r[q] = s[n], m < n
        PROVE  p < q
    <3>1. m = from(p) /\ n = from(q)
      BY <2>f, <2>9 DEF Once
    <3>2. QED  BY <2>g, <2>9, <3>1
  <2>10. QED  BY <2>4, <2>5, <2>7, <2>8, <2>9 DEF r
<1>3. QED  BY <1>1, <1>2
-----------------------------------------------------------------------------
OnStack(l) == \E k \in DOMAIN stack : stack[k].of = l

-----------------------------------------------------------------------------
(***************************************************************************)
(* The shape of lists and calls, whatever has been thrown.  A list, and    *)
(* what is left of a call's copy, holds an item once; a nested lifetime is *)
(* terminated by its parent only, and the removal from the parent's list   *)
(* is the first in the list, so the last to be done.  Calls are nested as  *)
(* lifetimes are: there is a rank that grows from parents to children and  *)
(* up the stack.                                                           *)
(***************************************************************************)
Belongs(l, x) ==
  /\ x.do = "run" => In(added, [of |-> l, what |-> x.what])
  /\ x.do = "terminate" => x.what \in created \ {Root} /\ Parent[x.what] = l
  /\ x.do \in {"unlink", "dispose"} => x.what = l
  /\ x.do = "unlink" => l # Root

ListFits(l, s) ==
  /\ Once(s)
  /\ \A i \in DOMAIN s : Belongs(l, s[i]) /\ (s[i].do = "unlink" => i = 1)

Lists ==
  \A l \in Lifetimes : ListFits(l, actions[l]) /\ (l \notin created => actions[l] = << >>)

CallFits(l, s) ==
  /\ Once(s)
  /\ \A i \in DOMAIN s : Belongs(l, s[i]) /\ (s[i].do = "unlink" => i = Len(s))

Calls ==
  \A k \in DOMAIN stack : stack[k].of \in isTerminated /\ CallFits(stack[k].of, stack[k].rest)

Ranked(rank) ==
  /\ \A c \in created \ {Root} : Parent[c] \in created /\ rank[Parent[c]] < rank[c]
  /\ \A j, k \in DOMAIN stack : j < k => rank[stack[j].of] < rank[stack[k].of]

AddedOnce ==
  /\ \A i, j \in DOMAIN added : added[i].what = added[j].what => i = j
  /\ \A i \in DOMAIN added :
       added[i].what \in Lifetimes => added[i].what # Root /\ added[i].of = Parent[added[i].what]
  /\ adder # None => \A i \in DOMAIN added : added[i].what # adder.what

ShapeInv ==
  /\ TypeOK /\ Root \in created
  /\ Lists /\ Calls /\ AddedOnce
  /\ \E rank \in [created -> Nat] : Ranked(rank)

-----------------------------------------------------------------------------
(***************************************************************************)
(* As long as no action throws, the links between lifetimes are true: a    *)
(* nested lifetime that was terminated has left its parent's list, or is   *)
(* on the stack and will do so before its call returns.                    *)
(***************************************************************************)
Links ==
  /\ \A l \in created \ isTerminated :
       /\ l # Root => In(actions[l], Unlink(l))
       /\ \A c \in isTerminated : In(actions[l], Terminate(c)) => OnStack(c)
  /\ \A k \in DOMAIN stack :
       /\ \A c \in isTerminated : ~In(stack[k].rest, Terminate(c))
       /\ stack[k].of # Root =>
            \/ In(stack[k].rest, Unlink(stack[k].of))
            \/ ~In(actions[Parent[stack[k].of]], Terminate(stack[k].of))

LinkInv == ~faults => Links /\ ~several

-----------------------------------------------------------------------------
(***************************************************************************)
(* What was added is in its list until its lifetime is terminated, and     *)
(* then to be done or done.                                                *)
(***************************************************************************)
Entry(x) == IF x \in Lifetimes THEN Terminate(x) ELSE Run(x)

Waits(i) == In(actions[added[i].of], Entry(added[i].what))

Comes(i) ==
  \E k \in DOMAIN stack :
    stack[k].of = added[i].of /\ In(stack[k].rest, Entry(added[i].what))

Over(x) == x \in isTerminated \/ In(ran, x)

Kept ==
  \A i \in DOMAIN added :
    IF added[i].of \in isTerminated
      THEN Over(added[i].what) \/ added[i].what \in late \/ Comes(i)
      ELSE Waits(i) \/ added[i].what \in isTerminated

KeptInv == ~faults => Kept

-----------------------------------------------------------------------------
(***************************************************************************)
(* What ran is in no copy and no list that can still be copied.            *)
(***************************************************************************)
RanInv ==
  /\ RunsOnce
  /\ \A x \in Actions : In(ran, x) =>
       /\ \E i \in DOMAIN added : added[i].what = x /\ added[i].of \in isTerminated
       /\ \A k \in DOMAIN stack : ~In(stack[k].rest, Run(x))

-----------------------------------------------------------------------------
(***************************************************************************)
(* Backwards.  Lists keep the order of additions, copies reverse it, and   *)
(* when an action was run, what was added after it is over for good.       *)
(***************************************************************************)
Later(i, j) == i < j /\ added[i].of = added[j].of

ListsInOrder ==
  \A i, j \in DOMAIN added :
    Later(i, j) /\ added[i].of \notin isTerminated =>
      /\ Waits(j) \/ added[j].what \in isTerminated
      /\ \A p, q \in DOMAIN actions[added[i].of] :
           /\ actions[added[i].of][p] = Entry(added[i].what)
           /\ actions[added[i].of][q] = Entry(added[j].what)
           => p < q

CallsReversed ==
  \A k \in DOMAIN stack : \A i, j \in DOMAIN added : \A p \in DOMAIN stack[k].rest :
    (/\ Later(i, j) /\ added[i].of = stack[k].of
     /\ stack[k].rest[p] = Entry(added[i].what) /\ added[j].what \notin late)
    => \/ Over(added[j].what)
       \/ \E q \in DOMAIN stack[k].rest : q < p /\ stack[k].rest[q] = Entry(added[j].what)

\* Position p of ran is after all that ran of lifetime c.
AfterAll(p, c) ==
  \A q \in DOMAIN ran : \A n \in DOMAIN added :
    added[n].of = c /\ added[n].what = ran[q] => q < p

DoneBackwards ==
  \A i, j \in DOMAIN added : \A p \in DOMAIN ran :
    Later(i, j) /\ ran[p] = added[i].what /\ added[j].what \notin late =>
      /\ Over(added[j].what) /\ ~OnStack(added[j].what)
      /\ \A q \in DOMAIN ran : ran[q] = added[j].what => q < p
      /\ AfterAll(p, added[j].what)

OrderInv == ListsInOrder /\ CallsReversed /\ DoneBackwards

-----------------------------------------------------------------------------
(***************************************************************************)
(* How a step moves the stack.                                             *)
(***************************************************************************)
Frames == [of : created, rest : Seq(Items)]

LEMMA FramesAre ==
  ASSUME NEW s \in Seq(Frames), NEW k \in DOMAIN s
  PROVE  /\ s[k].of \in created /\ s[k].rest \in Seq(Items)
         /\ DOMAIN s = 1 .. Len(s) /\ Len(s) \in Nat
<1>1. s[k] \in Frames /\ DOMAIN s = 1 .. Len(s) /\ Len(s) \in Nat
  OBVIOUS
<1>2. QED  BY <1>1 DEF Frames

LEMMA TopFacts ==
  ASSUME TypeOK, stack # << >>
  PROVE  /\ stack \in Seq(Frames) /\ Len(stack) \in Nat \ {0} /\ DOMAIN stack = 1 .. Len(stack)
         /\ Top = stack[Len(stack)] /\ Top \in Frames
         /\ Top.of \in created /\ Top.rest \in Seq(Items)
<1>1. stack \in Seq(Frames)
  BY DEF TypeOK, Frames
<1>2. /\ Len(stack) \in Nat \ {0} /\ DOMAIN stack = 1 .. Len(stack)
      /\ stack[Len(stack)] \in Frames
  BY <1>1
<1>3. QED  BY <1>1, <1>2 DEF Top, Last, Frames

LEMMA FrontFacts ==
  ASSUME TypeOK, stack # << >>
  PROVE  /\ Front(stack) \in Seq(Frames) /\ DOMAIN Front(stack) = 1 .. Len(stack) - 1
         /\ Len(Front(stack)) = Len(stack) - 1
         /\ \A k \in 1 .. Len(stack) - 1 : Front(stack)[k] = stack[k]
BY TopFacts DEF Front

LEMMA PoppedFacts ==
  ASSUME TypeOK, stack # << >>, Top.rest # << >>
  PROVE  /\ Popped \in Seq(Frames) /\ DOMAIN Popped = 1 .. Len(stack) /\ Len(Popped) = Len(stack)
         /\ \A k \in 1 .. Len(stack) - 1 : Popped[k] = stack[k]
         /\ Popped[Len(stack)] = [of |-> Top.of, rest |-> Tail(Top.rest)]
         /\ Item \in Items /\ Tail(Top.rest) \in Seq(Items)
<1>1. Item \in Items /\ Tail(Top.rest) \in Seq(Items)
  BY TopFacts, TailFacts DEF Item
<1>2. [Top EXCEPT !.rest = Tail(@)] = [of |-> Top.of, rest |-> Tail(Top.rest)]
  <2>1. ASSUME NEW A, NEW B, NEW t \in [of : A, rest : B], NEW s
        PROVE  [t EXCEPT !.rest = s] = [of |-> t.of, rest |-> s]
    OBVIOUS
  <2>2. QED  BY <2>1, TopFacts, Zenon DEF Frames
<1>3. [of |-> Top.of, rest |-> Tail(Top.rest)] \in Frames
  BY <1>1, TopFacts DEF Frames
<1>4. Popped = Append(Front(stack), [of |-> Top.of, rest |-> Tail(Top.rest)])
  BY <1>2 DEF Popped
<1> DEFINE f == Front(stack)
           t == [of |-> Top.of, rest |-> Tail(Top.rest)]
<1>5. f \in Seq(Frames) /\ t \in Frames /\ Len(f) = Len(stack) - 1 /\ Len(stack) \in Nat
  BY <1>3, FrontFacts, TopFacts
<1>6. /\ Append(f, t) \in Seq(Frames) /\ DOMAIN Append(f, t) = 1 .. Len(f) + 1
      /\ \A k \in 1 .. Len(f) : Append(f, t)[k] = f[k]
      /\ Append(f, t)[Len(f) + 1] = t /\ Len(Append(f, t)) = Len(f) + 1
  <2> HIDE DEF f, t
  <2>1. QED  BY <1>5, AppendFacts
<1>7. Len(f) + 1 = Len(stack)
  BY <1>5
<1>8. QED  BY <1>1, <1>4, <1>5, <1>6, <1>7, FrontFacts

\* A frame stays as it is, loses its first item, or is that of a call that
\* has just been made.
FrameStep(k) ==
  \/ k \in DOMAIN stack /\ stack'[k] = stack[k]
  \/ /\ k \in DOMAIN stack /\ k = Len(stack) /\ stack[k].rest # << >>
     /\ stack'[k] = [of |-> stack[k].of, rest |-> Tail(stack[k].rest)]
  \/ /\ k \notin DOMAIN stack /\ k = Len(stack')
     /\ stack'[k].of \notin isTerminated /\ stack'[k].of \in isTerminated'
     /\ stack'[k].rest = Reverse(actions[stack'[k].of])

Moves == stack' \in Seq(Frames) /\ \A k \in DOMAIN stack' : FrameStep(k)

LEMMA StackEmptied ==
  ASSUME stack' = << >>
  PROVE  Moves
BY DEF Moves

LEMMA StackKept ==
  ASSUME TypeOK, UNCHANGED stack
  PROVE  Moves
BY DEF Moves, FrameStep, TypeOK, Frames

LEMMA StackPopped ==
  ASSUME TypeOK, stack # << >>, Top.rest # << >>, stack' = Popped
  PROVE  Moves
BY TopFacts, PoppedFacts DEF Moves, FrameStep

LEMMA StackReturns ==
  ASSUME TypeOK, stack # << >>, stack' = Front(stack)
  PROVE  Moves
BY TopFacts, FrontFacts DEF Moves, FrameStep

LEMMA StackEntered ==
  ASSUME TypeOK, NEW l \in created, NEW below, Enter(l, below),
         \/ stack = << >> /\ below = << >>
         \/ stack # << >> /\ Top.rest # << >> /\ below = Popped
  PROVE  /\ Moves
         /\ \/ l \in isTerminated /\ stack' = << >> /\ several' = TRUE /\ UNCHANGED isTerminated
            \/ /\ l \notin isTerminated /\ isTerminated' = isTerminated \cup {l}
               /\ Len(stack') = Len(stack) + 1 /\ stack'[Len(stack')].of = l /\ UNCHANGED several
<1>1. CASE l \in isTerminated
  BY <1>1, StackEmptied DEF Enter
<1>2. CASE l \notin isTerminated
  <2> DEFINE t == [of |-> l, rest |-> Reverse(actions[l])]
  <2>1. /\ isTerminated' = isTerminated \cup {l} /\ stack' = Append(below, t) /\ UNCHANGED several
    BY <1>2 DEF Enter
  <2>2. t \in Frames
    <3>1. actions[l] \in Seq(Items)
      BY DEF TypeOK
    <3>2. Reverse(actions[l]) \in Seq(Items)
      BY <3>1, ReverseFacts
    <3>3. QED  BY <3>2 DEF Frames
  <2>3. below \in Seq(Frames) /\ Len(below) = Len(stack) /\ DOMAIN stack = 1 .. Len(stack) /\ Len(stack) \in Nat
    <3>1. CASE stack = << >>
      BY <3>1
    <3>2. CASE stack # << >>
      BY <3>2, TopFacts, PoppedFacts
    <3>3. QED  BY <3>1, <3>2
  <2>4. /\ Append(below, t) \in Seq(Frames) /\ DOMAIN Append(below, t) = 1 .. Len(below) + 1
        /\ \A k \in 1 .. Len(below) : Append(below, t)[k] = below[k]
        /\ Append(below, t)[Len(below) + 1] = t /\ Len(Append(below, t)) = Len(below) + 1
    <3> HIDE DEF t
    <3>1. QED  BY <2>2, <2>3, AppendFacts
  <2>5. ASSUME NEW k \in DOMAIN stack' PROVE FrameStep(k)
    <3>1. CASE k = Len(stack) + 1
      BY <1>2, <2>1, <2>3, <2>4, <3>1 DEF FrameStep
    <3>2. CASE k # Len(stack) + 1 /\ stack # << >>
      <4>1. k \in 1 .. Len(stack) /\ stack'[k] = below[k] /\ below = Popped
        BY <2>1, <2>3, <2>4, <3>2
      <4>2. CASE k = Len(stack)
        BY <2>3, <4>1, <4>2, TopFacts, PoppedFacts DEF FrameStep
      <4>3. CASE k # Len(stack)
        BY <2>3, <4>1, <4>3, TopFacts, PoppedFacts DEF FrameStep
      <4>4. QED  BY <4>2, <4>3
    <3>3. CASE stack = << >>
      <4>1. k = Len(stack) + 1
        BY <2>1, <2>3, <2>4, <3>3
      <4>2. QED  BY <3>1, <4>1
    <3>4. QED  BY <3>1, <3>2, <3>3
  <2>6. Moves
    BY <2>1, <2>4, <2>5 DEF Moves
  <2>7. QED  BY <1>2, <2>1, <2>3, <2>4, <2>6
<1>3. QED  BY <1>1, <1>2

-----------------------------------------------------------------------------
(***************************************************************************)
(* Every step keeps the shape.                                             *)
(***************************************************************************)
Grows ==
  /\ created \subseteq created' /\ isTerminated \subseteq isTerminated'
  /\ \A a : In(added, a) => In(added', a)

LEMMA BelongsKept ==
  ASSUME Grows, NEW l, NEW x, Belongs(l, x)
  PROVE  Belongs(l, x)'
BY DEF Grows, Belongs

LEMMA FitsKept ==
  ASSUME Grows, NEW l, NEW s
  PROVE  /\ ListFits(l, s) => ListFits(l, s)'
         /\ CallFits(l, s) => CallFits(l, s)'
BY BelongsKept DEF Grows, ListFits, CallFits

LEMMA TailFits ==
  ASSUME NEW l, NEW s \in Seq(Items), s # << >>, CallFits(l, s)
  PROVE  CallFits(l, Tail(s))
BY TailFacts DEF CallFits

LEMMA ReverseFits ==
  ASSUME NEW l, NEW s \in Seq(Items), ListFits(l, s)
  PROVE  CallFits(l, Reverse(s))
<1>1. ASSUME NEW i \in 1 .. Len(s)
      PROVE  /\ Belongs(l, s[Len(s) - i + 1])
             /\ s[Len(s) - i + 1].do = "unlink" => i = Len(s)
  <2>1. Len(s) - i + 1 \in DOMAIN s /\ (Len(s) - i + 1 = 1 => i = Len(s))
    OBVIOUS
  <2>2. QED  BY <2>1 DEF ListFits
<1>2. QED  BY <1>1, ReverseFacts DEF ListFits, CallFits

LEMMA CallsKept ==
  ASSUME ShapeInv, Moves, Grows
  PROVE  Calls'
<1> SUFFICES ASSUME NEW k \in DOMAIN stack', NEW l, NEW s, l = stack'[k].of, s = stack'[k].rest
             PROVE  l \in isTerminated' /\ CallFits(l, s)'
  BY DEF Calls, CallFits
<1>0. Calls /\ Lists /\ TypeOK
  BY DEF ShapeInv
<1>t. l \in created /\ s \in Seq(Items)
  BY FramesAre DEF Moves
<1>1. CASE k \in DOMAIN stack /\ stack'[k] = stack[k]
  BY <1>0, <1>1, FitsKept DEF Calls, Grows
<1>2. CASE /\ k \in DOMAIN stack /\ stack[k].rest # << >>
           /\ stack'[k] = [of |-> stack[k].of, rest |-> Tail(stack[k].rest)]
  <2>1. /\ stack[k].rest \in Seq(Items) /\ stack[k].of \in isTerminated
        /\ CallFits(stack[k].of, stack[k].rest)
    BY <1>0, <1>2, FramesAre DEF TypeOK, Frames, Calls
  <2>2. l \in isTerminated /\ CallFits(l, s)
    BY <1>2, <2>1, TailFits
  <2>3. QED  BY <2>2, FitsKept DEF Grows
<1>3. CASE l \in isTerminated' /\ s = Reverse(actions[l])
  <2>1. actions[l] \in Seq(Items) /\ ListFits(l, actions[l])
    BY <1>0, <1>t DEF TypeOK, Lists
  <2>2. CallFits(l, s)
    BY <1>3, <2>1, ReverseFits
  <2>3. QED  BY <1>3, <2>2, FitsKept
<1>4. FrameStep(k)
  BY DEF Moves
<1>5. QED  BY <1>1, <1>2, <1>3, <1>4 DEF FrameStep

\* A call is made for a child of the innermost one, or on an empty stack.
CallsChild ==
  \A k \in DOMAIN stack' \ DOMAIN stack :
    stack # << >> => stack'[k].of # Root /\ Parent[stack'[k].of] = Top.of

LEMMA RankKept ==
  ASSUME ShapeInv, Moves, CallsChild, UNCHANGED created
  PROVE  \E rank \in [created' -> Nat] : Ranked(rank)'
<1>1. PICK rank \in [created -> Nat] : Ranked(rank)
  BY DEF ShapeInv
<1>t. TypeOK
  BY DEF ShapeInv
<1>2. ASSUME NEW j \in DOMAIN stack', NEW k \in DOMAIN stack', j < k
      PROVE  rank[stack'[j].of] < rank[stack'[k].of]
  <2>0. /\ FrameStep(j) /\ FrameStep(k) /\ DOMAIN stack' = 1 .. Len(stack') /\ Len(stack') \in Nat
        /\ stack'[j].of \in created /\ stack'[k].of \in created
    BY FramesAre DEF Moves
  <2>1. j \in DOMAIN stack /\ stack'[j].of = stack[j].of
    BY <1>2, <2>0 DEF FrameStep
  <2>2. CASE k \in DOMAIN stack
    <3>1. stack'[k].of = stack[k].of
      BY <2>0, <2>2 DEF FrameStep
    <3>2. QED  BY <1>1, <1>2, <2>1, <2>2, <3>1 DEF Ranked
  <2>3. CASE k \notin DOMAIN stack
    <3>1. stack # << >>
      BY <2>1
    <3>2. /\ stack'[k].of # Root /\ Parent[stack'[k].of] = Top.of
          /\ Top = stack[Len(stack)] /\ Len(stack) \in DOMAIN stack /\ j <= Len(stack)
          /\ j \in Nat /\ Top.of \in created
      BY <1>t, <2>1, <2>3, <3>1, TopFacts DEF CallsChild
    <3>3. rank[Top.of] < rank[stack'[k].of]
      BY <1>1, <2>0, <3>2 DEF Ranked
    <3>4. rank[stack[j].of] <= rank[Top.of]
      <4>1. CASE j = Len(stack)
        BY <1>1, <3>2, <4>1
      <4>2. CASE j < Len(stack)
        <5>1. rank[stack[j].of] < rank[stack[Len(stack)].of]
          BY <1>1, <2>1, <3>2, <4>2 DEF Ranked
        <5>2. rank[stack[j].of] \in Nat /\ rank[Top.of] \in Nat
          BY <1>1, <2>0, <2>1, <3>2
        <5>3. QED  BY <3>2, <5>1, <5>2
      <4>3. QED  BY <3>2, <4>1, <4>2
    <3>5. QED
      <4>1. rank[stack[j].of] \in Nat /\ rank[Top.of] \in Nat /\ rank[stack'[k].of] \in Nat
        BY <1>1, <2>0, <2>1, <3>2
      <4>2. QED  BY <2>1, <3>3, <3>4, <4>1
  <2>4. QED  BY <2>2, <2>3
<1>3. Ranked(rank)'
  BY <1>1, <1>2 DEF Ranked
<1>4. QED  BY <1>1, <1>3

LEMMA InitShape ==
  ASSUME LifetimeAssumption, Init
  PROVE  ShapeInv
<1>1. TypeOK /\ Root \in created
  <2>1. \A S : << >> \in Seq(S)
    OBVIOUS
  <2>2. actions \in [Lifetimes -> Seq(Items)]
    BY <2>1 DEF Init
  <2>3. QED  BY <2>1, <2>2, Zenon DEF LifetimeAssumption, Init, TypeOK
<1>2. Lists /\ Calls /\ AddedOnce
  BY DEF Init, Lists, ListFits, Calls, AddedOnce, Once
<1>3. [l \in created |-> 0] \in [created -> Nat] /\ Ranked([l \in created |-> 0])
  BY DEF Init, Ranked
<1>4. QED  BY <1>1, <1>2, <1>3 DEF ShapeInv

\* A step of terminate(), or of its caller.
LEMMA QuietShape ==
  ASSUME ShapeInv, Moves, CallsChild, UNCHANGED <<created, adder, added, late>>,
         isTerminated \subseteq isTerminated', isTerminated' \subseteq created, disposed' \subseteq created,
         ran' \in Seq(Actions), faults' \in BOOLEAN, several' \in BOOLEAN,
         actions' \in [Lifetimes -> Seq(Items)],
         \A l \in Lifetimes : \A s : s = actions'[l] => ListFits(l, s) /\ (l \notin created => s = << >>)
  PROVE  ShapeInv'
<1>1. Grows
  BY DEF Grows
<1>2. TypeOK' /\ Root \in created'
  BY DEF ShapeInv, TypeOK, Moves, Frames
<1>3. Lists'
  <2>1. ASSUME NEW l \in Lifetimes, NEW s, s = actions'[l]
        PROVE  ListFits(l, s)' /\ (l \notin created' => s = << >>)
    BY <1>1, <2>1, FitsKept
  <2>2. QED  BY <2>1 DEF Lists, ListFits
<1>4. Calls'
  BY <1>1, CallsKept
<1>5. AddedOnce'
  BY DEF ShapeInv, AddedOnce
<1>6. QED  BY <1>2, <1>3, <1>4, <1>5, RankKept DEF ShapeInv

LEMMA ActionsKept ==
  ASSUME ShapeInv, UNCHANGED actions
  PROVE  /\ actions' \in [Lifetimes -> Seq(Items)]
         /\ \A l \in Lifetimes : \A s : s = actions'[l] => ListFits(l, s) /\ (l \notin created => s = << >>)
BY DEF ShapeInv, TypeOK, Lists

LEMMA ActionsReplaced ==
  ASSUME ShapeInv, NEW m \in Lifetimes, NEW t \in Seq(Items),
         ListFits(m, t), m \notin created => t = << >>, actions' = [actions EXCEPT ![m] = t]
  PROVE  /\ actions' \in [Lifetimes -> Seq(Items)]
         /\ \A l \in Lifetimes : \A s : s = actions'[l] => ListFits(l, s) /\ (l \notin created => s = << >>)
BY DEF ShapeInv, TypeOK, Lists

\* The item that the innermost call does next.
LEMMA ItemFacts ==
  ASSUME ShapeInv, stack # << >>, Top.rest # << >>
  PROVE  /\ Item \in Items /\ Belongs(Top.of, Item) /\ Top.of \in isTerminated
         /\ Top.of \in created /\ Top.of \in Lifetimes /\ Item = Top.rest[1]
         /\ Item.do = "unlink" => Len(Top.rest) = 1
<1>1. TypeOK /\ Calls
  BY DEF ShapeInv
<1>2. Top.of \in isTerminated /\ CallFits(Top.of, Top.rest) /\ Top.of \in created /\ Top.rest \in Seq(Items)
  BY <1>1, TopFacts DEF Calls
<1>3. Item = Top.rest[1] /\ Item \in Items /\ 1 \in DOMAIN Top.rest
  BY <1>2, TailFacts DEF Item
<1>4. Top.of \in Lifetimes
  BY <1>1, <1>2 DEF TypeOK
<1>5. QED  BY <1>2, <1>3, <1>4 DEF CallFits

LEMMA EnterShape ==
  ASSUME LifetimeAssumption, ShapeInv, NEW l \in created, NEW below, Enter(l, below),
         \/ stack = << >> /\ below = << >>
         \/ /\ stack # << >> /\ Top.rest # << >> /\ below = Popped
            /\ l # Root /\ Parent[l] = Top.of,
         disposed' \subseteq created, UNCHANGED <<created, actions, adder, added, late, ran, faults>>
  PROVE  ShapeInv'
<1>1. TypeOK
  BY DEF ShapeInv
<1>2. /\ Moves
      /\ \/ l \in isTerminated /\ stack' = << >> /\ several' = TRUE /\ UNCHANGED isTerminated
         \/ /\ l \notin isTerminated /\ isTerminated' = isTerminated \cup {l}
            /\ Len(stack') = Len(stack) + 1 /\ stack'[Len(stack')].of = l /\ UNCHANGED several
  BY <1>1, StackEntered
<1>3. /\ isTerminated \subseteq isTerminated' /\ isTerminated' \subseteq created
      /\ ran' \in Seq(Actions) /\ faults' \in BOOLEAN /\ several' \in BOOLEAN
  BY <1>1, <1>2 DEF TypeOK
<1>4. CallsChild
  <2>1. ASSUME NEW k \in DOMAIN stack' \ DOMAIN stack, stack # << >>
        PROVE  stack'[k].of # Root /\ Parent[stack'[k].of] = Top.of
    <3>1. stack' # << >> /\ k = Len(stack')
      BY <1>2, <2>1 DEF Moves, FrameStep
    <3>2. QED  BY <1>2, <2>1, <3>1
  <2>2. QED  BY <2>1 DEF CallsChild
<1>5. QED  BY <1>2, <1>3, <1>4, ActionsKept, QuietShape

-----------------------------------------------------------------------------
\* terminate() and dispose() by an owner or by the platform.
LEMMA OwnersShape ==
  ASSUME LifetimeAssumption, ShapeInv, NEW l \in Lifetimes, terminate(l) \/ dispose(l)
  PROVE  ShapeInv'
<1>0. TypeOK /\ Lists
  BY DEF ShapeInv
<1>1. CASE terminate(l)
  <2>1. /\ stack = << >> /\ l \in created /\ Enter(l, << >>)
        /\ UNCHANGED <<created, actions, disposed, adder, added, late, ran, faults>>
    BY <1>1 DEF terminate
  <2>2. disposed' \subseteq created
    BY <1>0, <2>1 DEF TypeOK
  <2>3. QED  BY <2>1, <2>2, EnterShape
<1>2. CASE dispose(l)
  <2>1. /\ stack = << >> /\ disposed' = disposed \cup {l} /\ actions[l] # << >>
        /\ UNCHANGED <<created, actions, adder, added, late, ran, faults>>
    BY <1>2 DEF dispose
  <2>2. l \in created /\ disposed' \subseteq created
    BY <1>0, <2>1 DEF TypeOK, Lists
  <2>3. CASE l \in isTerminated
    <3>1. UNCHANGED <<isTerminated, stack, several>>
      BY <1>2, <2>3 DEF dispose
    <3>2. Moves /\ CallsChild
      BY <1>0, <3>1, StackKept DEF CallsChild
    <3>3. /\ isTerminated' \subseteq created /\ ran' \in Seq(Actions)
          /\ faults' \in BOOLEAN /\ several' \in BOOLEAN
      BY <1>0, <2>1, <3>1 DEF TypeOK
    <3>4. QED  BY <2>1, <2>2, <3>1, <3>2, <3>3, ActionsKept, QuietShape
  <2>4. CASE l \notin isTerminated
    <3>1. Enter(l, << >>)
      BY <1>2, <2>4 DEF dispose
    <3>2. QED  BY <2>1, <2>2, <3>1, EnterShape
  <2>5. QED  BY <2>3, <2>4
<1>3. QED  BY <1>1, <1>2

\* The next item of the innermost call, and its return.
LEMMA CallShape ==
  ASSUME LifetimeAssumption, ShapeInv,
         RunAction \/ TerminateNested \/ UnlinkNested \/ DisposeOwn \/ terminateReturns
  PROVE  ShapeInv'
<1>0. TypeOK /\ Lists
  BY DEF ShapeInv
<1>1. CASE TerminateNested
  <2>1. /\ stack # << >> /\ Top.rest # << >> /\ Item.do = "terminate" /\ Enter(Item.what, Popped)
        /\ UNCHANGED <<created, actions, disposed, adder, added, late, ran, faults>>
    BY <1>1 DEF TerminateNested, InAction
  <2>2. Item.what \in created /\ Item.what # Root /\ Parent[Item.what] = Top.of
    BY <2>1, ItemFacts DEF Belongs
  <2>3. disposed' \subseteq created
    BY <1>0, <2>1 DEF TypeOK
  <2>4. QED  BY <2>1, <2>2, <2>3, EnterShape
<1>2. CASE RunAction
  <2>1. /\ stack # << >> /\ Top.rest # << >> /\ Item.do = "run" /\ ran' = Append(ran, Item.what)
        /\ \/ stack' = Popped /\ UNCHANGED faults
           \/ stack' = << >> /\ faults' = TRUE
        /\ UNCHANGED <<created, isTerminated, actions, disposed, adder, added, late, several>>
    BY <1>2 DEF RunAction, InAction
  <2>2. Moves /\ CallsChild
    BY <1>0, <2>1, StackEmptied, StackPopped, TopFacts, PoppedFacts DEF CallsChild
  <2>3. Item.what \in Actions
    BY <2>1, ItemFacts DEF Items
  <2>4. /\ isTerminated' \subseteq created /\ disposed' \subseteq created /\ ran' \in Seq(Actions)
        /\ faults' \in BOOLEAN /\ several' \in BOOLEAN
    <3>1. ran \in Seq(Actions) /\ Append(ran, Item.what) \in Seq(Actions)
      BY <1>0, <2>3 DEF TypeOK
    <3>2. QED  BY <1>0, <2>1, <3>1, Zenon DEF TypeOK
  <2>5. QED  BY <2>1, <2>2, <2>4, ActionsKept, QuietShape
<1>3. CASE UnlinkNested
  <2>1. /\ stack # << >> /\ Top.rest # << >> /\ Item.do = "unlink" /\ stack' = Popped
        /\ actions' = [actions EXCEPT ![Parent[Item.what]] = RemoveFirst(@, Terminate(Item.what))]
        /\ UNCHANGED <<created, isTerminated, disposed, adder, added, late, ran, faults, several>>
    BY <1>3 DEF UnlinkNested, InAction
  <2>2. Moves /\ CallsChild
    BY <1>0, <2>1, StackPopped, TopFacts, PoppedFacts DEF CallsChild
  <2>3. /\ isTerminated' \subseteq created /\ disposed' \subseteq created /\ ran' \in Seq(Actions)
        /\ faults' \in BOOLEAN /\ several' \in BOOLEAN
    BY <1>0, <2>1 DEF TypeOK
  <2>4. PICK c, m : c = Item.what /\ m = Parent[c]
    OBVIOUS
  <2>5. m \in Lifetimes
    BY <2>1, <2>4, ItemFacts DEF Belongs, LifetimeAssumption
  <2>6. actions[m] \in Seq(Items) /\ ListFits(m, actions[m]) /\ (m \notin created => actions[m] = << >>)
    BY <1>0, <2>5 DEF TypeOK, Lists
  <2>7. PICK s, t : s = actions[m] /\ t = RemoveFirst(s, Terminate(c))
    OBVIOUS
  <2>8. /\ t \in Seq(Items) /\ Once(t)
        /\ \A y : In(t, y) <=> In(s, y) /\ y # Terminate(c)
        /\ \A i \in DOMAIN t : \E n \in DOMAIN s : s[n] = t[i] /\ i <= n
        /\ DOMAIN t = 1 .. Len(t)
    BY <2>6, <2>7, RemoveFacts DEF ListFits
  <2>9. ListFits(m, t)
    <3>1. ASSUME NEW i \in DOMAIN t PROVE Belongs(m, t[i]) /\ (t[i].do = "unlink" => i = 1)
      <4>1. PICK n \in DOMAIN s : s[n] = t[i] /\ i <= n
        BY <2>8
      <4>2. QED  BY <2>6, <2>7, <2>8, <4>1 DEF ListFits
    <3>2. QED  BY <2>8, <3>1 DEF ListFits
  <2>10. m \notin created => t = << >>
    <3>1. m \notin created => DOMAIN t = {}
      BY <2>6, <2>7, <2>8
    <3>2. QED  BY <2>8, <3>1
  <2>11. actions' = [actions EXCEPT ![m] = t]
    BY <2>1, <2>4, <2>7
  <2>12. QED  BY <2>1, <2>2, <2>3, <2>5, <2>8, <2>9, <2>10, <2>11, ActionsReplaced, QuietShape
<1>4. CASE DisposeOwn
  <2>1. /\ stack # << >> /\ Top.rest # << >> /\ Item.do = "dispose" /\ stack' = Popped
        /\ disposed' = disposed \cup {Item.what}
        /\ UNCHANGED <<created, isTerminated, actions, adder, added, late, ran, faults, several>>
    BY <1>4 DEF DisposeOwn, InAction
  <2>2. Moves /\ CallsChild
    BY <1>0, <2>1, StackPopped, TopFacts, PoppedFacts DEF CallsChild
  <2>3. Item.what \in created
    BY <2>1, ItemFacts DEF Belongs
  <2>4. /\ isTerminated' \subseteq created /\ disposed' \subseteq created /\ ran' \in Seq(Actions)
        /\ faults' \in BOOLEAN /\ several' \in BOOLEAN
    BY <1>0, <2>1, <2>3 DEF TypeOK
  <2>5. QED  BY <2>1, <2>2, <2>4, ActionsKept, QuietShape
<1>5. CASE terminateReturns
  <2>1. /\ stack # << >> /\ stack' = Front(stack) /\ actions' = [actions EXCEPT ![Top.of] = << >>]
        /\ UNCHANGED <<created, isTerminated, disposed, adder, added, late, ran, faults, several>>
    BY <1>5 DEF terminateReturns
  <2>2. Moves /\ CallsChild
    BY <1>0, <2>1, StackReturns, TopFacts, FrontFacts DEF CallsChild
  <2>3. /\ isTerminated' \subseteq created /\ disposed' \subseteq created /\ ran' \in Seq(Actions)
        /\ faults' \in BOOLEAN /\ several' \in BOOLEAN
    BY <1>0, <2>1 DEF TypeOK
  <2>4. Top.of \in Lifetimes /\ << >> \in Seq(Items) /\ ListFits(Top.of, << >>)
    BY <1>0, <2>1, TopFacts DEF TypeOK, ListFits, Once
  <2>5. QED  BY <2>1, <2>2, <2>3, <2>4, ActionsReplaced, QuietShape
<1>6. QED  BY <1>1, <1>2, <1>3, <1>4, <1>5

-----------------------------------------------------------------------------
(***************************************************************************)
(* The additions.                                                          *)
(***************************************************************************)
LEMMA AddedAre ==
  ASSUME TypeOK, NEW i \in DOMAIN added
  PROVE  /\ added[i].of \in created /\ added[i].what \in Actions \cup created
         /\ added[i] = [of |-> added[i].of, what |-> added[i].what]
         /\ added[i] \in [of : created, what : Actions \cup created]
         /\ DOMAIN added = 1 .. Len(added) /\ Len(added) \in Nat
<1>1. /\ added[i] \in [of : created, what : Actions \cup created]
      /\ DOMAIN added = 1 .. Len(added) /\ Len(added) \in Nat
  <2>1. ASSUME NEW S, NEW s \in Seq(S), NEW k \in DOMAIN s
        PROVE  s[k] \in S /\ DOMAIN s = 1 .. Len(s) /\ Len(s) \in Nat
    OBVIOUS
  <2>2. QED  BY <2>1, Zenon DEF TypeOK
<1>2. QED  BY <1>1

LEMMA AppendFits ==
  ASSUME Grows, NEW l, NEW s \in Seq(Items), NEW x \in Items, ListFits(l, s),
         ~In(s, x), x.do # "unlink", Belongs(l, x)'
  PROVE  ListFits(l, Append(s, x))' /\ Append(s, x) \in Seq(Items)
<1>1. ListFits(l, s)'
  BY FitsKept
<1>2. QED  BY <1>1, AppendFacts DEF ListFits

\* added' has one more entry, of something new.
LEMMA AddedGrows ==
  ASSUME ShapeInv, NEW a, added' = Append(added, a),
         \A i \in DOMAIN added : added[i].what # a.what
  PROVE  /\ \A b : In(added, b) => In(added', b)
         /\ In(added', a)
         /\ DOMAIN added = 1 .. Len(added) /\ Len(added) \in Nat
         /\ DOMAIN added' = 1 .. Len(added) + 1
         /\ \A i \in 1 .. Len(added) : added'[i] = added[i]
         /\ added'[Len(added) + 1] = a
         /\ \A i, j \in DOMAIN added' : added'[i].what = added'[j].what => i = j
<1>1. /\ DOMAIN added = 1 .. Len(added) /\ Len(added) \in Nat
      /\ DOMAIN added' = 1 .. Len(added) + 1
      /\ \A i \in 1 .. Len(added) : added'[i] = added[i]
      /\ added'[Len(added) + 1] = a
  BY DEF ShapeInv, TypeOK
<1>2. \A i, j \in DOMAIN added : added[i].what = added[j].what => i = j
  BY DEF ShapeInv, AddedOnce
<1>3. \A i, j \in DOMAIN added' : added'[i].what = added'[j].what => i = j
  BY <1>1, <1>2
<1>4. QED  BY <1>1, <1>3 DEF In

LEMMA AddShape ==
  ASSUME LifetimeAssumption, ShapeInv, NEW l \in created, NEW x \in Actions,
         \A i \in DOMAIN added : added[i].what # x,
         added' = Append(added, [of |-> l, what |-> x]),
         actions' = [actions EXCEPT ![l] = Append(@, Run(x))],
         adder' \in {None, adder}, adder' # None => adder'.what # x,
         late' \subseteq Actions,
         UNCHANGED <<created, isTerminated, disposed, stack, ran, faults, several>>
  PROVE  ShapeInv'
<1>0. TypeOK /\ Lists
  BY DEF ShapeInv
<1>1. Grows
  BY AddedGrows DEF Grows
<1>2. Moves /\ CallsChild
  BY <1>0, StackKept DEF CallsChild
<1>3. /\ Run(x) \in Items /\ Run(x).do = "run" /\ Run(x).what = x
  BY DEF Run, Items
<1>4. l \in Lifetimes /\ actions[l] \in Seq(Items) /\ ListFits(l, actions[l])
  BY <1>0 DEF TypeOK, Lists
<1>5. ~In(actions[l], Run(x))
  BY <1>3, <1>4 DEF ListFits, Belongs, In
<1>6. Belongs(l, Run(x))'
  BY <1>3, AddedGrows DEF Belongs
<1>7. PICK t \in Seq(Items) : t = Append(actions[l], Run(x)) /\ ListFits(l, t)'
  <2>1. PICK s, r : s = actions[l] /\ r = Run(x)
    OBVIOUS
  <2>2. PICK t : t = Append(s, r)
    OBVIOUS
  <2>3. ListFits(l, t)' /\ t \in Seq(Items)
    BY <1>1, <1>3, <1>4, <1>5, <1>6, <2>1, <2>2, AppendFits
  <2>4. QED  BY <2>1, <2>2, <2>3
<1>8. Lists'
  <2>1. ASSUME NEW m \in Lifetimes, NEW s, s = actions'[m]
        PROVE  ListFits(m, s)' /\ (m \notin created => s = << >>)
    BY <1>0, <1>1, <1>4, <1>7, <2>1, FitsKept DEF Lists, TypeOK
  <2>2. QED  BY <2>1 DEF Lists, ListFits
<1>9. AddedOnce'
  <2>1. l \notin Actions /\ x \notin Lifetimes
    BY <1>4 DEF LifetimeAssumption
  <2>2. QED  BY <2>1, AddedGrows DEF ShapeInv, AddedOnce
<1>10. TypeOK'
  <2>1. actions' \in [Lifetimes -> Seq(Items)]
    BY <1>0, <1>4, <1>7 DEF TypeOK
  <2>2. added' \in Seq([of : created, what : Actions \cup created])
    BY <1>0 DEF TypeOK
  <2>3. QED  BY <1>0, <2>1, <2>2 DEF TypeOK
<1>11. QED  BY <1>0, <1>1, <1>2, <1>8, <1>9, <1>10, CallsKept, RankKept DEF ShapeInv

LEMMA ToldShape ==
  ASSUME LifetimeAssumption, ShapeInv, NEW l \in Lifetimes, toDisposable(l)
  PROVE  ShapeInv'
<1> DEFINE d == [do |-> "dispose", what |-> l]
<1>0. TypeOK /\ Lists
  BY DEF ShapeInv
<1>1. /\ stack = << >> /\ l \in created /\ \A i \in DOMAIN actions[l] : actions[l][i].do # "dispose"
      /\ actions' = [actions EXCEPT ![l] = Append(@, d)]
      /\ UNCHANGED <<created, isTerminated, disposed, stack, adder, added, late, ran, faults, several>>
  BY DEF toDisposable
<1>2. Grows /\ Moves /\ CallsChild
  BY <1>0, <1>1, StackKept DEF Grows, CallsChild
<1>3. /\ d \in Items /\ d.do # "unlink" /\ Belongs(l, d)' /\ ~In(actions[l], d)
      /\ actions[l] \in Seq(Items) /\ ListFits(l, actions[l])
  BY <1>0, <1>1 DEF Items, Belongs, In, TypeOK, Lists
<1>4. PICK t \in Seq(Items) : t = Append(actions[l], d) /\ ListFits(l, t)'
  <2>1. PICK s, r : s = actions[l] /\ r = d
    OBVIOUS
  <2>2. PICK t : t = Append(s, r)
    OBVIOUS
  <2>3. Belongs(l, r)'
    BY <1>3, <2>1
  <2>4. ListFits(l, t)' /\ t \in Seq(Items)
    BY <1>2, <1>3, <2>1, <2>2, <2>3, AppendFits
  <2>5. QED  BY <2>1, <2>2, <2>4
<1>5. Lists'
  <2>1. ASSUME NEW m \in Lifetimes, NEW s, s = actions'[m]
        PROVE  ListFits(m, s)' /\ (m \notin created => s = << >>)
    BY <1>0, <1>1, <1>2, <1>4, <2>1, FitsKept DEF Lists, TypeOK
  <2>2. QED  BY <1>1, <2>1 DEF Lists, ListFits
<1>6. TypeOK' /\ AddedOnce'
  <2>1. actions' \in [Lifetimes -> Seq(Items)]
    BY <1>0, <1>1, <1>4 DEF TypeOK
  <2>2. QED  BY <1>0, <1>1, <2>1, Zenon DEF TypeOK, ShapeInv, AddedOnce
<1>7. QED  BY <1>0, <1>1, <1>2, <1>5, <1>6, CallsKept, RankKept DEF ShapeInv

LEMMA AddsShape ==
  ASSUME LifetimeAssumption, ShapeInv, NEW l \in Lifetimes, NEW x \in Actions,
         add(l, x) \/ AddTests(l, x)
  PROVE  ShapeInv'
<1>0. TypeOK /\ Lists
  BY DEF ShapeInv
<1>1. CASE add(l, x)
  <2>1. /\ l \in created /\ Fresh(x)
        /\ added' = Append(added, [of |-> l, what |-> x])
        /\ actions' = [actions EXCEPT ![l] = Append(@, Run(x))]
        /\ UNCHANGED <<created, isTerminated, disposed, stack, adder, late, ran, faults, several>>
    BY <1>1 DEF add
  <2>2. late' \subseteq Actions
    BY <1>0, <2>1 DEF TypeOK
  <2>3. QED  BY <2>1, <2>2, AddShape DEF Fresh
<1>2. CASE AddTests(l, x)
  <2>1. /\ adder = None /\ l \in created /\ Fresh(x) /\ adder' = [of |-> l, what |-> x]
        /\ UNCHANGED <<created, isTerminated, actions, disposed, stack, added, late, ran, faults, several>>
    BY <1>2 DEF AddTests
  <2>2. Grows /\ Moves /\ CallsChild
    BY <1>0, <2>1, StackKept DEF Grows, CallsChild
  <2>3. TypeOK'
    BY <1>0, <2>1 DEF TypeOK
  <2>4. AddedOnce'
    BY <2>1 DEF AddedOnce, ShapeInv, Fresh
  <2>5. Lists'
    <3>1. ASSUME NEW m \in Lifetimes, NEW s, s = actions[m]
          PROVE  ListFits(m, s)' /\ (m \notin created => s = << >>)
      BY <1>0, <2>2, <3>1, FitsKept DEF Lists
    <3>2. QED  BY <2>1, <3>1 DEF Lists, ListFits
  <2>6. QED  BY <1>0, <2>1, <2>2, <2>3, <2>4, <2>5, CallsKept, RankKept DEF ShapeInv
<1>3. QED  BY <1>1, <1>2

LEMMA InsertsShape ==
  ASSUME LifetimeAssumption, ShapeInv, AddInserts
  PROVE  ShapeInv'
<1>0. TypeOK
  BY DEF ShapeInv
<1>1. /\ adder # None /\ added' = Append(added, adder) /\ adder' = None
      /\ actions' = [actions EXCEPT ![adder.of] = Append(@, Run(adder.what))]
      /\ late' = IF adder.of \in isTerminated THEN late \cup {adder.what} ELSE late
      /\ UNCHANGED <<created, isTerminated, disposed, stack, ran, faults, several>>
  BY DEF AddInserts
<1>2. PICK m \in created, y \in Actions : adder = [of |-> m, what |-> y]
  BY <1>0, <1>1 DEF TypeOK
<1>3. \A i \in DOMAIN added : added[i].what # y
  BY <1>1, <1>2 DEF ShapeInv, AddedOnce
<1>4. late' \subseteq Actions
  BY <1>0, <1>1, <1>2 DEF TypeOK
<1>5. /\ added' = Append(added, [of |-> m, what |-> y])
      /\ actions' = [actions EXCEPT ![m] = Append(@, Run(y))]
  BY <1>1, <1>2
<1>6. QED  BY <1>1, <1>3, <1>4, <1>5, AddShape

LEMMA NestedShape ==
  ASSUME LifetimeAssumption, ShapeInv, NEW l \in Lifetimes, addNested(l)
  PROVE  ShapeInv'
<1> DEFINE p == Parent[l]
           a == [of |-> p, what |-> l]
<1>0. TypeOK /\ Lists /\ AddedOnce /\ Root \in created
  BY DEF ShapeInv
<1>1. /\ stack = << >> /\ l \notin created /\ p \in created /\ p \notin isTerminated
      /\ created' = created \cup {l}
      /\ actions' = [actions EXCEPT ![p] = Append(@, Terminate(l)), ![l] = <<Unlink(l)>>]
      /\ added' = Append(added, a)
      /\ UNCHANGED <<isTerminated, disposed, stack, adder, late, ran, faults, several>>
  BY DEF addNested
<1>2. l # Root /\ l # p /\ p \in Lifetimes /\ l \notin Actions
  BY <1>0, <1>1 DEF TypeOK, LifetimeAssumption
<1>3. \A i \in DOMAIN added : added[i].what # a.what
  BY <1>0, <1>1, <1>2, AddedAre
<1>4. Grows
  BY <1>1, <1>3, AddedGrows DEF Grows
<1>5. Moves /\ CallsChild
  BY <1>0, <1>1, StackKept DEF CallsChild
<1>6. /\ Terminate(l) \in Items /\ Terminate(l).do # "unlink" /\ Belongs(p, Terminate(l))'
      /\ ~In(actions[p], Terminate(l)) /\ actions[p] \in Seq(Items) /\ ListFits(p, actions[p])
  <2>1. Terminate(l) \in Items /\ Terminate(l).do = "terminate" /\ Terminate(l).what = l
    BY DEF Terminate, Items
  <2>2. actions[p] \in Seq(Items) /\ ListFits(p, actions[p])
    BY <1>0, <1>2 DEF TypeOK, Lists
  <2>3. Belongs(p, Terminate(l))'
    BY <1>1, <1>2, <2>1 DEF Belongs
  <2>4. ~In(actions[p], Terminate(l))
    BY <1>1, <2>1, <2>2 DEF In, ListFits, Belongs
  <2>5. QED  BY <2>1, <2>2, <2>3, <2>4
<1>7. PICK t \in Seq(Items) : t = Append(actions[p], Terminate(l)) /\ ListFits(p, t)'
  <2>1. PICK s, r, m : s = actions[p] /\ r = Terminate(l) /\ m = p
    OBVIOUS
  <2>2. PICK t : t = Append(s, r)
    OBVIOUS
  <2>3. Belongs(m, r)'
    BY <1>6, <2>1
  <2>4. ListFits(m, t)' /\ t \in Seq(Items)
    BY <1>4, <1>6, <2>1, <2>2, <2>3, AppendFits
  <2>5. QED  BY <2>1, <2>2, <2>4
<1>8. PICK u \in Seq(Items) : u = <<Unlink(l)>> /\ ListFits(l, u)'
  <2>1. Unlink(l) \in Items /\ Unlink(l).do = "unlink" /\ Unlink(l).what = l
    BY DEF Unlink, Items
  <2>2. PICK u : u = <<Unlink(l)>>
    OBVIOUS
  <2>3. u \in Seq(Items) /\ DOMAIN u = {1} /\ u[1] = Unlink(l)
    BY <2>1, <2>2
  <2>4. ListFits(l, u)'
    BY <1>2, <2>1, <2>3 DEF ListFits, Once, Belongs
  <2>5. QED  BY <2>2, <2>3, <2>4
<1>9. /\ actions' \in [Lifetimes -> Seq(Items)]
      /\ actions'[l] = u /\ actions'[p] = t
      /\ \A m \in Lifetimes : m # l /\ m # p => actions'[m] = actions[m]
  BY <1>0, <1>1, <1>2, <1>7, <1>8 DEF TypeOK
<1>10. Lists'
  <2>1. ASSUME NEW m \in Lifetimes, NEW s, s = actions'[m]
        PROVE  ListFits(m, s)' /\ (m \notin created' => s = << >>)
    BY <1>0, <1>1, <1>4, <1>7, <1>8, <1>9, <2>1, FitsKept DEF Lists
  <2>2. QED  BY <2>1 DEF Lists, ListFits
<1>11. AddedOnce'
  <2>1. /\ \A i, j \in DOMAIN added' : added'[i].what = added'[j].what => i = j
        /\ DOMAIN added' = DOMAIN added \cup {Len(added) + 1}
        /\ \A i \in DOMAIN added : added'[i] = added[i]
        /\ added'[Len(added) + 1] = a
    BY <1>1, <1>3, AddedGrows
  <2>2. adder # None => adder.what # l
    BY <1>0, <1>2 DEF TypeOK
  <2>3. QED  BY <1>0, <1>1, <1>2, <2>1, <2>2 DEF AddedOnce
<1>12. TypeOK'
  <2>1. added' \in Seq([of : created', what : Actions \cup created'])
    <3>1. added' \in Seq([of : created', what : Actions \cup created']) <=>
            Append(added, a) \in Seq([of : created', what : Actions \cup created'])
      BY <1>1
    <3>2. \A i \in DOMAIN added : added[i] \in [of : created', what : Actions \cup created']
      BY <1>0, <1>1, AddedAre
    <3>3. added \in Seq([of : created', what : Actions \cup created'])
      BY <1>0, <3>2, IsSeqOf DEF TypeOK
    <3>4. a \in [of : created', what : Actions \cup created']
      BY <1>1
    <3>5. QED  BY <3>1, <3>3, <3>4, AppendFacts
  <2>2. stack' \in Seq([of : created', rest : Seq(Items)])
    BY <1>1
  <2>3. adder' \in {None} \cup [of : created', what : Actions]
    BY <1>0, <1>1 DEF TypeOK
  <2>4. /\ created' \in SUBSET Lifetimes /\ isTerminated' \in SUBSET created'
        /\ disposed' \in SUBSET created'
    BY <1>0, <1>1 DEF TypeOK
  <2>5. QED  BY <1>0, <1>1, <1>9, <2>1, <2>2, <2>3, <2>4, Zenon DEF TypeOK
<1>13. \E rank \in [created' -> Nat] : Ranked(rank)'
  <2>1. PICK rank \in [created -> Nat] : Ranked(rank)
    BY DEF ShapeInv
  <2>2. PICK rank2 : rank2 = [c \in created' |-> IF c = l THEN rank[p] + 1 ELSE rank[c]]
    OBVIOUS
  <2>3. rank2 \in [created' -> Nat]
    BY <1>1, <2>1, <2>2
  <2>4. Ranked(rank2)'
    <3>1. DOMAIN stack' = {}
      BY <1>1
    <3>2. ASSUME NEW c \in created' \ {Root} PROVE Parent[c] \in created' /\ rank2[Parent[c]] < rank2[c]
      BY <1>1, <1>2, <2>1, <2>2 DEF Ranked
    <3>3. QED  BY <3>1, <3>2 DEF Ranked
  <2>5. QED  BY <2>3, <2>4
<1>14. QED  BY <1>0, <1>1, <1>4, <1>5, <1>10, <1>11, <1>12, <1>13, CallsKept DEF ShapeInv

LEMMA NextShape ==
  ASSUME LifetimeAssumption, ShapeInv, [Next]_vars
  PROVE  ShapeInv'
<1>1. CASE Next
  BY <1>1, NestedShape, ToldShape, OwnersShape, AddsShape, InsertsShape, CallShape DEF Next
<1>2. CASE UNCHANGED vars
  <2>1. TypeOK /\ UNCHANGED <<created, adder, added, late, stack, actions>>
    BY <1>2 DEF vars, ShapeInv
  <2>2. Moves /\ CallsChild
    BY <2>1, StackKept DEF CallsChild
  <2>3. /\ isTerminated \subseteq isTerminated' /\ isTerminated' \subseteq created
        /\ disposed' \subseteq created /\ ran' \in Seq(Actions) /\ faults' \in BOOLEAN
        /\ several' \in BOOLEAN
    BY <1>2, <2>1 DEF vars, TypeOK
  <2>4. QED  BY <2>1, <2>2, <2>3, ActionsKept, QuietShape
<1>3. QED  BY <1>1, <1>2

-----------------------------------------------------------------------------
(***************************************************************************)
(* The steps, as the invariants below see them.                            *)
(***************************************************************************)
\* An action is put into the list of m, in time or late.
Inserts(m, x) ==
  /\ m \in created /\ x \in Actions /\ \A i \in DOMAIN added : added[i].what # x
  /\ added' = Append(added, [of |-> m, what |-> x])
  /\ actions' = [actions EXCEPT ![m] = Append(@, Run(x))]
  /\ late' = IF m \in isTerminated THEN late \cup {x} ELSE late
  /\ UNCHANGED <<created, isTerminated, stack, ran, faults, several>>

\* At most the disposal of its disposable is put into the list of a lifetime.
Tells ==
  /\ \/ UNCHANGED actions
     \/ \E l \in created, d \in Items : d.do = "dispose" /\ actions' = [actions EXCEPT ![l] = Append(@, d)]
  /\ UNCHANGED <<created, isTerminated, added, late, stack, ran, faults, several>>

\* A call of terminate(), ...
MayCall(l, below) ==
  /\ l \in created
  /\ \/ stack = << >> /\ below = << >>
     \/ stack # << >> /\ Top.rest # << >> /\ Item = Terminate(l) /\ below = Popped
  /\ UNCHANGED <<created, actions, added, late, ran, faults>>

\* ... the first one of this lifetime, or not.
Begins(l, below) ==
  /\ MayCall(l, below)
  /\ l \notin isTerminated /\ isTerminated' = isTerminated \cup {l}
  /\ stack' = Append(below, [of |-> l, rest |-> Reverse(actions[l])])
  /\ UNCHANGED several

Repeats(l, below) ==
  /\ MayCall(l, below)
  /\ stack # << >> /\ l \in isTerminated
  /\ stack' = << >> /\ several' /\ UNCHANGED isTerminated

LEMMA NextCases ==
  ASSUME ShapeInv, [Next]_vars
  PROVE  \/ \E l \in Lifetimes : addNested(l)
         \/ \E m, x : Inserts(m, x)
         \/ Tells
         \/ \E l, below : Begins(l, below) \/ Repeats(l, below)
         \/ RunAction \/ UnlinkNested \/ DisposeOwn \/ terminateReturns
<1>0. TypeOK /\ AddedOnce /\ Lists
  BY DEF ShapeInv
<1>1. ASSUME NEW l \in Lifetimes, NEW x \in Actions, add(l, x) PROVE Inserts(l, x)
  BY <1>1 DEF add, Fresh, Inserts
<1>2. CASE AddInserts
  <2>1. PICK m \in created, y \in Actions : adder = [of |-> m, what |-> y]
    BY <1>0, <1>2 DEF TypeOK, AddInserts
  <2>2. Inserts(m, y)
    BY <1>0, <1>2, <2>1 DEF AddInserts, Inserts, AddedOnce
  <2>3. QED  BY <2>2
<1>3. ASSUME NEW l \in Lifetimes, toDisposable(l) PROVE Tells
  <2>1. [do |-> "dispose", what |-> l] \in Items
    BY DEF Items
  <2>2. QED  BY <1>3, <2>1 DEF toDisposable, Tells
<1>4. ASSUME NEW l \in Lifetimes, NEW x \in Actions, AddTests(l, x) PROVE Tells
  BY <1>4 DEF AddTests, Tells
<1>5. ASSUME UNCHANGED vars PROVE Tells
  BY <1>5 DEF vars, Tells
<1>6. ASSUME NEW l \in Lifetimes, terminate(l) PROVE Begins(l, << >>)
  BY <1>6 DEF terminate, Enter, Begins, MayCall
<1>7. ASSUME NEW l \in Lifetimes, dispose(l) PROVE Tells \/ Begins(l, << >>)
  <2>1. l \in created
    BY <1>0, <1>7 DEF dispose, Lists
  <2>2. QED  BY <1>7, <2>1 DEF dispose, Enter, Begins, MayCall, Tells
<1>8. CASE TerminateNested
  <2>1. stack # << >> /\ Top.rest # << >> /\ Item.do = "terminate" /\ Enter(Item.what, Popped)
    BY <1>8 DEF TerminateNested, InAction
  <2>2. Item = Terminate(Item.what) /\ Item.what \in created
    BY <2>1, ItemFacts DEF Items, Terminate, Belongs
  <2>3. QED  BY <1>8, <2>1, <2>2 DEF TerminateNested, Enter, Begins, Repeats, MayCall
<1>9. QED  BY <1>1, <1>2, <1>3, <1>4, <1>5, <1>6, <1>7, <1>8 DEF Next

\* Calls in progress are those of different lifetimes, each above the calls of
\* its ancestors.
LEMMA RankFacts ==
  ASSUME ShapeInv
  PROVE  /\ \A j, k \in DOMAIN stack : stack[j].of = stack[k].of => j = k
         /\ \A c \in created \ {Root} : Parent[c] # c
         /\ stack # << >> =>
              \A l \in created \ {Root} : Parent[l] = Top.of =>
                /\ ~OnStack(l)
                /\ \A c \in created \ {Root} : Parent[c] = l => ~OnStack(c)
<1>0. TypeOK
  BY DEF ShapeInv
<1>1. PICK rank \in [created -> Nat] : Ranked(rank)
  BY DEF ShapeInv
<1>2. \A k \in DOMAIN stack : /\ stack[k].of \in created /\ DOMAIN stack = 1 .. Len(stack)
                              /\ Len(stack) \in Nat
  BY <1>0, FramesAre DEF TypeOK, Frames
<1>3. ASSUME NEW j \in DOMAIN stack, NEW k \in DOMAIN stack, stack[j].of = stack[k].of PROVE j = k
  <2>1. rank[stack[j].of] \in Nat /\ rank[stack[k].of] \in Nat
    BY <1>1, <1>2
  <2>2. ~(j < k) /\ ~(k < j)
    BY <1>1, <1>3, <2>1 DEF Ranked
  <2>3. QED  BY <1>2, <2>2
<1>4. ASSUME NEW c \in created \ {Root} PROVE Parent[c] # c
  BY <1>1 DEF Ranked
<1>5. ASSUME stack # << >>, NEW l \in created, rank[Top.of] < rank[l] PROVE ~OnStack(l)
  <2>1. ASSUME NEW k \in DOMAIN stack, stack[k].of = l PROVE FALSE
    <3>1. rank[stack[k].of] \in Nat /\ rank[Top.of] \in Nat /\ Top = stack[Len(stack)] /\ Len(stack) \in DOMAIN stack
      BY <1>0, <1>1, <1>2, <1>5, TopFacts
    <3>2. CASE k = Len(stack)
      BY <1>5, <2>1, <3>1, <3>2
    <3>3. CASE k < Len(stack)
      BY <1>1, <1>5, <2>1, <3>1, <3>3 DEF Ranked
    <3>4. QED  BY <1>2, <3>2, <3>3
  <2>2. QED  BY <2>1 DEF OnStack
<1>6. ASSUME stack # << >>, NEW l \in created \ {Root}, Parent[l] = Top.of
      PROVE  ~OnStack(l) /\ \A c \in created \ {Root} : Parent[c] = l => ~OnStack(c)
  <2>1. rank[Top.of] < rank[l] /\ rank[Top.of] \in Nat /\ rank[l] \in Nat
    BY <1>0, <1>1, <1>6, TopFacts DEF Ranked
  <2>2. ASSUME NEW c \in created \ {Root}, Parent[c] = l PROVE rank[Top.of] < rank[c]
    <3>1. rank[l] < rank[c] /\ rank[c] \in Nat
      BY <1>1, <2>2 DEF Ranked
    <3>2. QED  BY <2>1, <3>1
  <2>3. QED  BY <1>5, <1>6, <2>1, <2>2
<1>7. QED  BY <1>3, <1>4, <1>6

-----------------------------------------------------------------------------
(***************************************************************************)
(* Links.                                                                  *)
(***************************************************************************)
\* Terminations in lists and calls are of children.
LEMMA HeldFacts ==
  ASSUME ShapeInv
  PROVE  /\ \A l \in Lifetimes : \A c : In(actions[l], Terminate(c)) => c \in created \ {Root} /\ Parent[c] = l
         /\ \A k \in DOMAIN stack : \A c :
              In(stack[k].rest, Terminate(c)) => c \in created \ {Root} /\ Parent[c] = stack[k].of
         /\ \A l \in Lifetimes : \A x : In(actions[l], Run(x)) => In(added, [of |-> l, what |-> x])
         /\ \A k \in DOMAIN stack : \A x :
              In(stack[k].rest, Run(x)) => In(added, [of |-> stack[k].of, what |-> x])
<1>1. ASSUME NEW l, NEW c
      PROVE  /\ Belongs(l, Terminate(c)) => c \in created \ {Root} /\ Parent[c] = l
             /\ Belongs(l, Run(c)) => In(added, [of |-> l, what |-> c])
  BY DEF Terminate, Run, Belongs
<1>2. \A l \in Lifetimes : \A y : In(actions[l], y) => Belongs(l, y)
  BY DEF ShapeInv, Lists, ListFits, In
<1>3. \A k \in DOMAIN stack : \A y : In(stack[k].rest, y) => Belongs(stack[k].of, y)
  BY DEF ShapeInv, Calls, CallFits, In
<1>4. QED  BY <1>1, <1>2, <1>3, Zenon

LEMMA ItemsDiffer ==
  ASSUME NEW a, NEW b
  PROVE  /\ Terminate(a) # Unlink(b) /\ Terminate(a) # Run(b) /\ Unlink(a) # Run(b)
         /\ (Terminate(a) = Terminate(b) => a = b) /\ (Run(a) = Run(b) => a = b)
         /\ Terminate(a).do = "terminate" /\ Run(a).do = "run" /\ Unlink(a).do = "unlink"
         /\ Terminate(a).what = a /\ Run(a).what = a /\ Unlink(a).what = a
<1>1. /\ Terminate(a).do = "terminate" /\ Run(a).do = "run" /\ Unlink(a).do = "unlink"
      /\ Terminate(b).do = "terminate" /\ Run(b).do = "run" /\ Unlink(b).do = "unlink"
      /\ Terminate(a).what = a /\ Run(a).what = a /\ Terminate(b).what = b /\ Run(b).what = b
      /\ Unlink(a).what = a
  BY DEF Terminate, Run, Unlink
<1>2. QED  BY <1>1

\* What a list holds after something was appended to a list.
LEMMA Appended ==
  ASSUME TypeOK, NEW m \in Lifetimes, NEW e \in Items, actions' = [actions EXCEPT ![m] = Append(@, e)],
         NEW l \in Lifetimes
  PROVE  /\ actions'[l] = IF l = m THEN Append(actions[m], e) ELSE actions[l]
         /\ \A y : In(actions'[l], y) <=> In(actions[l], y) \/ (l = m /\ y = e)
<1>1. actions'[l] = IF l = m THEN Append(actions[m], e) ELSE actions[l]
  BY DEF TypeOK
<1>2. actions[m] \in Seq(Items)
  BY DEF TypeOK
<1>3. QED  BY <1>1, <1>2, AppendFacts

\* Nothing is terminated, called or linked.
LEMMA LinksStay ==
  ASSUME ShapeInv, Links, UNCHANGED <<created, isTerminated, stack>>,
         \A l \in Lifetimes : \A c : /\ In(actions'[l], Terminate(c)) => In(actions[l], Terminate(c))
                                     /\ In(actions[l], Unlink(c)) => In(actions'[l], Unlink(c))
  PROVE  Links'
<1>0. TypeOK
  BY DEF ShapeInv
<1>1. ASSUME NEW l \in created \ isTerminated
      PROVE  /\ l # Root => In(actions'[l], Unlink(l))
             /\ \A c \in isTerminated : In(actions'[l], Terminate(c)) => OnStack(c)
  BY <1>0 DEF Links, TypeOK
<1>2. ASSUME NEW k \in DOMAIN stack
      PROVE  /\ \A c \in isTerminated : ~In(stack[k].rest, Terminate(c))
             /\ stack[k].of # Root =>
                  \/ In(stack[k].rest, Unlink(stack[k].of))
                  \/ ~In(actions'[Parent[stack[k].of]], Terminate(stack[k].of))
  <2>1. stack[k].of # Root => Parent[stack[k].of] \in Lifetimes
    <3>1. stack[k].of \in created
      BY <1>0, FramesAre DEF TypeOK, Frames
    <3>2. PICK rank \in [created -> Nat] : Ranked(rank)
      BY DEF ShapeInv
    <3>3. QED  BY <1>0, <3>1, <3>2 DEF Ranked, TypeOK
  <2>2. QED  BY <2>1 DEF Links
<1>3. QED  BY <1>1, <1>2 DEF Links, OnStack, In

LEMMA NestedLists ==
  ASSUME LifetimeAssumption, ShapeInv, NEW l \in Lifetimes, addNested(l)
  PROVE  /\ stack = << >> /\ l \notin created /\ created' = created \cup {l} /\ l # Root
         /\ Parent[l] \in created \ isTerminated /\ Parent[l] # l
         /\ added' = Append(added, [of |-> Parent[l], what |-> l])
         /\ \A i \in DOMAIN added : added[i].what # l
         /\ UNCHANGED <<isTerminated, disposed, stack, adder, late, ran, faults, several>>
         /\ actions'[l] = <<Unlink(l)>>
         /\ \A m \in created : actions'[m] = IF m = Parent[l] THEN Append(actions[m], Terminate(l)) ELSE actions[m]
         /\ \A m \in created : \A y :
              In(actions'[m], y) <=> In(actions[m], y) \/ (m = Parent[l] /\ y = Terminate(l))
<1>0. TypeOK /\ Root \in created
  BY DEF ShapeInv
<1>1. /\ stack = << >> /\ l \notin created /\ Parent[l] \in created \ isTerminated
      /\ created' = created \cup {l}
      /\ actions' = [actions EXCEPT ![Parent[l]] = Append(@, Terminate(l)), ![l] = <<Unlink(l)>>]
      /\ added' = Append(added, [of |-> Parent[l], what |-> l])
      /\ UNCHANGED <<isTerminated, disposed, stack, adder, late, ran, faults, several>>
  BY DEF addNested
<1>2. l # Root /\ Parent[l] # l /\ created \subseteq Lifetimes
  BY <1>0, <1>1 DEF TypeOK
<1>3. /\ actions'[l] = <<Unlink(l)>>
      /\ \A m \in created : actions'[m] = IF m = Parent[l] THEN Append(actions[m], Terminate(l)) ELSE actions[m]
  BY <1>0, <1>1, <1>2 DEF TypeOK
<1>4. ASSUME NEW m \in created, NEW y
      PROVE  In(actions'[m], y) <=> In(actions[m], y) \/ (m = Parent[l] /\ y = Terminate(l))
  <2>1. actions[m] \in Seq(Items) /\ Terminate(l) \in Items
    BY <1>0 DEF TypeOK, Items, Terminate
  <2>2. QED  BY <1>3, <2>1, AppendFacts
<1>5. \A i \in DOMAIN added : added[i].what # l
  BY <1>0, <1>1, AddedAre DEF LifetimeAssumption
<1>6. QED  BY <1>1, <1>2, <1>3, <1>4, <1>5

LEMMA NestedLinks ==
  ASSUME LifetimeAssumption, ShapeInv, Links, NEW l \in Lifetimes, addNested(l)
  PROVE  Links'
<1>0. TypeOK
  BY DEF ShapeInv
<1>1. /\ stack = << >> /\ l \notin created /\ created' = created \cup {l}
      /\ UNCHANGED <<isTerminated, stack>> /\ actions'[l] = <<Unlink(l)>>
  BY NestedLists
<1>2. \A m \in created : \A y :
        In(actions'[m], y) <=> In(actions[m], y) \/ (m = Parent[l] /\ y = Terminate(l))
  BY NestedLists
<1>3. (\A c \in isTerminated : c # l) /\ \A c : ~OnStack(c)
  BY <1>0, <1>1 DEF TypeOK, OnStack
<1>4. ASSUME NEW m \in created' \ isTerminated
      PROVE  /\ m # Root => In(actions'[m], Unlink(m))
             /\ \A c \in isTerminated : ~In(actions'[m], Terminate(c))
  <2>1. CASE m = l
    <3>1. In(<<Unlink(l)>>, Unlink(l)) /\ \A c : ~In(<<Unlink(l)>>, Terminate(c))
      BY ItemsDiffer DEF In
    <3>2. QED  BY <1>1, <2>1, <3>1
  <2>2. CASE m \in created
    <3>1. /\ m # Root => In(actions[m], Unlink(m))
          /\ \A c \in isTerminated : ~In(actions[m], Terminate(c))
      BY <1>3, <1>4, <2>2 DEF Links
    <3>2. QED  BY <1>2, <1>3, <2>2, <3>1, ItemsDiffer
  <2>3. QED  BY <1>1, <1>4, <2>1, <2>2
<1>5. QED  BY <1>1, <1>4 DEF Links, In

\* Something else is put into a list.
LEMMA PutLinks ==
  ASSUME ShapeInv, Links, Tells \/ \E m, x : Inserts(m, x)
  PROVE  Links'
<1>0. TypeOK
  BY DEF ShapeInv
<1>1. UNCHANGED <<created, isTerminated, stack>>
  BY DEF Tells, Inserts
<1>2. ASSUME NEW m \in Lifetimes, NEW e \in Items, e.do \in {"run", "dispose"},
             actions' = [actions EXCEPT ![m] = Append(@, e)]
      PROVE  Links'
  <2>1. \A l \in Lifetimes : \A c : /\ In(actions'[l], Terminate(c)) => In(actions[l], Terminate(c))
                                    /\ In(actions[l], Unlink(c)) => In(actions'[l], Unlink(c))
    <3> SUFFICES ASSUME NEW l \in Lifetimes, NEW c
                 PROVE  /\ In(actions'[l], Terminate(c)) => In(actions[l], Terminate(c))
                        /\ In(actions[l], Unlink(c)) => In(actions'[l], Unlink(c))
      OBVIOUS
    <3>1. \A y : In(actions'[l], y) <=> In(actions[l], y) \/ (l = m /\ y = e)
      BY <1>0, <1>2, Appended
    <3>2. e # Terminate(c)
      BY <1>2, ItemsDiffer
    <3>3. QED  BY <3>1, <3>2
  <2>2. QED  BY <1>1, <2>1, LinksStay
<1>3. CASE Tells
  <2>1. CASE UNCHANGED actions
    BY <1>1, <2>1, LinksStay
  <2>2. QED  BY <1>0, <1>2, <1>3, <2>1 DEF Tells, TypeOK
<1>4. ASSUME NEW m, NEW x, Inserts(m, x) PROVE Links'
  <2>1. Run(x) \in Items /\ Run(x).do = "run" /\ m \in Lifetimes
    BY <1>0, <1>4 DEF Items, Run, Inserts, TypeOK
  <2>2. QED  BY <1>2, <1>4, <2>1 DEF Inserts
<1>5. QED  BY <1>3, <1>4

\* The stack after a call.
LEMMA CallStack ==
  ASSUME ShapeInv, NEW l, NEW below, Begins(l, below)
  PROVE  /\ Moves /\ Len(stack) \in Nat /\ DOMAIN stack = 1 .. Len(stack)
         /\ DOMAIN stack' = DOMAIN stack \cup {Len(stack) + 1}
         /\ stack'[Len(stack) + 1].of = l /\ stack'[Len(stack) + 1].rest = Reverse(actions[l])
         /\ \A k \in DOMAIN stack :
              /\ stack'[k].of = stack[k].of
              /\ stack'[k].rest = IF k = Len(stack) THEN Tail(stack[k].rest) ELSE stack[k].rest
<1>0. TypeOK
  BY DEF ShapeInv
<1>1. /\ l \in created \ isTerminated /\ isTerminated' = isTerminated \cup {l}
      /\ stack' = Append(below, [of |-> l, rest |-> Reverse(actions[l])])
      /\ \/ stack = << >> /\ below = << >>
         \/ stack # << >> /\ Top.rest # << >> /\ below = Popped
  BY DEF Begins, MayCall
<1>2. Moves
  <2>1. Enter(l, below)
    BY DEF Begins, MayCall, Enter
  <2>2. QED  BY <1>0, <1>1, <2>1, StackEntered
<1>3. below \in Seq(Frames) /\ Len(below) = Len(stack) /\ Len(stack) \in Nat /\ DOMAIN stack = 1 .. Len(stack)
  <2>1. CASE stack = << >>
    BY <1>1, <2>1
  <2>2. CASE stack # << >>
    BY <1>0, <1>1, <2>2, PoppedFacts, TopFacts
  <2>3. QED  BY <2>1, <2>2
<1>4. PICK f \in Frames : f = [of |-> l, rest |-> Reverse(actions[l])]
  <2>1. actions[l] \in Seq(Items)
    BY <1>0, <1>1 DEF TypeOK
  <2>2. Reverse(actions[l]) \in Seq(Items)
    BY <2>1, ReverseFacts
  <2>3. QED  BY <1>1, <2>2 DEF Frames
<1>5. /\ DOMAIN stack' = 1 .. Len(stack) + 1 /\ stack'[Len(stack) + 1] = f
      /\ \A k \in 1 .. Len(stack) : stack'[k] = below[k]
  <2>1. stack' = Append(below, f)
    BY <1>1, <1>4
  <2>2. QED  BY <1>3, <2>1, AppendFacts
<1>6. ASSUME NEW k \in DOMAIN stack
      PROVE  /\ stack'[k].of = stack[k].of
             /\ stack'[k].rest = IF k = Len(stack) THEN Tail(stack[k].rest) ELSE stack[k].rest
  <2>1. stack # << >> /\ k \in 1 .. Len(stack)
    BY <1>3
  <2>2. CASE k = Len(stack)
    <3>1. below[k] = [of |-> Top.of, rest |-> Tail(Top.rest)] /\ Top = stack[k]
      BY <1>0, <1>1, <2>1, <2>2, TopFacts, PoppedFacts
    <3>2. stack'[k] = below[k]
      BY <1>5, <2>1
    <3>3. QED  BY <2>2, <3>1, <3>2
  <2>3. CASE k # Len(stack)
    <3>1. k \in 1 .. Len(stack) - 1
      BY <1>3, <2>1, <2>3
    <3>2. stack'[k] = stack[k]
      BY <1>0, <1>1, <1>5, <2>1, <3>1, PoppedFacts
    <3>3. QED  BY <2>3, <3>2
  <2>4. QED  BY <2>2, <2>3
<1>7. stack'[Len(stack) + 1].of = l /\ stack'[Len(stack) + 1].rest = Reverse(actions[l])
  BY <1>4, <1>5
<1>8. DOMAIN stack' = DOMAIN stack \cup {Len(stack) + 1}
  BY <1>3, <1>5
<1>9. QED  BY <1>2, <1>3, <1>6, <1>7, <1>8

\* A call is made: the item that makes it is done once and for all, and the
\* new copy ends with the removal from the parent's list.
LEMMA CallLinks ==
  ASSUME LifetimeAssumption, ShapeInv, Links, NEW l, NEW below, Begins(l, below)
  PROVE  Links'
<1>0. TypeOK
  BY DEF ShapeInv
<1>1. /\ l \in created \ isTerminated /\ isTerminated' = isTerminated \cup {l}
      /\ UNCHANGED <<created, actions>>
      /\ \/ stack = << >>
         \/ stack # << >> /\ Top.rest # << >> /\ Item = Terminate(l)
  BY DEF Begins, MayCall
<1>2. stack # << >> => l # Root /\ Parent[l] = Top.of
  <2>1. stack # << >> => Belongs(Top.of, Terminate(l))
    BY <1>1, ItemFacts
  <2>2. QED  BY <2>1, ItemsDiffer DEF Belongs
<1>l. l \in Lifetimes /\ \A y : In(Reverse(actions[l]), y) <=> In(actions[l], y)
  <2>1. actions[l] \in Seq(Items) /\ l \in Lifetimes
    BY <1>0, <1>1 DEF TypeOK
  <2>2. QED  BY <2>1, ReverseFacts
<1>3. /\ DOMAIN stack' = DOMAIN stack \cup {Len(stack) + 1}
      /\ stack'[Len(stack) + 1].of = l /\ stack'[Len(stack) + 1].rest = Reverse(actions[l])
      /\ \A k \in DOMAIN stack :
           /\ stack'[k].of = stack[k].of
           /\ stack'[k].rest = IF k = Len(stack) THEN Tail(stack[k].rest) ELSE stack[k].rest
  BY CallStack
<1>4. \A c : OnStack(c) \/ c = l => \E k \in DOMAIN stack' : stack'[k].of = c
  BY <1>3 DEF OnStack
<1>5. ASSUME NEW m \in created \ isTerminated'
      PROVE  /\ m # Root => In(actions[m], Unlink(m))
             /\ \A c \in isTerminated' : In(actions[m], Terminate(c)) => \E k \in DOMAIN stack' : stack'[k].of = c
  BY <1>1, <1>4 DEF Links
<1>6. ASSUME NEW c \in isTerminated' PROVE ~In(Reverse(actions[l]), Terminate(c))
  <2>1. ASSUME In(actions[l], Terminate(c)) PROVE FALSE
    <3>1. c \in created \ {Root} /\ Parent[c] = l
      BY <1>l, <2>1, HeldFacts
    <3>2. c # l
      BY <1>1, <3>1, RankFacts
    <3>3. OnStack(c)
      BY <1>1, <2>1, <3>2 DEF Links
    <3>4. stack # << >>
      BY <3>3 DEF OnStack
    <3>5. QED  BY <1>1, <1>2, <3>1, <3>3, <3>4, RankFacts
  <2>2. QED  BY <1>l, <2>1
<1>7. l # Root => In(Reverse(actions[l]), Unlink(l))
  BY <1>1, <1>l DEF Links
<1>8. ASSUME NEW k \in DOMAIN stack
      PROVE  /\ \A c : In(stack'[k].rest, Terminate(c)) => In(stack[k].rest, Terminate(c)) /\ c # l
             /\ \A c : In(stack[k].rest, Unlink(c)) => In(stack'[k].rest, Unlink(c))
  <2>1. stack # << >>
    OBVIOUS
  <2>2. CASE k # Len(stack)
    <3>1. Top.of # stack[k].of
      BY <1>0, <2>1, <2>2, TopFacts, RankFacts
    <3>2. ~In(stack[k].rest, Terminate(l))
      BY <1>2, <2>1, <3>1, HeldFacts
    <3>3. stack'[k].rest = stack[k].rest
      BY <1>3, <2>2
    <3>4. QED  BY <3>2, <3>3
  <2>3. CASE k = Len(stack)
    <3>1. stack'[k].rest = Tail(Top.rest) /\ Top = stack[k]
      BY <1>0, <1>3, <2>1, <2>3, TopFacts
    <3>2. Top.rest \in Seq(Items) /\ Top.rest # << >> /\ Head(Top.rest) = Terminate(l) /\ Once(Top.rest)
      BY <1>0, <1>1, <2>1, <2>3, <3>1, TopFacts DEF Item, ShapeInv, Calls, CallFits
    <3>3. /\ \A y : In(Top.rest, y) <=> In(Tail(Top.rest), y) \/ y = Terminate(l)
          /\ ~In(Tail(Top.rest), Terminate(l))
      BY <3>2, TailFacts
    <3>4. QED  BY <3>1, <3>3, ItemsDiffer
  <2>4. QED  BY <2>2, <2>3
<1>9. ASSUME NEW k \in DOMAIN stack'
      PROVE  /\ \A c \in isTerminated' : ~In(stack'[k].rest, Terminate(c))
             /\ stack'[k].of # Root =>
                  \/ In(stack'[k].rest, Unlink(stack'[k].of))
                  \/ ~In(actions[Parent[stack'[k].of]], Terminate(stack'[k].of))
  <2>1. CASE k = Len(stack) + 1
    BY <1>3, <1>6, <1>7, <2>1
  <2>2. CASE k \in DOMAIN stack
    <3>1. ASSUME NEW c \in isTerminated' PROVE ~In(stack'[k].rest, Terminate(c))
      BY <1>1, <1>8, <2>2 DEF Links
    <3>2. stack'[k].of = stack[k].of
      BY <1>3, <2>2
    <3>3. CASE In(stack[k].rest, Unlink(stack[k].of))
      BY <1>8, <2>2, <3>1, <3>2, <3>3
    <3>4. CASE ~In(stack[k].rest, Unlink(stack[k].of))
      BY <2>2, <3>1, <3>2, <3>4 DEF Links
    <3>5. QED  BY <3>3, <3>4
  <2>3. QED  BY <1>3, <2>1, <2>2
<1>10. QED  BY <1>1, <1>5, <1>9 DEF Links, OnStack, In

\* The stack after an item that calls nothing, ...
LEMMA PopStack ==
  ASSUME ShapeInv, stack # << >>, Top.rest # << >>, stack' = Popped
  PROVE  /\ DOMAIN stack' = DOMAIN stack /\ Len(stack) \in DOMAIN stack /\ Top = stack[Len(stack)]
         /\ \A k \in DOMAIN stack :
              /\ stack'[k].of = stack[k].of
              /\ stack'[k].rest = IF k = Len(stack) THEN Tail(stack[k].rest) ELSE stack[k].rest
         /\ Top.rest \in Seq(Items)
         /\ \A y : In(Top.rest, y) <=> In(Tail(Top.rest), y) \/ y = Item
         /\ ~In(Tail(Top.rest), Item)
<1>0. TypeOK
  BY DEF ShapeInv
<1>1. /\ DOMAIN stack' = DOMAIN stack /\ Len(stack) \in DOMAIN stack /\ Top = stack[Len(stack)]
      /\ DOMAIN stack = 1 .. Len(stack) /\ Len(stack) \in Nat
  BY <1>0, TopFacts, PoppedFacts
<1>2. ASSUME NEW k \in DOMAIN stack
      PROVE  /\ stack'[k].of = stack[k].of
             /\ stack'[k].rest = IF k = Len(stack) THEN Tail(stack[k].rest) ELSE stack[k].rest
  <2>1. CASE k = Len(stack)
    <3>1. stack'[k] = [of |-> Top.of, rest |-> Tail(Top.rest)]
      BY <1>0, <2>1, PoppedFacts
    <3>2. QED  BY <1>1, <2>1, <3>1
  <2>2. CASE k # Len(stack)
    <3>1. k \in 1 .. Len(stack) - 1
      BY <1>1, <2>2
    <3>2. stack'[k] = stack[k]
      BY <1>0, <3>1, PoppedFacts
    <3>3. QED  BY <2>2, <3>2
  <2>3. QED  BY <2>1, <2>2
<1>3. Top.rest \in Seq(Items) /\ Once(Top.rest)
  BY <1>0, <1>1, TopFacts DEF ShapeInv, Calls, CallFits
<1>4. QED  BY <1>1, <1>2, <1>3, TailFacts DEF Item

\* ... and after a return.
LEMMA ReturnStack ==
  ASSUME ShapeInv, stack # << >>, stack' = Front(stack)
  PROVE  /\ DOMAIN stack' = DOMAIN stack \ {Len(stack)} /\ Top = stack[Len(stack)]
         /\ Len(stack) \in DOMAIN stack
         /\ \A k \in DOMAIN stack' : stack'[k] = stack[k]
<1>0. TypeOK
  BY DEF ShapeInv
<1>1. QED  BY <1>0, TopFacts, FrontFacts

\* What is done is not a call; the removal from the parent's list is the last
\* item, and done when the call returns.
LEMMA PopLinks ==
  ASSUME ShapeInv, Links, stack # << >>, Top.rest # << >>, stack' = Popped,
         UNCHANGED <<created, isTerminated>>,
         \A l \in Lifetimes : \A c : /\ In(actions'[l], Terminate(c)) => In(actions[l], Terminate(c))
                                     /\ In(actions[l], Unlink(c)) => In(actions'[l], Unlink(c)),
         Item.do = "unlink" => ~In(actions'[Parent[Top.of]], Terminate(Top.of))
  PROVE  Links'
<1>0. TypeOK
  BY DEF ShapeInv
<1>1. /\ DOMAIN stack' = DOMAIN stack /\ Top = stack[Len(stack)]
      /\ \A k \in DOMAIN stack :
           /\ stack'[k].of = stack[k].of
           /\ stack'[k].rest = IF k = Len(stack) THEN Tail(stack[k].rest) ELSE stack[k].rest
      /\ \A y : In(Top.rest, y) <=> In(Tail(Top.rest), y) \/ y = Item
  BY PopStack
<1>2. ASSUME NEW l \in created \ isTerminated
      PROVE  /\ l # Root => In(actions'[l], Unlink(l))
             /\ \A c \in isTerminated : In(actions'[l], Terminate(c)) => \E k \in DOMAIN stack' : stack'[k].of = c
  <2>1. l \in Lifetimes
    BY <1>0 DEF TypeOK
  <2>2. QED  BY <1>1, <2>1 DEF Links, OnStack
<1>3. ASSUME NEW k \in DOMAIN stack
      PROVE  \A y : (In(stack'[k].rest, y) => In(stack[k].rest, y))
                    /\ (In(stack[k].rest, y) => In(stack'[k].rest, y) \/ (k = Len(stack) /\ y = Item))
  BY <1>1
<1>4. ASSUME NEW k \in DOMAIN stack', NEW m, m = stack[k].of
      PROVE  /\ \A c \in isTerminated : ~In(stack'[k].rest, Terminate(c))
             /\ m # Root =>
                  \/ In(stack'[k].rest, Unlink(m))
                  \/ ~In(actions'[Parent[m]], Terminate(m))
  <2>1. \A c \in isTerminated : ~In(stack'[k].rest, Terminate(c))
    BY <1>1, <1>3 DEF Links
  <2>2. m # Root => Parent[m] \in Lifetimes
    <3>1. m \in created
      BY <1>0, <1>1, <1>4, FramesAre DEF TypeOK, Frames
    <3>2. PICK rank \in [created -> Nat] : Ranked(rank)
      BY DEF ShapeInv
    <3>3. QED  BY <1>0, <3>1, <3>2 DEF Ranked, TypeOK
  <2>3. CASE In(stack[k].rest, Unlink(m))
    <3>1. CASE k = Len(stack) /\ Unlink(m) = Item
      <4>1. ~In(actions'[Parent[m]], Terminate(m))
        BY <1>1, <1>4, <3>1, ItemsDiffer
      <4>2. QED  BY <2>1, <4>1
    <3>2. QED  BY <1>1, <1>3, <2>1, <2>3, <3>1
  <2>4. CASE ~In(stack[k].rest, Unlink(m))
    BY <1>1, <1>4, <2>1, <2>2, <2>4 DEF Links
  <2>5. QED  BY <2>3, <2>4
<1>5. QED  BY <1>1, <1>2, <1>4 DEF Links, OnStack, In

LEMMA DoneLinks ==
  ASSUME LifetimeAssumption, ShapeInv, Links, ~faults', RunAction \/ UnlinkNested \/ DisposeOwn
  PROVE  Links'
<1>0. TypeOK
  BY DEF ShapeInv
<1>1. /\ stack # << >> /\ Top.rest # << >> /\ stack' = Popped /\ UNCHANGED <<created, isTerminated>>
      /\ Item.do \in {"run", "unlink", "dispose"}
  BY DEF RunAction, UnlinkNested, DisposeOwn, InAction
<1>2. CASE UNCHANGED actions /\ Item.do # "unlink"
  BY <1>1, <1>2, PopLinks
<1>3. CASE UnlinkNested
  <2>1. Item.do = "unlink" /\ actions' = [actions EXCEPT ![Parent[Item.what]] = RemoveFirst(@, Terminate(Item.what))]
    BY <1>3 DEF UnlinkNested, InAction
  <2>2. Item.what = Top.of /\ Top.of # Root /\ Top.of \in Lifetimes
    BY <1>1, <2>1, ItemFacts DEF Belongs
  <2>3. PICK m, c : c = Top.of /\ m = Parent[c]
    OBVIOUS
  <2>4. m \in Lifetimes /\ actions[m] \in Seq(Items) /\ Once(actions[m])
    BY <1>0, <2>2, <2>3 DEF LifetimeAssumption, TypeOK, ShapeInv, Lists, ListFits
  <2>5. \A l \in Lifetimes : actions'[l] = IF l = m THEN RemoveFirst(actions[m], Terminate(c)) ELSE actions[l]
    BY <1>0, <2>1, <2>2, <2>3 DEF TypeOK
  <2>6. \A y : In(actions'[m], y) <=> In(actions[m], y) /\ y # Terminate(c)
    BY <2>4, <2>5, RemoveFacts
  <2>7. \A l \in Lifetimes : \A d : /\ In(actions'[l], Terminate(d)) => In(actions[l], Terminate(d))
                                    /\ In(actions[l], Unlink(d)) => In(actions'[l], Unlink(d))
    BY <2>5, <2>6, ItemsDiffer
  <2>8. QED  BY <1>1, <2>3, <2>6, <2>7, PopLinks
<1>4. QED  BY <1>1, <1>2, <1>3 DEF RunAction, DisposeOwn, InAction

LEMMA ReturnLinks ==
  ASSUME ShapeInv, Links, terminateReturns
  PROVE  Links'
<1>0. TypeOK
  BY DEF ShapeInv
<1>1. /\ stack # << >> /\ Top.rest = << >> /\ UNCHANGED <<created, isTerminated>>
      /\ actions' = [actions EXCEPT ![Top.of] = << >>] /\ stack' = Front(stack)
  BY DEF terminateReturns
<1>2. /\ DOMAIN stack' = DOMAIN stack \ {Len(stack)} /\ Top = stack[Len(stack)]
      /\ Len(stack) \in DOMAIN stack
      /\ \A k \in DOMAIN stack' : stack'[k] = stack[k]
  BY <1>1, ReturnStack
<1>3. \A l \in Lifetimes : actions'[l] = IF l = Top.of THEN << >> ELSE actions[l]
  BY <1>0, <1>1 DEF TypeOK
<1>4. \A y : ~In(<< >>, y)
  BY DEF In
<1>5. Top.of \in isTerminated
  BY <1>2 DEF ShapeInv, Calls
<1>6. ASSUME NEW l \in created \ isTerminated
      PROVE  /\ l # Root => In(actions'[l], Unlink(l))
             /\ \A c \in isTerminated : In(actions'[l], Terminate(c)) => \E k \in DOMAIN stack' : stack'[k].of = c
  <2>1. l \in Lifetimes /\ actions'[l] = actions[l]
    BY <1>0, <1>3, <1>5 DEF TypeOK
  <2>2. ASSUME NEW c \in isTerminated, In(actions[l], Terminate(c))
        PROVE  \E k \in DOMAIN stack' : stack'[k].of = c
    <3>1. PICK k \in DOMAIN stack : stack[k].of = c
      BY <2>2 DEF Links, OnStack
    <3>2. c # Root /\ Parent[c] = l
      BY <2>1, <2>2, HeldFacts
    <3>3. k # Len(stack)
      BY <1>1, <1>2, <1>4, <2>2, <3>1, <3>2 DEF Links
    <3>4. QED  BY <1>2, <3>1, <3>3
  <2>3. QED  BY <2>1, <2>2 DEF Links
<1>7. ASSUME NEW k \in DOMAIN stack', NEW m, m = stack[k].of
      PROVE  /\ \A c \in isTerminated : ~In(stack[k].rest, Terminate(c))
             /\ m # Root => In(stack[k].rest, Unlink(m)) \/ ~In(actions'[Parent[m]], Terminate(m))
  <2>1. m # Root => Parent[m] \in Lifetimes
    <3>1. m \in created
      BY <1>0, <1>2, <1>7, FramesAre DEF TypeOK, Frames
    <3>2. PICK rank \in [created -> Nat] : Ranked(rank)
      BY DEF ShapeInv
    <3>3. QED  BY <1>0, <3>1, <3>2 DEF Ranked, TypeOK
  <2>2. QED  BY <1>2, <1>3, <1>4, <1>7, <2>1 DEF Links
<1>8. QED  BY <1>1, <1>2, <1>6, <1>7 DEF Links, OnStack, In

LEMMA NextLinks ==
  ASSUME LifetimeAssumption, ShapeInv, LinkInv, [Next]_vars
  PROVE  LinkInv'
<1> SUFFICES ASSUME ~faults' PROVE Links' /\ ~several'
  BY DEF LinkInv
<1>1. ~faults
  BY DEF Next, vars, addNested, toDisposable, terminate, dispose, add, AddTests, AddInserts,
         RunAction, TerminateNested, UnlinkNested, DisposeOwn, terminateReturns
<1>2. Links /\ ~several
  BY <1>1 DEF LinkInv
<1>3. ASSUME NEW l, NEW below, Repeats(l, below) PROVE FALSE
  <2>1. stack # << >> /\ Top.rest # << >> /\ Item = Terminate(l) /\ l \in isTerminated
    BY <1>3 DEF Repeats, MayCall
  <2>2. Len(stack) \in DOMAIN stack /\ Top = stack[Len(stack)] /\ Top.rest \in Seq(Items)
    BY <2>1, TopFacts DEF ShapeInv
  <2>3. In(Top.rest, Terminate(l))
    BY <2>1, <2>2, TailFacts DEF Item
  <2>4. QED  BY <1>2, <2>1, <2>2, <2>3 DEF Links
<1>4. ~several'
  BY <1>2, <1>3, NextCases
     DEF addNested, Inserts, Tells, Begins, RunAction, UnlinkNested, DisposeOwn, terminateReturns
<1>5. Links'
  BY <1>2, <1>3, NextCases, NestedLinks, PutLinks, CallLinks, DoneLinks, ReturnLinks
<1>6. QED  BY <1>4, <1>5

-----------------------------------------------------------------------------
(***************************************************************************)
(* What a step does to copies, and to the lists that can still be copied.  *)
(***************************************************************************)
Gone(e) ==
  /\ e.do = "run" => In(ran', e.what)
  /\ e.do = "terminate" => e.what \in isTerminated'

\* A copy only loses what is done, and is dropped when it is empty, or when
\* something is thrown; a new one is of a lifetime that was not terminated.
LEMMA StackSteps ==
  ASSUME ShapeInv, [Next]_vars
  PROVE  /\ \A k \in DOMAIN stack \cap DOMAIN stack' :
              /\ stack'[k].of = stack[k].of
              /\ \/ stack'[k].rest = stack[k].rest
                 \/ /\ stack[k].rest # << >> /\ stack'[k].rest = Tail(stack[k].rest)
                    /\ Gone(Head(stack[k].rest))
         /\ \A k \in DOMAIN stack' \ DOMAIN stack :
              /\ stack'[k].of \in created \ isTerminated /\ stack'[k].of \in isTerminated'
              /\ stack'[k].rest = Reverse(actions[stack'[k].of])
         /\ faults' \/ several' \/ \A k \in DOMAIN stack \ DOMAIN stack' : stack[k].rest = << >>
         /\ \A l \in isTerminated' \ isTerminated : \E k \in DOMAIN stack' \ DOMAIN stack : stack'[k].of = l
<1>0. TypeOK
  BY DEF ShapeInv
<1>1. ASSUME UNCHANGED <<stack, isTerminated>> PROVE UNCHANGED stack /\ isTerminated' \ isTerminated = {}
  BY <1>1
<1>2. (\E l \in Lifetimes : addNested(l)) \/ Tells \/ (\E m, x : Inserts(m, x)) => UNCHANGED <<stack, isTerminated>>
  BY DEF addNested, Tells, Inserts
<1>3. ASSUME NEW l, NEW below, Begins(l, below)
      PROVE  /\ DOMAIN stack' = DOMAIN stack \cup {Len(stack) + 1}
             /\ stack'[Len(stack) + 1].of = l /\ stack'[Len(stack) + 1].rest = Reverse(actions[l])
             /\ l \in created \ isTerminated /\ isTerminated' = isTerminated \cup {l}
             /\ Len(stack) + 1 \notin DOMAIN stack
             /\ \A k \in DOMAIN stack :
                  /\ stack'[k].of = stack[k].of
                  /\ stack'[k].rest = IF k = Len(stack) THEN Tail(stack[k].rest) ELSE stack[k].rest
                  /\ k = Len(stack) => stack[k].rest # << >> /\ Gone(Head(stack[k].rest))
  <2>1. /\ DOMAIN stack' = DOMAIN stack \cup {Len(stack) + 1}
        /\ stack'[Len(stack) + 1].of = l /\ stack'[Len(stack) + 1].rest = Reverse(actions[l])
        /\ \A k \in DOMAIN stack :
             /\ stack'[k].of = stack[k].of
             /\ stack'[k].rest = IF k = Len(stack) THEN Tail(stack[k].rest) ELSE stack[k].rest
        /\ DOMAIN stack = 1 .. Len(stack) /\ Len(stack) \in Nat
    BY <1>3, CallStack
  <2>2. /\ l \in created \ isTerminated /\ isTerminated' = isTerminated \cup {l}
        /\ stack = << >> \/ (stack # << >> /\ Top.rest # << >> /\ Head(Top.rest) = Terminate(l))
    BY <1>3 DEF Begins, MayCall, Item
  <2>3. ASSUME NEW k \in DOMAIN stack, k = Len(stack)
        PROVE  stack[k].rest # << >> /\ Gone(Head(stack[k].rest))
    <3>1. Top = stack[k] /\ stack # << >>
      BY <1>0, <2>3, TopFacts
    <3>2. QED  BY <2>2, <3>1, ItemsDiffer DEF Gone
  <2>4. Len(stack) + 1 \notin DOMAIN stack
    BY <2>1
  <2>5. QED  BY <2>1, <2>2, <2>3, <2>4
<1>4. ASSUME NEW l, NEW below, Repeats(l, below)
      PROVE  DOMAIN stack' = {} /\ several' /\ isTerminated' = isTerminated
  BY <1>4 DEF Repeats
<1>5. ASSUME RunAction \/ UnlinkNested \/ DisposeOwn
      PROVE  /\ isTerminated' = isTerminated
             /\ \/ DOMAIN stack' = {} /\ faults'
                \/ /\ DOMAIN stack' = DOMAIN stack
                   /\ \A k \in DOMAIN stack :
                        /\ stack'[k].of = stack[k].of
                        /\ stack'[k].rest = IF k = Len(stack) THEN Tail(stack[k].rest) ELSE stack[k].rest
                        /\ k = Len(stack) => stack[k].rest # << >> /\ Gone(Head(stack[k].rest))
  <2>1. /\ stack # << >> /\ Top.rest # << >> /\ isTerminated' = isTerminated
        /\ \/ Item.do = "run" /\ ran' = Append(ran, Item.what)
           \/ Item.do \in {"unlink", "dispose"}
        /\ (stack' = << >> /\ faults') \/ stack' = Popped
    BY <1>5 DEF RunAction, UnlinkNested, DisposeOwn, InAction
  <2>2. Gone(Item)
    <3>1. CASE Item.do = "run"
      <4>1. Item.what \in Actions
        BY <2>1, <3>1, ItemFacts DEF Items
      <4>2. ran \in Seq(Actions)
        BY <1>0 DEF TypeOK
      <4>3. In(ran', Item.what)
        <5>1. ran' = Append(ran, Item.what)
          BY <2>1, <3>1
        <5>2. PICK x \in Actions : x = Item.what
          BY <4>1
        <5>3. In(Append(ran, x), x)
          BY <4>2, AppendFacts
        <5>4. QED  BY <5>1, <5>2, <5>3
      <4>4. QED  BY <3>1, <4>3 DEF Gone
    <3>2. QED  BY <2>1, <3>1 DEF Gone
  <2>3. CASE stack' = << >> /\ faults'
    BY <2>1, <2>3
  <2>4. CASE stack' = Popped
    <3>1. /\ DOMAIN stack' = DOMAIN stack /\ Top = stack[Len(stack)]
          /\ \A k \in DOMAIN stack :
               /\ stack'[k].of = stack[k].of
               /\ stack'[k].rest = IF k = Len(stack) THEN Tail(stack[k].rest) ELSE stack[k].rest
      BY <2>1, <2>4, PopStack
    <3>2. QED  BY <2>1, <2>2, <3>1 DEF Item
  <2>5. QED  BY <2>1, <2>3, <2>4
<1>6. ASSUME terminateReturns
      PROVE  /\ isTerminated' = isTerminated /\ DOMAIN stack' = DOMAIN stack \ {Len(stack)}
             /\ stack[Len(stack)].rest = << >>
             /\ \A k \in DOMAIN stack' : stack'[k] = stack[k]
  <2>1. stack # << >> /\ Top.rest = << >> /\ isTerminated' = isTerminated /\ stack' = Front(stack)
    BY <1>6 DEF terminateReturns
  <2>2. QED  BY <2>1, ReturnStack
<1> HIDE DEF Gone
<1>7. CASE UNCHANGED <<stack, isTerminated>>
  BY <1>1, <1>7
<1>8. CASE \E l, below : Begins(l, below)
  <2>1. PICK l, below : Begins(l, below)
    BY <1>8
  <2>2. PICK n : n = Len(stack) + 1
    OBVIOUS
  <2>3. /\ DOMAIN stack' = DOMAIN stack \cup {n} /\ n \notin DOMAIN stack
        /\ stack'[n].of = l /\ stack'[n].rest = Reverse(actions[l])
        /\ l \in created \ isTerminated /\ isTerminated' = isTerminated \cup {l}
    BY <1>3, <2>1, <2>2
  <2>4. \A k \in DOMAIN stack :
          /\ stack'[k].of = stack[k].of
          /\ stack'[k].rest = IF k = Len(stack) THEN Tail(stack[k].rest) ELSE stack[k].rest
          /\ k = Len(stack) => stack[k].rest # << >> /\ Gone(Head(stack[k].rest))
    BY <1>3, <2>1
  <2>5. QED  BY <2>3, <2>4
<1>9. CASE \E l, below : Repeats(l, below)
  BY <1>4, <1>9
<1>10. CASE RunAction \/ UnlinkNested \/ DisposeOwn
  BY <1>5, <1>10
<1>11. CASE terminateReturns
  BY <1>6, <1>11
<1>12. QED  BY <1>2, <1>7, <1>8, <1>9, <1>10, <1>11, NextCases

\* What is added is new, goes to the end of its list, and is late if that list
\* was copied.
Enlists(a) ==
  /\ added' = Append(added, a) /\ a.of \in created
  /\ a.what \in Actions \cup Lifetimes
  /\ \A i \in DOMAIN added : added[i].what # a.what
  /\ actions'[a.of] = Append(actions[a.of], Entry(a.what)) /\ Entry(a.what) \in Items
  /\ a.of \in isTerminated => a.what \in late'
  /\ UNCHANGED <<isTerminated, stack, ran>>

\* The list of a lifetime that is not terminated is kept, gets one item more,
\* or loses the termination of a lifetime that is terminated.
ListStep(l) ==
  \/ actions'[l] = actions[l]
  \/ \E e \in Items : e.do = "dispose" /\ actions'[l] = Append(actions[l], e)
  \/ \E a : Enlists(a) /\ a.of = l
  \/ \E c \in isTerminated : actions'[l] = RemoveFirst(actions[l], Terminate(c))

LEMMA ListSteps ==
  ASSUME LifetimeAssumption, ShapeInv, [Next]_vars
  PROVE  /\ \A l \in created \ isTerminated : ListStep(l)
         /\ UNCHANGED added \/ \E a : Enlists(a)
         /\ late \subseteq late' /\ isTerminated \subseteq isTerminated'
         /\ \A x : In(ran, x) => In(ran', x)
         /\ UNCHANGED ran \/ RunAction
<1>0. TypeOK /\ created \subseteq Lifetimes
  BY DEF ShapeInv, TypeOK
<1>1. ASSUME NEW l \in Lifetimes, addNested(l)
      PROVE  /\ \E a : Enlists(a) /\ \A m \in created : m = a.of \/ actions'[m] = actions[m]
             /\ UNCHANGED <<isTerminated, late, ran>>
  <2>1. /\ Parent[l] \in created \ isTerminated
        /\ added' = Append(added, [of |-> Parent[l], what |-> l])
        /\ \A i \in DOMAIN added : added[i].what # l
        /\ UNCHANGED <<isTerminated, stack, late, ran>>
        /\ \A m \in created : actions'[m] = IF m = Parent[l] THEN Append(actions[m], Terminate(l)) ELSE actions[m]
    BY <1>1, NestedLists
  <2>2. Entry(l) = Terminate(l) /\ Terminate(l) \in Items
    BY DEF Entry, Terminate, Items
  <2>3. PICK a : a = [of |-> Parent[l], what |-> l]
    OBVIOUS
  <2>4. a.of = Parent[l] /\ a.what = l
    BY <2>3
  <2>5. Enlists(a)
    BY <2>1, <2>2, <2>3, <2>4 DEF Enlists
  <2>6. QED  BY <2>1, <2>4, <2>5
<1>2. ASSUME NEW m, NEW x, Inserts(m, x)
      PROVE  /\ \E a : Enlists(a) /\ \A l \in created : l = a.of \/ actions'[l] = actions[l]
             /\ UNCHANGED <<isTerminated, ran>> /\ late \subseteq late'
  <2>1. /\ m \in created /\ x \in Actions /\ added' = Append(added, [of |-> m, what |-> x])
        /\ \A i \in DOMAIN added : added[i].what # x
        /\ UNCHANGED <<isTerminated, stack, ran>>
        /\ actions' = [actions EXCEPT ![m] = Append(@, Run(x))]
        /\ late \subseteq late' /\ (m \in isTerminated => x \in late')
    BY <1>2 DEF Inserts
  <2>2. Entry(x) = Run(x) /\ Run(x) \in Items
    BY <2>1 DEF Entry, Run, Items, LifetimeAssumption
  <2>3. PICK a : a = [of |-> m, what |-> x]
    OBVIOUS
  <2>4. a.of = m /\ a.what = x
    BY <2>3
  <2>5. \A l \in created : actions'[l] = IF l = m THEN Append(actions[m], Run(x)) ELSE actions[l]
    BY <1>0, <2>1, <2>2, Appended
  <2>6. Enlists(a)
    BY <2>1, <2>2, <2>3, <2>4, <2>5 DEF Enlists
  <2>7. QED  BY <2>1, <2>4, <2>5, <2>6
<1>3. ASSUME Tells
      PROVE  /\ \A l \in created : ListStep(l)
             /\ UNCHANGED <<isTerminated, added, late, ran>>
  <2>1. ASSUME NEW m \in created, NEW e \in Items, e.do = "dispose",
               actions' = [actions EXCEPT ![m] = Append(@, e)], NEW l \in created
        PROVE  ListStep(l)
    BY <1>0, <2>1, Appended DEF ListStep
  <2>2. QED  BY <1>3, <2>1 DEF Tells, ListStep
<1>4. ASSUME NEW l, NEW below, Begins(l, below) \/ Repeats(l, below)
      PROVE  isTerminated \subseteq isTerminated' /\ UNCHANGED <<actions, added, late, ran>>
  BY <1>4 DEF Begins, Repeats, MayCall
<1>5. ASSUME RunAction
      PROVE  UNCHANGED <<actions, isTerminated, added, late>> /\ \A x : In(ran, x) => In(ran', x)
  <2>1. UNCHANGED <<actions, isTerminated, added, late>> /\ ran' = Append(ran, Item.what) /\ Item.what \in Actions
    BY <1>5, ItemFacts DEF RunAction, InAction, Items
  <2>2. ran \in Seq(Actions)
    BY <1>0 DEF TypeOK
  <2>3. PICK x \in Actions : x = Item.what
    BY <2>1
  <2>4. \A y : In(ran, y) => In(Append(ran, x), y)
    BY <2>2, AppendFacts
  <2>5. QED  BY <2>1, <2>3, <2>4
<1>6. ASSUME UnlinkNested
      PROVE  /\ \A l \in created : ListStep(l)
             /\ UNCHANGED <<isTerminated, added, late, ran>>
  <2>1. /\ stack # << >> /\ Top.rest # << >> /\ Item.do = "unlink"
        /\ actions' = [actions EXCEPT ![Parent[Item.what]] = RemoveFirst(@, Terminate(Item.what))]
        /\ UNCHANGED <<isTerminated, added, late, ran>>
    BY <1>6 DEF UnlinkNested, InAction
  <2>2. Item.what = Top.of /\ Top.of \in isTerminated
    BY <2>1, ItemFacts DEF Belongs
  <2>3. \A l \in created : actions'[l] = actions[l] \/ actions'[l] = RemoveFirst(actions[l], Terminate(Item.what))
    BY <1>0, <2>1 DEF TypeOK
  <2>4. QED  BY <2>1, <2>2, <2>3 DEF ListStep
<1>7. ASSUME DisposeOwn
      PROVE  UNCHANGED <<actions, isTerminated, added, late, ran>>
  BY <1>7 DEF DisposeOwn
<1>8. ASSUME terminateReturns
      PROVE  /\ \A l \in created \ isTerminated : actions'[l] = actions[l]
             /\ UNCHANGED <<isTerminated, added, late, ran>>
  <2>1. /\ stack # << >> /\ actions' = [actions EXCEPT ![Top.of] = << >>]
        /\ UNCHANGED <<isTerminated, added, late, ran>>
    BY <1>8 DEF terminateReturns
  <2>2. Top.of \in isTerminated
    BY <1>0, <2>1, TopFacts DEF ShapeInv, Calls
  <2>3. QED  BY <1>0, <2>1, <2>2 DEF TypeOK
<1>9. ASSUME NEW a, Enlists(a), \A l \in created : l = a.of \/ actions'[l] = actions[l]
      PROVE  \A l \in created : ListStep(l)
  BY <1>9 DEF ListStep
<1>10. ASSUME UNCHANGED actions PROVE \A l \in created : ListStep(l)
  BY <1>10 DEF ListStep
<1> HIDE DEF ListStep, Enlists
<1>11. CASE (\E l \in Lifetimes : addNested(l)) \/ \E m, x : Inserts(m, x)
  BY <1>1, <1>2, <1>9, <1>11
<1>12. CASE Tells \/ UnlinkNested
  BY <1>3, <1>6, <1>12
<1>13. CASE \E l, below : Begins(l, below) \/ Repeats(l, below)
  BY <1>4, <1>10, <1>13
<1>14. CASE RunAction
  BY <1>5, <1>10, <1>14
<1>15. CASE DisposeOwn
  BY <1>7, <1>10, <1>15
<1>16. CASE terminateReturns
  BY <1>8, <1>16 DEF ListStep
<1>17. QED  BY <1>11, <1>12, <1>13, <1>14, <1>15, <1>16, NextCases

-----------------------------------------------------------------------------
(***************************************************************************)
(* What is added is done.                                                  *)
(***************************************************************************)
LEMMA EntryFacts ==
  ASSUME LifetimeAssumption
  PROVE  /\ \A x, y \in Actions \cup Lifetimes : Entry(x) = Entry(y) => x = y
         /\ \A x \in Actions \cup Lifetimes :
              /\ Entry(x).do \in {"run", "terminate"} /\ Entry(x).what = x
              /\ \A c : Entry(x) = Terminate(c) => x = c
              /\ x \in Actions => Entry(x) = Run(x)
              /\ Gone(Entry(x)) => Over(x)'
<1>1. \A x \in Actions \cup Lifetimes :
        /\ Entry(x).do \in {"run", "terminate"} /\ Entry(x).what = x
        /\ x \in Actions => Entry(x) = Run(x)
  BY ItemsDiffer DEF Entry, LifetimeAssumption
<1>2. \A x \in Actions \cup Lifetimes : \A c : Entry(x) = Terminate(c) => x = c
  BY <1>1, ItemsDiffer
<1>3. \A x \in Actions \cup Lifetimes : Gone(Entry(x)) => Over(x)'
  BY <1>1 DEF Gone, Over, In
<1>4. \A x, y \in Actions \cup Lifetimes : Entry(x) = Entry(y) => x = y
  <2>1. ASSUME NEW x \in Actions \cup Lifetimes, NEW y \in Actions \cup Lifetimes, Entry(x) = Entry(y)
        PROVE  x = y
    <3>1. Entry(x).what = x /\ Entry(y).what = y
      BY <1>1
    <3>2. QED  BY <2>1, <3>1
  <2>2. QED  BY <2>1
<1>5. QED  BY <1>1, <1>2, <1>3, <1>4

\* A list keeps what it holds, or its lifetime is called.
LEMMA WaitsKept ==
  ASSUME LifetimeAssumption, ShapeInv, [Next]_vars, NEW l \in created \ isTerminated,
         NEW x \in Actions \cup Lifetimes, In(actions[l], Entry(x))
  PROVE  In(actions'[l], Entry(x)) \/ x \in isTerminated
<1>1. l \in Lifetimes /\ actions[l] \in Seq(Items) /\ Once(actions[l])
  BY DEF ShapeInv, TypeOK, Lists, ListFits
<1>2. ListStep(l)
  BY ListSteps
<1>3. ASSUME NEW e \in Items, actions'[l] = Append(actions[l], e) PROVE In(actions'[l], Entry(x))
  BY <1>1, <1>3, AppendFacts
<1>4. ASSUME NEW c \in isTerminated, actions'[l] = RemoveFirst(actions[l], Terminate(c)), x \notin isTerminated
      PROVE  In(actions'[l], Entry(x))
  <2>1. Entry(x) # Terminate(c)
    BY <1>4, EntryFacts
  <2>2. QED  BY <1>1, <1>4, <2>1, RemoveFacts
<1>5. ASSUME NEW a, Enlists(a), a.of = l PROVE In(actions'[l], Entry(x))
  BY <1>3, <1>5 DEF Enlists
<1>6. QED  BY <1>2, <1>3, <1>4, <1>5 DEF ListStep

\* A copy keeps what it holds until that is done.
LEMMA CopyKept ==
  ASSUME LifetimeAssumption, ShapeInv, [Next]_vars, ~faults', ~several',
         NEW k \in DOMAIN stack, NEW x \in Actions \cup Lifetimes, In(stack[k].rest, Entry(x))
  PROVE  \/ k \in DOMAIN stack' /\ stack'[k].of = stack[k].of /\ In(stack'[k].rest, Entry(x))
         \/ Over(x)'
<1>0. stack[k].rest # << >>
  BY DEF In
<1>1. /\ k \in DOMAIN stack' /\ stack'[k].of = stack[k].of
      /\ \/ stack'[k].rest = stack[k].rest
         \/ stack'[k].rest = Tail(stack[k].rest) /\ Gone(Head(stack[k].rest))
  BY <1>0, StackSteps
<1>2. stack[k].rest \in Seq(Items)
  BY FramesAre DEF ShapeInv, TypeOK, Frames
<1>3. In(Tail(stack[k].rest), Entry(x)) \/ Entry(x) = Head(stack[k].rest)
  BY <1>0, <1>2, TailFacts
<1>4. QED  BY <1>1, <1>3, EntryFacts

\* After the step, x is in the list of l, to be done or done.
StillKept(l, x) ==
  IF l \in isTerminated'
    THEN \/ Over(x)' \/ x \in late'
         \/ \E k \in DOMAIN stack' : stack'[k].of = l /\ In(stack'[k].rest, Entry(x))
    ELSE In(actions'[l], Entry(x)) \/ x \in isTerminated'

LEMMA OldKept ==
  ASSUME LifetimeAssumption, ShapeInv, [Next]_vars, ~faults', ~several', Kept,
         NEW i \in DOMAIN added, NEW l, NEW x, l = added[i].of, x = added[i].what
  PROVE  StillKept(l, x)
<1> USE DEF StillKept
<1>0. TypeOK
  BY DEF ShapeInv
<1>1. l \in created /\ x \in Actions \cup Lifetimes /\ created \subseteq Lifetimes
  BY <1>0, AddedAre DEF TypeOK
<1>2. /\ late \subseteq late' /\ isTerminated \subseteq isTerminated'
      /\ \A y : In(ran, y) => In(ran', y)
  BY ListSteps
<1>3. Over(x) => Over(x)'
  BY <1>2 DEF Over, In
<1>4. CASE l \in isTerminated
  <2>1. CASE Comes(i)
    <3>1. PICK k \in DOMAIN stack : stack[k].of = l /\ In(stack[k].rest, Entry(x))
      BY <2>1 DEF Comes
    <3>2. QED  BY <1>1, <1>2, <1>4, <3>1, CopyKept
  <2>2. CASE Over(x) \/ x \in late
    BY <1>2, <1>3, <1>4, <2>2
  <2>3. QED  BY <1>4, <2>1, <2>2 DEF Kept
<1>5. CASE l \notin isTerminated /\ l \notin isTerminated'
  <2>1. In(actions[l], Entry(x)) \/ x \in isTerminated
    BY <1>5 DEF Kept, Waits
  <2>2. QED  BY <1>1, <1>2, <1>5, <2>1, WaitsKept
<1>6. CASE l \notin isTerminated /\ l \in isTerminated'
  <2>1. CASE x \in isTerminated
    BY <1>2, <1>6, <2>1 DEF Over
  <2>2. CASE In(actions[l], Entry(x))
    <3>1. PICK k \in DOMAIN stack' \ DOMAIN stack : stack'[k].of = l
      BY <1>6, StackSteps
    <3>2. stack'[k].rest = Reverse(actions[l])
      BY <3>1, StackSteps
    <3>3. actions[l] \in Seq(Items)
      BY <1>0, <1>1 DEF TypeOK
    <3>4. In(stack'[k].rest, Entry(x))
      BY <2>2, <3>2, <3>3, ReverseFacts
    <3>5. QED  BY <1>6, <3>1, <3>4
  <2>3. QED  BY <1>6, <2>1, <2>2 DEF Kept, Waits
<1>7. QED  BY <1>4, <1>5, <1>6

LEMMA NextKept ==
  ASSUME LifetimeAssumption, ShapeInv, LinkInv, KeptInv, [Next]_vars
  PROVE  KeptInv'
<1> SUFFICES ASSUME ~faults' PROVE Kept'
  BY DEF KeptInv
<1>0. TypeOK
  BY DEF ShapeInv
<1>1. ~faults
  BY DEF Next, vars, addNested, toDisposable, terminate, dispose, add, AddTests, AddInserts,
         RunAction, TerminateNested, UnlinkNested, DisposeOwn, terminateReturns
<1>2. Kept
  BY <1>1 DEF KeptInv
<1>3. ~several'
  BY NextLinks DEF LinkInv
<1>4. ASSUME NEW i \in DOMAIN added', NEW l, NEW x, l = added'[i].of, x = added'[i].what
      PROVE  StillKept(l, x)
  <2>1. CASE i \in DOMAIN added /\ added'[i] = added[i]
    BY <1>2, <1>3, <1>4, <2>1, OldKept
  <2>2. ASSUME NEW a, Enlists(a), a.of = l, a.what = x PROVE StillKept(l, x)
    <3>1. CASE l \in isTerminated
      BY <2>2, <3>1 DEF Enlists, StillKept
    <3>2. CASE l \notin isTerminated
      <4>1. actions[l] \in Seq(Items) /\ actions'[l] = Append(actions[l], Entry(x)) /\ Entry(x) \in Items
        BY <1>0, <2>2 DEF Enlists, TypeOK
      <4>2. In(actions'[l], Entry(x))
        BY <4>1, AppendFacts
      <4>3. QED  BY <2>2, <3>2, <4>2 DEF Enlists, StillKept
    <3>3. QED  BY <3>1, <3>2
  <2>3. CASE UNCHANGED added
    BY <1>4, <2>1, <2>3
  <2>4. ASSUME NEW a, Enlists(a) PROVE StillKept(l, x)
    <3>1. /\ DOMAIN added' = 1 .. Len(added) + 1 /\ DOMAIN added = 1 .. Len(added)
          /\ \A j \in 1 .. Len(added) : added'[j] = added[j]
          /\ added'[Len(added) + 1] = a
      BY <2>4, AddedGrows DEF Enlists
    <3>2. CASE i \in DOMAIN added
      BY <2>1, <3>1, <3>2
    <3>3. CASE i = Len(added) + 1
      BY <1>4, <2>2, <2>4, <3>1, <3>3
    <3>4. QED  BY <3>1, <3>2, <3>3
  <2>5. QED  BY <2>3, <2>4, ListSteps
<1>5. QED  BY <1>4 DEF StillKept, Kept, Waits, Comes, Over, In

-----------------------------------------------------------------------------
(***************************************************************************)
(* Nothing is run twice.                                                   *)
(***************************************************************************)
\* Where an action was added to is known: only one call can hold it.
LEMMA AddedTo ==
  ASSUME ShapeInv, NEW l, NEW m, NEW x, In(added, [of |-> l, what |-> x]), In(added, [of |-> m, what |-> x])
  PROVE  l = m
<1>1. PICK i \in DOMAIN added : added[i] = [of |-> l, what |-> x]
  BY DEF In
<1>2. PICK j \in DOMAIN added : added[j] = [of |-> m, what |-> x]
  BY DEF In
<1>3. added[i].what = x /\ added[j].what = x /\ added[i].of = l /\ added[j].of = m
  BY <1>1, <1>2
<1>4. i = j
  BY <1>3 DEF ShapeInv, AddedOnce
<1>5. QED  BY <1>3, <1>4

\* Copies of what ran: neither the old ones nor a new one hold it.
LEMMA CopiesClean ==
  ASSUME ShapeInv, RanInv, [Next]_vars, NEW x \in Actions, In(ran, x), NEW k \in DOMAIN stack'
  PROVE  ~In(stack'[k].rest, Run(x))
<1>0. TypeOK
  BY DEF ShapeInv
<1>1. CASE k \in DOMAIN stack
  <2>1. ~In(stack[k].rest, Run(x))
    BY <1>1 DEF RanInv
  <2>2. stack[k].rest \in Seq(Items)
    BY <1>0, <1>1, FramesAre DEF TypeOK, Frames
  <2>3. stack[k].rest # << >> => ~In(Tail(stack[k].rest), Run(x))
    BY <2>1, <2>2, TailFacts
  <2>4. QED  BY <1>1, <2>1, <2>3, StackSteps
<1>2. CASE k \notin DOMAIN stack
  <2>1. PICK l \in created \ isTerminated : l = stack'[k].of /\ stack'[k].rest = Reverse(actions[l])
    BY <1>2, StackSteps
  <2>2. l \in Lifetimes /\ actions[l] \in Seq(Items)
    BY <1>0, <2>1 DEF TypeOK
  <2>3. PICK i \in DOMAIN added : added[i].what = x /\ added[i].of \in isTerminated
    BY DEF RanInv
  <2>4. In(added, [of |-> added[i].of, what |-> x])
    BY <1>0, <2>3, AddedAre DEF In
  <2>5. ~In(actions[l], Run(x))
    <3>1. ASSUME In(actions[l], Run(x)) PROVE FALSE
      <4>1. In(added, [of |-> l, what |-> x])
        BY <2>2, <3>1, HeldFacts
      <4>2. l = added[i].of
        BY <2>4, <4>1, AddedTo
      <4>3. QED  BY <2>1, <2>3, <4>2
    <3>2. QED  BY <3>1
  <2>6. QED  BY <2>1, <2>2, <2>5, ReverseFacts
<1>3. QED  BY <1>1, <1>2

\* What the innermost call is about to run.
LEMMA RunFacts ==
  ASSUME ShapeInv, RunAction
  PROVE  /\ stack # << >> /\ Top.rest # << >> /\ Item.what \in Actions /\ Item = Run(Item.what)
         /\ ran' = Append(ran, Item.what) /\ ran \in Seq(Actions)
         /\ DOMAIN ran' = DOMAIN ran \cup {Len(ran) + 1} /\ Len(ran) + 1 \notin DOMAIN ran
         /\ DOMAIN ran = 1 .. Len(ran) /\ Len(ran) \in Nat
         /\ (\A p \in DOMAIN ran : ran'[p] = ran[p]) /\ ran'[Len(ran) + 1] = Item.what
         /\ In(Top.rest, Run(Item.what))
         /\ In(added, [of |-> Top.of, what |-> Item.what]) /\ Top.of \in isTerminated
         /\ stack' = << >> \/ stack' = Popped
         /\ UNCHANGED <<created, isTerminated, actions, added, late>>
<1>1. /\ stack # << >> /\ Top.rest # << >> /\ Item.do = "run" /\ ran' = Append(ran, Item.what)
      /\ stack' = << >> \/ stack' = Popped
      /\ UNCHANGED <<created, isTerminated, actions, added, late>>
  BY DEF RunAction, InAction
<1>2. Item \in Items /\ Belongs(Top.of, Item) /\ Top.of \in isTerminated
  BY <1>1, ItemFacts
<1>3. Item.what \in Actions /\ Item = Run(Item.what)
  BY <1>1, <1>2 DEF Items, Run
<1>4. ran \in Seq(Actions)
  BY DEF ShapeInv, TypeOK
<1>5. PICK x \in Actions : x = Item.what
  BY <1>3
<1>6. /\ DOMAIN ran' = 1 .. Len(ran) + 1 /\ DOMAIN ran = 1 .. Len(ran) /\ Len(ran) \in Nat
      /\ (\A p \in 1 .. Len(ran) : ran'[p] = ran[p]) /\ ran'[Len(ran) + 1] = x
  BY <1>1, <1>4, <1>5, AppendFacts
<1>7. DOMAIN ran' = DOMAIN ran \cup {Len(ran) + 1} /\ Len(ran) + 1 \notin DOMAIN ran
  BY <1>6
<1>8. In(Top.rest, Item)
  <2>1. Top.rest \in Seq(Items)
    BY <1>1, TopFacts DEF ShapeInv
  <2>2. QED  BY <1>1, <2>1, TailFacts DEF Item
<1>9. In(added, [of |-> Top.of, what |-> Item.what])
  BY <1>1, <1>2 DEF Belongs
<1>10. QED  BY <1>1, <1>2, <1>3, <1>4, <1>5, <1>6, <1>7, <1>8, <1>9

LEMMA NextRan ==
  ASSUME LifetimeAssumption, ShapeInv, RanInv, [Next]_vars
  PROVE  RanInv'
<1>0. TypeOK
  BY DEF ShapeInv
<1>1. ASSUME NEW i \in DOMAIN added, added[i].of \in isTerminated
      PROVE  \E j \in DOMAIN added' : added'[j].what = added[i].what /\ added'[j].of \in isTerminated'
  <2>1. isTerminated \subseteq isTerminated'
    BY ListSteps
  <2>2. CASE UNCHANGED added
    BY <1>1, <2>1, <2>2
  <2>3. ASSUME NEW a, Enlists(a) PROVE i \in DOMAIN added' /\ added'[i] = added[i]
    BY <2>3, AddedGrows DEF Enlists
  <2>4. QED  BY <1>1, <2>1, <2>2, <2>3, ListSteps
<1>2. ASSUME NEW x \in Actions, In(ran, x)
      PROVE  \E j \in DOMAIN added' : added'[j].what = x /\ added'[j].of \in isTerminated'
  BY <1>1, <1>2 DEF RanInv
<1>3. CASE UNCHANGED ran
  <2>1. RunsOnce'
    BY <1>3 DEF RanInv, RunsOnce
  <2>2. ASSUME NEW x \in Actions, In(ran, x), NEW k \in DOMAIN stack' PROVE ~In(stack'[k].rest, Run(x))
    BY <2>2, CopiesClean
  <2>3. QED  BY <1>2, <1>3, <2>1, <2>2 DEF RanInv, In
<1>4. CASE RunAction
  <2>1. /\ stack # << >> /\ Top.rest # << >> /\ Item.what \in Actions /\ Item = Run(Item.what)
        /\ In(Top.rest, Run(Item.what))
        /\ In(added, [of |-> Top.of, what |-> Item.what]) /\ Top.of \in isTerminated
        /\ stack' = << >> \/ stack' = Popped
        /\ UNCHANGED <<isTerminated, added>>
    BY <1>4, RunFacts
  <2>2. PICK y \in Actions : y = Item.what
    BY <2>1
  <2>3. /\ DOMAIN ran' = DOMAIN ran \cup {Len(ran) + 1} /\ Len(ran) + 1 \notin DOMAIN ran
        /\ (\A p \in DOMAIN ran : ran'[p] = ran[p]) /\ ran'[Len(ran) + 1] = y
    BY <1>4, <2>2, RunFacts
  <2>4. ~In(ran, y)
    <3>1. Len(stack) \in DOMAIN stack /\ Top = stack[Len(stack)]
      BY <1>0, <2>1, TopFacts
    <3>2. QED  BY <2>1, <2>2, <3>1 DEF RanInv
  <2>5. RunsOnce'
    BY <2>3, <2>4 DEF RanInv, RunsOnce, In
  <2>6. \E j \in DOMAIN added' : added'[j].what = y /\ added'[j].of \in isTerminated'
    <3>1. PICK j \in DOMAIN added : added[j] = [of |-> Top.of, what |-> y]
      BY <2>1, <2>2 DEF In
    <3>2. QED  BY <2>1, <3>1
  <2>7. ASSUME NEW k \in DOMAIN stack' PROVE ~In(stack'[k].rest, Run(y))
    <3>1. stack' = Popped
      BY <2>1
    <3>2. /\ k \in DOMAIN stack /\ Len(stack) \in DOMAIN stack /\ Top = stack[Len(stack)]
          /\ stack'[k].rest = IF k = Len(stack) THEN Tail(stack[k].rest) ELSE stack[k].rest
          /\ ~In(Tail(Top.rest), Item)
      BY <2>1, <3>1, PopStack
    <3>3. CASE k = Len(stack)
      BY <2>1, <2>2, <3>2, <3>3
    <3>4. CASE k # Len(stack)
      <4>1. stack[k].of # Top.of
        BY <3>2, <3>4, RankFacts
      <4>2. ~In(stack[k].rest, Run(y))
        BY <2>1, <2>2, <3>2, <4>1, HeldFacts, AddedTo
      <4>3. QED  BY <3>2, <3>4, <4>2
    <3>5. QED  BY <3>3, <3>4
  <2>8. ASSUME NEW x \in Actions, In(ran', x)
        PROVE  /\ \E j \in DOMAIN added' : added'[j].what = x /\ added'[j].of \in isTerminated'
               /\ \A k \in DOMAIN stack' : ~In(stack'[k].rest, Run(x))
    <3>1. In(ran, x) \/ x = y
      BY <2>3, <2>8 DEF In
    <3>2. CASE In(ran, x)
      BY <1>2, <3>2, CopiesClean
    <3>3. CASE x = y
      BY <2>6, <2>7, <3>3
    <3>4. QED  BY <3>1, <3>2, <3>3
  <2>9. QED  BY <2>5, <2>8 DEF RanInv, In
<1>5. QED  BY <1>3, <1>4, ListSteps

-----------------------------------------------------------------------------
(***************************************************************************)
(* Order.                                                                  *)
(***************************************************************************)
\* What was added before stays; at most one entry follows.
LEMMA AddedSteps ==
  ASSUME LifetimeAssumption, ShapeInv, [Next]_vars
  PROVE  /\ DOMAIN added = 1 .. Len(added) /\ Len(added) \in Nat
         /\ \A i \in DOMAIN added : i \in DOMAIN added' /\ added'[i] = added[i]
         /\ \A i \in DOMAIN added' :
              i \in DOMAIN added \/ (i = Len(added) + 1 /\ \E a : Enlists(a) /\ added'[i] = a)
<1>1. DOMAIN added = 1 .. Len(added) /\ Len(added) \in Nat
  BY DEF ShapeInv, TypeOK
<1>2. CASE UNCHANGED added
  BY <1>1, <1>2
<1>3. ASSUME NEW a, Enlists(a)
      PROVE  /\ DOMAIN added' = 1 .. Len(added) + 1
             /\ \A i \in 1 .. Len(added) : added'[i] = added[i]
             /\ added'[Len(added) + 1] = a
  BY <1>3, AddedGrows DEF Enlists
<1>4. ASSUME NEW a, Enlists(a)
      PROVE  /\ \A i \in DOMAIN added : i \in DOMAIN added' /\ added'[i] = added[i]
             /\ \A i \in DOMAIN added' :
                  i \in DOMAIN added \/ (i = Len(added) + 1 /\ \E b : Enlists(b) /\ added'[i] = b)
  BY <1>1, <1>3, <1>4
<1>5. QED  BY <1>1, <1>2, <1>4, ListSteps

\* Two entries of a list that is not copied yet.
LEMMA OldInOrder ==
  ASSUME LifetimeAssumption, ShapeInv, [Next]_vars, NEW l \in created \ isTerminated,
         NEW x \in Actions \cup Lifetimes, NEW y \in Actions \cup Lifetimes,
         \A a : Enlists(a) => a.what # x /\ a.what # y,
         \A p, q \in DOMAIN actions[l] : actions[l][p] = Entry(x) /\ actions[l][q] = Entry(y) => p < q
  PROVE  \A p, q \in DOMAIN actions'[l] : actions'[l][p] = Entry(x) /\ actions'[l][q] = Entry(y) => p < q
<1>1. actions[l] \in Seq(Items) /\ Once(actions[l]) /\ DOMAIN actions[l] = 1 .. Len(actions[l])
  BY DEF ShapeInv, TypeOK, Lists, ListFits
<1>2. ASSUME NEW e \in Items, actions'[l] = Append(actions[l], e), e # Entry(x), e # Entry(y),
             NEW p \in DOMAIN actions'[l], NEW q \in DOMAIN actions'[l],
             actions'[l][p] = Entry(x), actions'[l][q] = Entry(y)
      PROVE  p < q
  <2>1. /\ DOMAIN actions'[l] = 1 .. Len(actions[l]) + 1 /\ Len(actions[l]) \in Nat
        /\ \A i \in 1 .. Len(actions[l]) : actions'[l][i] = actions[l][i]
        /\ actions'[l][Len(actions[l]) + 1] = e
    BY <1>1, <1>2, AppendFacts
  <2>2. p # Len(actions[l]) + 1 /\ q # Len(actions[l]) + 1
    BY <1>2, <2>1
  <2>3. p \in 1 .. Len(actions[l]) /\ q \in 1 .. Len(actions[l])
    BY <2>1, <2>2
  <2>4. QED  BY <1>1, <1>2, <2>1, <2>3
<1>3. ASSUME NEW c, actions'[l] = RemoveFirst(actions[l], Terminate(c)),
             NEW p \in DOMAIN actions'[l], NEW q \in DOMAIN actions'[l],
             actions'[l][p] = Entry(x), actions'[l][q] = Entry(y)
      PROVE  p < q
  <2>1. In(actions'[l], Entry(x)) /\ In(actions'[l], Entry(y))
    BY <1>3 DEF In
  <2>2. In(actions[l], Entry(x)) /\ In(actions[l], Entry(y))
    BY <1>1, <1>3, <2>1, RemoveFacts
  <2>3. PICK m \in DOMAIN actions[l], n \in DOMAIN actions[l] :
          actions[l][m] = Entry(x) /\ actions[l][n] = Entry(y)
    BY <2>2 DEF In
  <2>4. m < n
    BY <2>3
  <2>5. PICK s, r : s = actions[l] /\ r = actions'[l]
    OBVIOUS
  <2>6. \A i, j \in DOMAIN r : \A g, h \in DOMAIN s : r[i] = s[g] /\ r[j] = s[h] /\ g < h => i < j
    BY <1>1, <1>3, <2>5, RemoveFacts
  <2>7. QED  BY <1>3, <2>3, <2>4, <2>5, <2>6
<1>4. ASSUME NEW a, Enlists(a), a.of = l
      PROVE  /\ actions'[l] = Append(actions[l], Entry(a.what)) /\ Entry(a.what) \in Items
             /\ Entry(a.what) # Entry(x) /\ Entry(a.what) # Entry(y)
  <2>1. a.what \in Actions \cup Lifetimes /\ a.what # x /\ a.what # y
    BY <1>4 DEF Enlists
  <2>2. QED  BY <1>4, <2>1, EntryFacts DEF Enlists
<1>5. ASSUME NEW e \in Items, e.do = "dispose" PROVE e # Entry(x) /\ e # Entry(y)
  BY <1>5, EntryFacts
<1>6. ListStep(l)
  BY ListSteps
<1>7. CASE actions'[l] = actions[l]
  BY <1>7
<1>8. CASE \E e \in Items : e.do = "dispose" /\ actions'[l] = Append(actions[l], e)
  BY <1>2, <1>5, <1>8
<1>9. CASE \E a : Enlists(a) /\ a.of = l
  BY <1>2, <1>4, <1>9
<1>10. CASE \E c \in isTerminated : actions'[l] = RemoveFirst(actions[l], Terminate(c))
  BY <1>3, <1>10
<1>11. QED  BY <1>6, <1>7, <1>8, <1>9, <1>10 DEF ListStep

LEMMA NextInOrder ==
  ASSUME LifetimeAssumption, ShapeInv, ListsInOrder, [Next]_vars
  PROVE  ListsInOrder'
<1>0. TypeOK /\ created \subseteq Lifetimes
  BY DEF ShapeInv, TypeOK
<1>1. isTerminated \subseteq isTerminated'
  BY ListSteps
<1>2. ASSUME NEW i \in DOMAIN added, NEW j \in DOMAIN added, Later(i, j),
             NEW l, NEW x, NEW y, l = added[i].of, x = added[i].what, y = added[j].what, l \notin isTerminated'
      PROVE  /\ In(actions'[l], Entry(y)) \/ y \in isTerminated'
             /\ \A p, q \in DOMAIN actions'[l] : actions'[l][p] = Entry(x) /\ actions'[l][q] = Entry(y) => p < q
  <2>1. l \in created \ isTerminated /\ x \in Actions \cup Lifetimes /\ y \in Actions \cup Lifetimes
    BY <1>0, <1>1, <1>2, AddedAre
  <2>2. l = added[j].of
    BY <1>2 DEF Later
  <2>3. /\ In(actions[l], Entry(y)) \/ y \in isTerminated
        /\ \A p, q \in DOMAIN actions[l] : actions[l][p] = Entry(x) /\ actions[l][q] = Entry(y) => p < q
    BY <1>2, <2>1, <2>2 DEF ListsInOrder, Waits
  <2>4. \A a : Enlists(a) => a.what # x /\ a.what # y
    BY <1>2 DEF Enlists
  <2>5. In(actions'[l], Entry(y)) \/ y \in isTerminated'
    BY <1>1, <2>1, <2>3, WaitsKept
  <2>6. QED  BY <2>1, <2>3, <2>4, <2>5, OldInOrder
<1>3. ASSUME NEW i \in DOMAIN added, NEW a, Enlists(a),
             NEW l, NEW x, NEW y, l = added[i].of, l = a.of, x = added[i].what, y = a.what
      PROVE  /\ In(actions'[l], Entry(y))
             /\ \A p, q \in DOMAIN actions'[l] : actions'[l][p] = Entry(x) /\ actions'[l][q] = Entry(y) => p < q
  <2>1. /\ l \in created /\ actions'[l] = Append(actions[l], Entry(y)) /\ Entry(y) \in Items
        /\ y \in Actions \cup Lifetimes /\ x # y
    BY <1>3 DEF Enlists
  <2>2. x \in Actions \cup Lifetimes /\ actions[l] \in Seq(Items)
    BY <1>0, <1>3, <2>1, AddedAre DEF TypeOK
  <2>3. PICK s, e : s = actions'[l] /\ e = Entry(y)
    OBVIOUS
  <2>4. /\ DOMAIN s = 1 .. Len(actions[l]) + 1 /\ Len(actions[l]) \in Nat
        /\ s[Len(actions[l]) + 1] = e /\ In(s, e)
    BY <2>1, <2>2, <2>3, AppendFacts
  <2>5. Once(s)
    <3>1. Lists'
      BY NextShape DEF ShapeInv
    <3>2. l \in Lifetimes
      BY <1>0, <2>1
    <3>3. QED  BY <2>3, <3>1, <3>2 DEF Lists, ListFits, Once
  <2>6. Entry(x) # e
    BY <2>1, <2>2, <2>3, EntryFacts
  <2>7. ASSUME NEW p \in DOMAIN s, NEW q \in DOMAIN s, s[p] = Entry(x), s[q] = e PROVE p < q
    <3>1. q = Len(actions[l]) + 1
      BY <2>4, <2>5, <2>7 DEF Once
    <3>2. p # Len(actions[l]) + 1
      BY <2>4, <2>6, <2>7
    <3>3. QED  BY <2>4, <3>1, <3>2
  <2>8. QED  BY <2>3, <2>4, <2>7
<1>4. ASSUME NEW i \in DOMAIN added', NEW j \in DOMAIN added', i < j,
             NEW l, NEW x, NEW y, l = added'[i].of, l = added'[j].of, x = added'[i].what, y = added'[j].what,
             l \notin isTerminated'
      PROVE  /\ In(actions'[l], Entry(y)) \/ y \in isTerminated'
             /\ \A p, q \in DOMAIN actions'[l] : actions'[l][p] = Entry(x) /\ actions'[l][q] = Entry(y) => p < q
  <2>1. i \in DOMAIN added /\ added'[i] = added[i]
    BY <1>4, AddedSteps
  <2>2. CASE j \in DOMAIN added
    <3>1. added'[j] = added[j]
      BY <2>2, AddedSteps
    <3>2. QED  BY <1>2, <1>4, <2>1, <2>2, <3>1 DEF Later
  <2>3. CASE j \notin DOMAIN added
    <3>1. PICK a : Enlists(a) /\ added'[j] = a
      BY <2>3, AddedSteps
    <3>2. QED  BY <1>3, <1>4, <2>1, <3>1
  <2>4. QED  BY <2>2, <2>3
<1>5. QED  BY <1>4 DEF ListsInOrder, Waits, Later, In

\* What is left of a copy after a step: if x is next to be done only when y is
\* over or before it, it stays so.
LEMMA CopyReversed ==
  ASSUME LifetimeAssumption, ShapeInv, [Next]_vars,
         NEW k \in DOMAIN stack \cap DOMAIN stack', NEW x, NEW y \in Actions \cup Lifetimes,
         \A p \in DOMAIN stack[k].rest : stack[k].rest[p] = Entry(x) =>
           Over(y) \/ \E q \in DOMAIN stack[k].rest : q < p /\ stack[k].rest[q] = Entry(y),
         NEW p \in DOMAIN stack'[k].rest, stack'[k].rest[p] = Entry(x)
  PROVE  Over(y)' \/ \E q \in DOMAIN stack'[k].rest : q < p /\ stack'[k].rest[q] = Entry(y)
<1>1. Over(y) => Over(y)'
  <2>1. isTerminated \subseteq isTerminated' /\ (In(ran, y) => In(ran', y))
    BY ListSteps
  <2>2. QED  BY <2>1 DEF Over, In
<1>2. CASE stack'[k].rest = stack[k].rest
  BY <1>1, <1>2
<1>3. CASE stack[k].rest # << >> /\ stack'[k].rest = Tail(stack[k].rest) /\ Gone(Head(stack[k].rest))
  <2>1. PICK s, r : s = stack[k].rest /\ r = stack'[k].rest
    OBVIOUS
  <2>2. s \in Seq(Items)
    BY <2>1, FramesAre DEF ShapeInv, TypeOK, Frames
  <2>3. /\ Head(s) = s[1] /\ DOMAIN s = 1 .. Len(s) /\ Len(s) \in Nat \ {0}
        /\ DOMAIN r = 1 .. Len(s) - 1 /\ \A i \in 1 .. Len(s) - 1 : r[i] = s[i + 1]
    BY <1>3, <2>1, <2>2, TailFacts
  <2>4. p \in 1 .. Len(s) - 1 /\ p + 1 \in DOMAIN s /\ s[p + 1] = Entry(x)
    BY <2>1, <2>3
  <2>5. Over(y) \/ \E q \in DOMAIN s : q < p + 1 /\ s[q] = Entry(y)
    BY <2>1, <2>4
  <2>6. ASSUME NEW q \in DOMAIN s, q < p + 1, s[q] = Entry(y)
        PROVE  Over(y)' \/ \E n \in DOMAIN r : n < p /\ r[n] = Entry(y)
    <3>1. CASE q = 1
      <4>1. Gone(Entry(y))
        BY <1>3, <2>1, <2>3, <2>6, <3>1
      <4>2. QED  BY <4>1, EntryFacts
    <3>2. CASE q # 1
      <4>1. q - 1 \in DOMAIN r /\ q - 1 < p /\ r[q - 1] = s[q]
        BY <2>3, <2>4, <2>6, <3>2
      <4>2. QED  BY <2>6, <4>1
    <3>3. QED  BY <3>1, <3>2
  <2>7. QED  BY <1>1, <2>1, <2>5, <2>6
<1>4. QED  BY <1>2, <1>3, StackSteps

LEMMA NewReversed ==
  ASSUME LifetimeAssumption, ShapeInv, ListsInOrder, [Next]_vars,
         NEW k \in DOMAIN stack' \ DOMAIN stack, NEW i \in DOMAIN added, NEW j \in DOMAIN added, Later(i, j),
         added[i].of = stack'[k].of, NEW x, NEW y, x = added[i].what, y = added[j].what,
         NEW p \in DOMAIN stack'[k].rest, stack'[k].rest[p] = Entry(x)
  PROVE  Over(y)' \/ \E q \in DOMAIN stack'[k].rest : q < p /\ stack'[k].rest[q] = Entry(y)
<1>1. PICK l \in created \ isTerminated : l = stack'[k].of /\ stack'[k].rest = Reverse(actions[l])
  BY StackSteps
<1>2. PICK s, r : s = actions[l] /\ r = stack'[k].rest
  OBVIOUS
<1>4. s \in Seq(Items)
  BY <1>1, <1>2 DEF ShapeInv, TypeOK
<1>5. /\ DOMAIN r = 1 .. Len(s) /\ DOMAIN s = 1 .. Len(s) /\ Len(s) \in Nat
      /\ \A n \in 1 .. Len(s) : r[n] = s[Len(s) - n + 1] /\ Len(s) - n + 1 \in 1 .. Len(s)
  BY <1>1, <1>2, <1>4, ReverseFacts
<1>6. added[i].of = l /\ added[j].of = l
  BY <1>1 DEF Later
<1>7. /\ In(s, Entry(y)) \/ y \in isTerminated
      /\ \A m, n \in DOMAIN s : s[m] = Entry(x) /\ s[n] = Entry(y) => m < n
  BY <1>1, <1>2, <1>6 DEF ListsInOrder, Waits
<1>8. CASE y \in isTerminated
  <2>1. isTerminated \subseteq isTerminated'
    BY ListSteps
  <2>2. QED  BY <1>8, <2>1 DEF Over
<1>9. CASE In(s, Entry(y))
  <2>1. PICK n \in DOMAIN s : s[n] = Entry(y)
    BY <1>9 DEF In
  <2>2. s[Len(s) - p + 1] = Entry(x) /\ Len(s) - p + 1 \in DOMAIN s /\ p \in 1 .. Len(s)
    BY <1>2, <1>5
  <2>3. Len(s) - p + 1 < n
    BY <1>7, <2>1, <2>2
  <2>4. PICK q : q = Len(s) - n + 1
    OBVIOUS
  <2>5. q \in 1 .. Len(s) /\ q < p /\ Len(s) - q + 1 = n
    <3>1. PICK z \in Nat : z = Len(s)
      BY <1>5
    <3>2. n \in 1 .. z /\ p \in 1 .. z /\ z - p + 1 < n /\ q = z - n + 1
      BY <1>5, <2>1, <2>2, <2>3, <2>4, <3>1
    <3>3. q \in 1 .. z /\ q < p /\ z - q + 1 = n
      BY <3>2
    <3>4. QED  BY <3>1, <3>3
  <2>6. r[q] = Entry(y)
    BY <1>5, <2>1, <2>5
  <2>7. QED  BY <1>2, <1>5, <2>5, <2>6
<1>10. QED  BY <1>7, <1>8, <1>9

LEMMA NextReversed ==
  ASSUME LifetimeAssumption, ShapeInv, ListsInOrder, CallsReversed, [Next]_vars
  PROVE  CallsReversed'
<1>0. TypeOK /\ created \subseteq Lifetimes
  BY DEF ShapeInv, TypeOK
<1>1. late \subseteq late'
  BY ListSteps
<1>2. ASSUME NEW k \in DOMAIN stack', NEW i \in DOMAIN added, NEW j \in DOMAIN added, Later(i, j),
             added[i].of = stack'[k].of, NEW x, NEW y, x = added[i].what, y = added[j].what, y \notin late',
             NEW p \in DOMAIN stack'[k].rest, stack'[k].rest[p] = Entry(x)
      PROVE  Over(y)' \/ \E q \in DOMAIN stack'[k].rest : q < p /\ stack'[k].rest[q] = Entry(y)
  <2>1. CASE k \in DOMAIN stack
    <3>2. y \in Actions \cup Lifetimes
      BY <1>0, <1>2, AddedAre
    <3>3. added[i].of = stack[k].of
      BY <1>2, <2>1, StackSteps
    <3>4. ASSUME NEW n \in DOMAIN stack[k].rest, stack[k].rest[n] = Entry(x)
          PROVE  Over(y) \/ \E q \in DOMAIN stack[k].rest : q < n /\ stack[k].rest[q] = Entry(y)
      BY <1>1, <1>2, <2>1, <3>3, <3>4 DEF CallsReversed
    <3>5. QED  BY <1>2, <2>1, <3>2, <3>4, CopyReversed
  <2>2. CASE k \notin DOMAIN stack
    BY <1>2, <2>2, NewReversed
  <2>3. QED  BY <2>1, <2>2
<1>3. ASSUME NEW k \in DOMAIN stack', NEW i \in DOMAIN added', NEW j \in DOMAIN added',
             NEW p \in DOMAIN stack'[k].rest,
             i < j, added'[i].of = added'[j].of, added'[i].of = stack'[k].of,
             stack'[k].rest[p] = Entry(added'[i].what), added'[j].what \notin late'
      PROVE  \/ added'[j].what \in isTerminated' \/ In(ran', added'[j].what)
             \/ \E q \in DOMAIN stack'[k].rest : q < p /\ stack'[k].rest[q] = Entry(added'[j].what)
  <2>1. i \in DOMAIN added /\ added'[i] = added[i]
    BY <1>3, AddedSteps
  <2>2. CASE j \in DOMAIN added
    <3>1. added'[j] = added[j] /\ Later(i, j)
      BY <1>3, <2>1, <2>2, AddedSteps DEF Later
    <3>2. PICK x, y : x = added[i].what /\ y = added[j].what
      OBVIOUS
    <3>3. added[i].of = stack'[k].of /\ y \notin late' /\ stack'[k].rest[p] = Entry(x)
      BY <1>3, <2>1, <3>1, <3>2
    <3>4. Over(y)' \/ \E q \in DOMAIN stack'[k].rest : q < p /\ stack'[k].rest[q] = Entry(y)
      BY <1>2, <2>1, <2>2, <3>1, <3>2, <3>3
    <3>5. QED  BY <3>1, <3>2, <3>4 DEF Over, In
  <2>3. CASE j \notin DOMAIN added
    <3>1. PICK a : Enlists(a) /\ added'[j] = a
      BY <2>3, AddedSteps
    <3>2. stack' = stack /\ a.of \notin isTerminated
      BY <1>3, <3>1 DEF Enlists
    <3>3. stack[k].of \in isTerminated
      BY <3>2 DEF ShapeInv, Calls
    <3>4. QED  BY <1>3, <3>1, <3>2, <3>3
  <2>4. QED  BY <2>2, <2>3
<1>4. ASSUME NEW k \in DOMAIN stack', NEW i \in DOMAIN added', NEW j \in DOMAIN added',
             NEW p \in DOMAIN stack'[k].rest
      PROVE  (/\ Later(i, j) /\ added[i].of = stack[k].of
              /\ stack[k].rest[p] = Entry(added[i].what) /\ added[j].what \notin late)'
             => (\/ Over(added[j].what)
                 \/ \E q \in DOMAIN stack[k].rest : q < p /\ stack[k].rest[q] = Entry(added[j].what))'
  <2>1. (/\ Later(i, j) /\ added[i].of = stack[k].of
         /\ stack[k].rest[p] = Entry(added[i].what) /\ added[j].what \notin late)'
        => /\ i < j /\ added'[i].of = added'[j].of /\ added'[i].of = stack'[k].of
           /\ stack'[k].rest[p] = Entry(added'[i].what) /\ added'[j].what \notin late'
    BY DEF Later
  <2>2. (\/ added'[j].what \in isTerminated' \/ In(ran', added'[j].what)
         \/ \E q \in DOMAIN stack'[k].rest : q < p /\ stack'[k].rest[q] = Entry(added'[j].what))
        => (\/ Over(added[j].what)
            \/ \E q \in DOMAIN stack[k].rest : q < p /\ stack[k].rest[q] = Entry(added[j].what))'
    BY DEF Over, In
  <2>3. QED  BY <1>3, <2>1, <2>2
<1>5. QED  BY <1>4, Zenon DEF CallsReversed

\* What is over is not called again.
LEMMA OffStack ==
  ASSUME LifetimeAssumption, ShapeInv, [Next]_vars, NEW y, Over(y), ~OnStack(y)
  PROVE  Over(y)' /\ \A k \in DOMAIN stack' : stack'[k].of # y
<1>0. TypeOK
  BY DEF ShapeInv
<1>1. isTerminated \subseteq isTerminated' /\ (In(ran, y) => In(ran', y))
  BY ListSteps
<1>2. ASSUME NEW k \in DOMAIN stack' PROVE stack'[k].of # y
  <2>1. CASE k \in DOMAIN stack
    BY <2>1, StackSteps DEF OnStack
  <2>2. CASE k \notin DOMAIN stack
    <3>1. stack'[k].of \in created \ isTerminated
      BY <2>2, StackSteps
    <3>2. y \in isTerminated \/ y \in Actions
      BY <1>0 DEF Over, In, TypeOK
    <3>3. QED  BY <1>0, <3>1, <3>2 DEF LifetimeAssumption, TypeOK
  <2>3. QED  BY <2>1, <2>2
<1>3. Over(y)'
  BY <1>1 DEF Over, In
<1>4. QED  BY <1>2, <1>3

\* What ran was added before, to a lifetime that is terminated.
LEMMA RanAdded ==
  ASSUME LifetimeAssumption, ShapeInv, RanInv, [Next]_vars,
         NEW i \in DOMAIN added', NEW p \in DOMAIN ran, ran[p] = added'[i].what
  PROVE  i \in DOMAIN added /\ added'[i] = added[i] /\ added[i].of \in isTerminated
<1>1. ran[p] \in Actions
  BY DEF ShapeInv, TypeOK
<1>2. PICK n \in DOMAIN added : added[n].what = ran[p] /\ added[n].of \in isTerminated
  BY <1>1 DEF RanInv, In
<1>3. i \in DOMAIN added
  BY <1>2, AddedSteps DEF Enlists
<1>4. added'[i] = added[i]
  BY <1>3, AddedSteps
<1>5. i = n
  BY <1>2, <1>3, <1>4 DEF ShapeInv, AddedOnce
<1>6. QED  BY <1>2, <1>3, <1>4, <1>5

\* An entry later than one that ran, unless it is late.
LEMMA LaterAdded ==
  ASSUME LifetimeAssumption, ShapeInv, RanInv, [Next]_vars,
         NEW i \in DOMAIN added', NEW j \in DOMAIN added', i < j, added'[i].of = added'[j].of,
         added'[j].what \notin late', NEW p \in DOMAIN ran, ran[p] = added'[i].what
  PROVE  /\ i \in DOMAIN added /\ j \in DOMAIN added /\ Later(i, j)
         /\ added'[i] = added[i] /\ added'[j] = added[j]
<1>1. i \in DOMAIN added /\ added'[i] = added[i] /\ added[i].of \in isTerminated
  BY RanAdded
<1>2. j \in DOMAIN added
  BY <1>1, AddedSteps DEF Enlists
<1>3. QED  BY <1>1, <1>2, AddedSteps DEF Later

\* After a step, y is over for good, and what ran of it ran before position p.
DoneFor(p, y) ==
  /\ y \in isTerminated' \/ In(ran', y)
  /\ \A k \in DOMAIN stack' : stack'[k].of # y
  /\ \A q \in DOMAIN ran' : ran'[q] = y => q < p
  /\ \A q \in DOMAIN ran' : \A n \in DOMAIN added' :
       added'[n].of = y /\ added'[n].what = ran'[q] => q < p

LEMMA QuietDone ==
  ASSUME LifetimeAssumption, ShapeInv, RanInv, DoneBackwards, [Next]_vars, UNCHANGED ran,
         NEW i \in DOMAIN added', NEW j \in DOMAIN added', i < j, added'[i].of = added'[j].of,
         added'[j].what \notin late', NEW p \in DOMAIN ran, ran[p] = added'[i].what
  PROVE  DoneFor(p, added'[j].what)
<1>1. /\ i \in DOMAIN added /\ j \in DOMAIN added /\ Later(i, j)
      /\ added'[i] = added[i] /\ added'[j] = added[j]
  BY LaterAdded
<1>2. PICK y : y = added[j].what
  OBVIOUS
<1>3. y \notin late
  BY <1>1, <1>2, ListSteps
<1>4. /\ Over(y) /\ ~OnStack(y)
      /\ \A q \in DOMAIN ran : ran[q] = y => q < p
      /\ AfterAll(p, y)
  BY <1>1, <1>2, <1>3 DEF DoneBackwards
<1>5. Over(y)' /\ \A k \in DOMAIN stack' : stack'[k].of # y
  BY <1>4, OffStack
<1>6. ASSUME NEW q \in DOMAIN ran, NEW n \in DOMAIN added', added'[n].of = y, added'[n].what = ran[q]
      PROVE  q < p
  <2>1. n \in DOMAIN added /\ added'[n] = added[n]
    BY <1>6, RanAdded
  <2>2. QED  BY <1>4, <1>6, <2>1 DEF AfterAll
<1>7. QED  BY <1>1, <1>2, <1>4, <1>5, <1>6 DEF DoneFor, Over, In

\* An action runs when what was added later to its lifetime is over.
LEMMA RunDone ==
  ASSUME LifetimeAssumption, ShapeInv, RanInv, CallsReversed, DoneBackwards, [Next]_vars, RunAction,
         NEW i \in DOMAIN added', NEW j \in DOMAIN added', i < j, added'[i].of = added'[j].of,
         added'[j].what \notin late', NEW p \in DOMAIN ran', ran'[p] = added'[i].what
  PROVE  DoneFor(p, added'[j].what)
<1>0. TypeOK /\ created \subseteq Lifetimes
  BY DEF ShapeInv, TypeOK
<1>1. /\ stack # << >> /\ Top.rest # << >> /\ Item.what \in Actions /\ Item = Run(Item.what)
      /\ UNCHANGED <<created, isTerminated, added, late>>
  BY RunFacts
<1>2. PICK x \in Actions, last \in {Len(ran) + 1} : x = Item.what
  BY <1>1
<1>3. /\ DOMAIN ran' = DOMAIN ran \cup {last} /\ last \notin DOMAIN ran
      /\ (\A q \in DOMAIN ran : ran'[q] = ran[q] /\ q < last) /\ ran'[last] = x
  <2>1. DOMAIN ran = 1 .. Len(ran) /\ Len(ran) \in Nat
    BY RunFacts
  <2>2. QED  BY <1>2, <2>1, RunFacts
<1>4. PICK t : t = Top.of
  OBVIOUS
<1>5. /\ t \in created /\ Len(stack) \in DOMAIN stack /\ stack[Len(stack)].of = t
      /\ stack[Len(stack)].rest = Top.rest /\ OnStack(t)
      /\ 1 \in DOMAIN Top.rest /\ Top.rest[1] = Run(x)
  <2>1. Top \in Frames /\ Top = stack[Len(stack)] /\ Len(stack) \in DOMAIN stack /\ t \in created /\ Top.rest \in Seq(Items)
    BY <1>0, <1>1, <1>4, TopFacts
  <2>2. 1 \in DOMAIN Top.rest /\ Head(Top.rest) = Top.rest[1]
    BY <1>1, <2>1, TailFacts
  <2>3. QED  BY <1>1, <1>2, <1>4, <2>1, <2>2 DEF Item, OnStack
<1>6. \A n \in DOMAIN added : added[n].what = x => added[n].of = t
  <2>1. In(added, [of |-> t, what |-> x])
    BY <1>2, <1>4, RunFacts
  <2>2. ASSUME NEW n \in DOMAIN added, added[n].what = x PROVE added[n].of = t
    <3>1. In(added, [of |-> added[n].of, what |-> x])
      BY <1>0, <2>2, AddedAre DEF In
    <3>2. QED  BY <2>1, <3>1, AddedTo
  <2>3. QED  BY <2>2
<1>7. ~In(ran, x)
  BY <1>5 DEF RanInv, In
<1>8. i \in DOMAIN added /\ j \in DOMAIN added /\ Later(i, j) /\ added' = added /\ late' = late
  BY <1>1 DEF Later
<1>9. PICK y \in Actions \cup Lifetimes : y = added[j].what /\ y \notin late
  BY <1>0, <1>8, AddedAre
<1>10. CASE p \in DOMAIN ran
  <2>1. /\ Over(y) /\ ~OnStack(y)
        /\ \A q \in DOMAIN ran : ran[q] = y => q < p
        /\ AfterAll(p, y)
    BY <1>3, <1>8, <1>9, <1>10 DEF DoneBackwards
  <2>2. Over(y)' /\ \A k \in DOMAIN stack' : stack'[k].of # y
    BY <2>1, OffStack
  <2>3. x # y
    BY <1>0, <1>2, <1>7, <2>1 DEF Over, TypeOK, LifetimeAssumption
  <2>4. t # y
    BY <1>5, <2>1
  <2>5. \A n \in DOMAIN added : added[n].of = y => added[n].what # x
    BY <1>6, <2>4
  <2>6. QED  BY <1>3, <1>8, <1>9, <2>1, <2>2, <2>3, <2>5 DEF DoneFor, Over, In, AfterAll
<1>11. CASE p = last
  <2>1. added[i].what = x /\ added[i].of = t /\ added[j].of = t
    BY <1>3, <1>6, <1>8, <1>11 DEF Later
  <2>2. Over(y)
    <3>1. Entry(x) = Run(x)
      BY <1>2, EntryFacts
    <3>2. Over(y) \/ \E q \in DOMAIN Top.rest : q < 1 /\ Top.rest[q] = Entry(y)
      BY <1>5, <1>8, <1>9, <2>1, <3>1 DEF CallsReversed
    <3>3. DOMAIN Top.rest = 1 .. Len(Top.rest) /\ Len(Top.rest) \in Nat
      BY <1>0, <1>1, TopFacts
    <3>4. QED  BY <3>2, <3>3
  <2>3. ~OnStack(y)
    <3>1. CASE y \in Lifetimes
      <4>1. y # Root /\ Parent[y] = Top.of
        BY <1>4, <1>8, <1>9, <2>1, <3>1 DEF ShapeInv, AddedOnce
      <4>2. y \in created
        BY <1>0, <1>8, <1>9, <3>1, AddedAre DEF LifetimeAssumption
      <4>3. QED  BY <1>1, <4>1, <4>2, RankFacts
    <3>2. CASE y \notin Lifetimes
      <4>1. \A k \in DOMAIN stack : stack[k].of \in created
        BY <1>0, FramesAre DEF TypeOK, Frames
      <4>2. QED  BY <1>0, <3>2, <4>1 DEF OnStack
    <3>3. QED  BY <3>1, <3>2
  <2>4. Over(y)' /\ \A k \in DOMAIN stack' : stack'[k].of # y
    BY <2>2, <2>3, OffStack
  <2>5. x # y
    <3>1. i # j
      BY <1>8, AddedSteps
    <3>2. QED  BY <1>8, <1>9, <2>1, <3>1 DEF ShapeInv, AddedOnce
  <2>6. \A n \in DOMAIN added : added[n].of = y => added[n].what # x
    BY <1>5, <1>6, <2>3
  <2>7. QED  BY <1>3, <1>8, <1>9, <1>11, <2>4, <2>5, <2>6 DEF DoneFor, Over, In
<1>12. QED  BY <1>3, <1>10, <1>11

LEMMA NextDone ==
  ASSUME LifetimeAssumption, ShapeInv, RanInv, CallsReversed, DoneBackwards, [Next]_vars
  PROVE  DoneBackwards'
<1>1. ASSUME NEW i \in DOMAIN added', NEW j \in DOMAIN added', NEW p \in DOMAIN ran',
             i < j, added'[i].of = added'[j].of, ran'[p] = added'[i].what, added'[j].what \notin late'
      PROVE  DoneFor(p, added'[j].what)
  BY <1>1, QuietDone, RunDone, ListSteps
<1>2. ASSUME NEW i \in DOMAIN added', NEW j \in DOMAIN added', NEW p \in DOMAIN ran'
      PROVE  (Later(i, j) /\ ran[p] = added[i].what /\ added[j].what \notin late)'
             => (/\ Over(added[j].what) /\ ~OnStack(added[j].what)
                 /\ \A q \in DOMAIN ran : ran[q] = added[j].what => q < p
                 /\ AfterAll(p, added[j].what))'
  BY <1>1 DEF DoneFor, Later, Over, OnStack, AfterAll, In
<1>3. QED  BY <1>2, Zenon DEF DoneBackwards

-----------------------------------------------------------------------------
(***************************************************************************)
(* All of it together: the invariant of Lifetime.                          *)
(***************************************************************************)
LifeInv == ShapeInv /\ LinkInv /\ KeptInv /\ RanInv /\ OrderInv

LEMMA InitLife ==
  ASSUME LifetimeAssumption, Init
  PROVE  LifeInv
<1>1. LinkInv /\ KeptInv
  BY DEF Init, LinkInv, Links, KeptInv, Kept, In
<1>2. RanInv /\ OrderInv
  BY DEF Init, RanInv, RunsOnce, OrderInv, ListsInOrder, CallsReversed, DoneBackwards, In
<1>3. QED  BY <1>1, <1>2, InitShape DEF LifeInv

LEMMA NextLife ==
  ASSUME LifetimeAssumption, LifeInv, [Next]_vars
  PROVE  LifeInv'
BY NextShape, NextLinks, NextKept, NextRan, NextInOrder, NextReversed, NextDone DEF LifeInv, OrderInv

LEMMA BackwardsOf ==
  ASSUME OrderInv
  PROVE  LastAddedFirst
<1>1. ASSUME NEW i \in DOMAIN added, NEW j \in DOMAIN added, i < j, added[i].of = added[j].of,
             added[i].what \in Range(ran), added[j].what \notin late
      PROVE  /\ added[j].what \in isTerminated \cup Range(ran)
             /\ \A p, q \in DOMAIN ran : ran[p] = added[i].what =>
                  /\ ran[q] = added[j].what => q < p
                  /\ \A n \in DOMAIN added : added[n].of = added[j].what /\ ran[q] = added[n].what => q < p
  BY <1>1 DEF OrderInv, DoneBackwards, Later, AfterAll, Over, In, Range
<1>2. QED  BY <1>1 DEF LastAddedFirst

LEMMA LifeShows ==
  ASSUME LifeInv
  PROVE  TypeOK /\ SeveralNeedsFault /\ RunsOnce /\ LastAddedFirst /\ NothingLost
<1>1. TypeOK /\ SeveralNeedsFault /\ RunsOnce
  BY DEF LifeInv, ShapeInv, LinkInv, RanInv, SeveralNeedsFault
<1>2. NothingLost
  BY DEF LifeInv, KeptInv, Kept, NothingLost, Comes, Over, In, Range
<1>3. QED  BY <1>1, <1>2, BackwardsOf DEF LifeInv

(***************************************************************************)
(* The theorems.                                                           *)
(***************************************************************************)
\* Lifetimes and what they hold never leave their types.
THEOREM TypeCorrect ==
  ASSUME LifetimeAssumption
  PROVE  Spec => []TypeOK
BY InitLife, NextLife, LifeShows, PTL DEF Spec

\* Terminating a tree never meets a lifetime that is already terminated, unless
\* an action threw before: whoever begins, and in whatever order.
THEOREM TerminatedOnce ==
  ASSUME LifetimeAssumption
  PROVE  Spec => []SeveralNeedsFault
BY InitLife, NextLife, LifeShows, PTL DEF Spec

\* As long as no action throws, once termination is over, nothing that was
\* added in time has been left out.
THEOREM NothingIsLost ==
  ASSUME LifetimeAssumption
  PROVE  Spec => []NothingLost
BY InitLife, NextLife, LifeShows, PTL DEF Spec

\* No action is run twice, whatever throws.
THEOREM RunAtMostOnce ==
  ASSUME LifetimeAssumption
  PROVE  Spec => []RunsOnce
BY InitLife, NextLife, LifeShows, PTL DEF Spec

\* Termination undoes construction backwards: when an action was run, what was
\* added later to its lifetime, actions of nested lifetimes included, had been
\* run before it.
THEOREM Backwards ==
  ASSUME LifetimeAssumption
  PROVE  Spec => []LastAddedFirst
BY InitLife, NextLife, LifeShows, PTL DEF Spec
================================================================================
