------------------------------- MODULE Lifetime -------------------------------
(***************************************************************************)
(* Lifetimes (util/lifetimes.kt): a tree of owners whose termination runs  *)
(* the actions they collected, last added first; a nested lifetime is an   *)
(* action of its parent, and the first action of the nested one takes that *)
(* action away again.  terminate() is recursive: the calls in progress are *)
(* a stack, and an action that throws unwinds all of it.                   *)
(*                                                                         *)
(* The calls come from the UI thread, except an add from another thread    *)
(* (jvmTab.kt: lifetime += { session.close() }), whose test of             *)
(* isTerminated and whose insertion are two steps.                         *)
(***************************************************************************)
EXTENDS Naturals, Sequences, SequencesExt, Functions

CONSTANTS
  Lifetimes,    \* the lifetimes that may be created
  Root,         \* FrankyComponent.rootLifetime
  Parent,       \* Parent[l]: the lifetime that l is created from
  Actions,      \* what the plug-in adds to lifetimes
  None

\* What the constants must satisfy.
LifetimeAssumption ==
  /\ Root \in Lifetimes
  /\ Parent \in [Lifetimes \ {Root} -> Lifetimes]
  /\ None \notin Lifetimes
  /\ Actions \cap Lifetimes = {}

VARIABLES
  created,       \* the lifetimes that exist
  isTerminated,  \* those with the flag set
  actions,       \* actions[l]: the list of l
  disposed,      \* lifetimes whose disposable (toDisposable) was disposed
  stack,         \* terminate() calls in progress, innermost last
  adder,         \* an add on another thread, past its test
  added,         \* history: what was added to which lifetime, in order
  late,          \* history: actions another thread inserted into a terminated lifetime
  ran,           \* history: the actions run, in order
  faults,        \* history: an action threw
  several        \* history: "Lifetime terminated several times" was thrown

vars == <<created, isTerminated, actions, disposed, stack, adder, added, late, ran, faults, several>>

\* What a list holds: an action of the plug-in, the termination of a nested
\* lifetime, the removal of the lifetime from its parent's list, or the
\* disposal of the lifetime's disposable.
Items == [do : {"run"}, what : Actions] \cup [do : {"terminate", "unlink", "dispose"}, what : Lifetimes]

TypeOK ==
  /\ created \in SUBSET Lifetimes /\ isTerminated \in SUBSET created /\ disposed \in SUBSET created
  /\ actions \in [Lifetimes -> Seq(Items)]
  /\ stack \in Seq([of : created, rest : Seq(Items)])
  /\ adder \in {None} \cup [of : created, what : Actions]
  /\ added \in Seq([of : created, what : Actions \cup created]) /\ late \in SUBSET Actions
  /\ ran \in Seq(Actions)
  /\ faults \in BOOLEAN /\ several \in BOOLEAN

Init ==
  /\ created = {Root} /\ isTerminated = {} /\ disposed = {}
  /\ actions = [l \in Lifetimes |-> << >>]
  /\ stack = << >> /\ adder = None
  /\ added = << >> /\ late = {} /\ ran = << >>
  /\ faults = FALSE /\ several = FALSE

Terminate(l) == [do |-> "terminate", what |-> l]
Unlink(l) == [do |-> "unlink", what |-> l]
Run(x) == [do |-> "run", what |-> x]

\* The action is new, and no thread is about to add it.
Fresh(x) == (adder # None => adder.what # x) /\ \A i \in DOMAIN added : added[i].what # x

-------------------------------------------------------------------------------
\* Mutant: the nested lifetime does not take itself out of its parent.
addNestedOneWay(l) ==
  /\ stack = << >> /\ l \in Lifetimes \ created
  /\ Parent[l] \in created \ isTerminated
  /\ created' = created \cup {l}
  /\ actions' = [actions EXCEPT ![Parent[l]] = Append(@, Terminate(l))]
  /\ added' = Append(added, [of |-> Parent[l], what |-> l])
  /\ UNCHANGED <<isTerminated, disposed, stack, adder, late, ran, faults, several>>

\* create(parent) and addNested.  From a terminated parent it throws, and the
\* new lifetime is used by nobody.
addNested(l) ==
  /\ stack = << >> /\ l \in Lifetimes \ created
  /\ Parent[l] \in created \ isTerminated
  /\ created' = created \cup {l}
  /\ actions' = [actions EXCEPT ![Parent[l]] = Append(@, Terminate(l)),
                                ![l] = <<Unlink(l)>>]
  /\ added' = Append(added, [of |-> Parent[l], what |-> l])
  /\ UNCHANGED <<isTerminated, disposed, stack, adder, late, ran, faults, several>>

\* add on the UI thread.
add(l, x) ==
  /\ stack = << >> /\ l \in created \ isTerminated /\ Fresh(x)
  /\ added' = Append(added, [of |-> l, what |-> x])
  /\ actions' = [actions EXCEPT ![l] = Append(@, Run(x))]
  /\ UNCHANGED <<created, isTerminated, disposed, stack, adder, late, ran, faults, several>>

\* add on another thread: the test, ...
AddTests(l, x) ==
  /\ adder = None /\ l \in created \ isTerminated /\ Fresh(x)
  /\ adder' = [of |-> l, what |-> x]
  /\ UNCHANGED <<created, isTerminated, actions, disposed, stack, added, late, ran, faults, several>>

\* ... and the insertion.
AddInserts ==
  /\ adder # None
  /\ added' = Append(added, adder)
  /\ actions' = [actions EXCEPT ![adder.of] = Append(@, Run(adder.what))]
  /\ late' = IF adder.of \in isTerminated THEN late \cup {adder.what} ELSE late
  /\ adder' = None
  /\ UNCHANGED <<created, isTerminated, disposed, stack, ran, faults, several>>

\* toDisposable
toDisposable(l) ==
  /\ stack = << >> /\ l \in created \ isTerminated
  /\ \A i \in DOMAIN actions[l] : actions[l][i].do # "dispose"
  /\ actions' = [actions EXCEPT ![l] = Append(@, [do |-> "dispose", what |-> l])]
  /\ UNCHANGED <<created, isTerminated, disposed, stack, adder, added, late, ran, faults, several>>

-------------------------------------------------------------------------------
\* The start of terminate(): a second call throws through all callers; the
\* first sets the flag and takes a reversed copy of the list.
Enter(l, below) ==
  IF l \in isTerminated
    THEN /\ several' = TRUE /\ stack' = << >> /\ UNCHANGED isTerminated
    ELSE /\ isTerminated' = isTerminated \cup {l}
         /\ stack' = Append(below, [of |-> l, rest |-> Reverse(actions[l])])
         /\ UNCHANGED several

\* terminate() by the owner, who does not call it twice (a tab's close button,
\* disposeComponent, the view of a result that is replaced).
terminate(l) ==
  /\ stack = << >> /\ l \in created \ isTerminated
  /\ Enter(l, << >>)
  /\ UNCHANGED <<created, actions, disposed, adder, added, late, ran, faults>>

\* Disposer.dispose(disposable), by the platform.
dispose(l) ==
  /\ stack = << >> /\ l \notin disposed
  /\ \E i \in DOMAIN actions[l] : actions[l][i].do = "dispose"
  /\ disposed' = disposed \cup {l}
  /\ IF l \in isTerminated THEN UNCHANGED <<isTerminated, stack, several>> ELSE Enter(l, << >>)
  /\ UNCHANGED <<created, actions, adder, added, late, ran, faults>>

Top == Last(stack)
Item == Head(Top.rest)
Popped == Append(Front(stack), [Top EXCEPT !.rest = Tail(@)])
InAction(do) == stack # << >> /\ Top.rest # << >> /\ Item.do = do

\* An action of the plug-in returns, or throws.
RunAction ==
  /\ InAction("run")
  /\ ran' = Append(ran, Item.what)
  /\ \/ stack' = Popped /\ UNCHANGED faults
     \/ stack' = << >> /\ faults' = TRUE
  /\ UNCHANGED <<created, isTerminated, actions, disposed, adder, added, late, several>>

TerminateNested ==
  /\ InAction("terminate")
  /\ Enter(Item.what, Popped)
  /\ UNCHANGED <<created, actions, disposed, adder, added, late, ran, faults>>

\* Mutant: the parent's list is cleared.
UnlinkAll ==
  /\ InAction("unlink")
  /\ actions' = [actions EXCEPT ![Parent[Item.what]] = << >>]
  /\ stack' = Popped
  /\ UNCHANGED <<created, isTerminated, disposed, adder, added, late, ran, faults, several>>

\* actions.remove(action): nothing to do if the parent has cleared its list.
UnlinkNested ==
  /\ InAction("unlink")
  /\ actions' = [actions EXCEPT ![Parent[Item.what]] = RemoveFirst(@, Terminate(Item.what))]
  /\ stack' = Popped
  /\ UNCHANGED <<created, isTerminated, disposed, adder, added, late, ran, faults, several>>

\* Disposer.dispose from terminate(): its handler finds the flag set.
DisposeOwn ==
  /\ InAction("dispose")
  /\ disposed' = disposed \cup {Item.what}
  /\ stack' = Popped
  /\ UNCHANGED <<created, isTerminated, actions, adder, added, late, ran, faults, several>>

\* actions.clear(), and the return to the caller.
terminateReturns ==
  /\ stack # << >> /\ Top.rest = << >>
  /\ actions' = [actions EXCEPT ![Top.of] = << >>]
  /\ stack' = Front(stack)
  /\ UNCHANGED <<created, isTerminated, disposed, adder, added, late, ran, faults, several>>

Next ==
  \/ \E l \in Lifetimes :
       \/ addNested(l) \/ toDisposable(l) \/ terminate(l) \/ dispose(l)
       \/ \E x \in Actions : add(l, x) \/ AddTests(l, x)
  \/ AddInserts
  \/ RunAction \/ TerminateNested \/ UnlinkNested \/ DisposeOwn \/ terminateReturns

Spec == Init /\ [][Next]_vars

-------------------------------------------------------------------------------
\* Terminating a tree never meets a lifetime that is already terminated,
\* whoever terminated it and in whatever order, unless an action threw before
\* (then the link to the half-terminated lifetime is still there).
SeveralNeedsFault == several => faults

\* No action is run twice, throwing or not.
RunsOnce == \A i, j \in DOMAIN ran : ran[i] = ran[j] => i = j

\* Once termination is over, nothing that was added in time has been left out:
\* the nested lifetimes are terminated and every action of a terminated one was
\* run.  An action that throws, or one inserted by another thread after the
\* copy was taken, are the only ways to lose one.
NothingLost ==
  (stack = << >> /\ ~faults) =>
    \A i \in DOMAIN added :
      added[i].of \in isTerminated =>
        \/ added[i].what \in isTerminated \cup Range(ran)
        \/ added[i].what \in late

\* Termination undoes construction backwards: when an action was run, all that
\* was added to its lifetime after it had been run before, the actions of
\* nested lifetimes included ("21HelloWorld" in LifetimeTest).
LastAddedFirst ==
  \A i, j \in DOMAIN added :
    (i < j /\ added[i].of = added[j].of /\ added[i].what \in Range(ran) /\ added[j].what \notin late) =>
      LET later == {added[j].what} \cup {added[k].what : k \in {n \in DOMAIN added : added[n].of = added[j].what}}
      IN  /\ added[j].what \in isTerminated \cup Range(ran)
          /\ \A p, q \in DOMAIN ran : (ran[p] = added[i].what /\ ran[q] \in later) => q < p
===============================================================================
