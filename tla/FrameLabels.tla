------------------------------ MODULE FrameLabels ------------------------------
(***************************************************************************)
(* Which source method a frame of the flame graph is labelled with, and    *)
(* which one a click on the label opens.  The IDE looks methods up in the  *)
(* open projects and keeps what it found for ever, by jMethodId: a number  *)
(* that every JVM gives to its own methods.                                *)
(***************************************************************************)
EXTENDS Naturals, Sequences, SequencesExt, FiniteSets, Functions, TLC

CONSTANTS
  Methods,     \* methods of the profiled programs
  NameOf,      \* holder and name of each, without its signature
  Jvms, Ids,
  MethodOf,    \* MethodOf[j][i]: the method that JVM j gives the id i
  Projects,    \* projects that can be open, as the set of methods they have
  NULL_PSI_METHOD,
  MaxFrames, MaxOpen   \* bounds: frames shown, projects open at a time

\* What the constants must satisfy.
FrameLabelsAssumption ==
  /\ DOMAIN NameOf = Methods /\ MethodOf \in [Jvms -> [Ids -> Methods]]
  /\ Projects \subseteq SUBSET Methods /\ NULL_PSI_METHOD \notin Methods
  /\ MaxFrames \in Nat /\ MaxOpen \in Nat

VARIABLES
  openProjects,      \* the open projects, in the order they are searched
  methodToPsiCache,  \* what was found for an id
  frames,            \* the frames made, in order, with their psiMethod
  visited            \* history: the methods that clicks opened

vars == <<openProjects, methodToPsiCache, frames, visited>>

Init == openProjects = <<>> /\ methodToPsiCache = <<>> /\ frames = <<>> /\ visited = {}

OpenProject(p) ==
  /\ Len(openProjects) < MaxOpen /\ openProjects' = Append(openProjects, p)
  /\ UNCHANGED <<methodToPsiCache, frames, visited>>

CloseProject(k) ==
  /\ openProjects' = RemoveAt(openProjects, k)
  /\ UNCHANGED <<methodToPsiCache, frames, visited>>

\* Mutant: the signature is not compared.
findPsiMethodByName(m) ==
  IF openProjects = <<>> THEN {}
  ELSE {n \in Head(openProjects) : NameOf[n] = NameOf[m]}

\* findPsiMethod returns from the first turn of its loop: the other projects are
\* not searched.
findPsiMethod(m) ==
  IF openProjects = <<>> THEN {}
  ELSE {n \in Head(openProjects) : NameOf[n] = NameOf[m] /\ n = m}

\* getOrPut: a method that is not found is kept as NULL_PSI_METHOD.
MakeFrame(j, i) ==
  LET found == findPsiMethod(MethodOf[j][i]) IN
  /\ Len(frames) < MaxFrames
  /\ \E psi \in IF i \in DOMAIN methodToPsiCache THEN {methodToPsiCache[i]}
                ELSE IF found = {} THEN {NULL_PSI_METHOD} ELSE found :
       /\ methodToPsiCache' = [x \in DOMAIN methodToPsiCache \cup {i} |->
                                 IF x = i THEN psi ELSE methodToPsiCache[x]]
       /\ frames' = Append(frames, [jvm |-> j, id |-> i, method |-> MethodOf[j][i], psi |-> psi,
                                    fresh |-> i \notin DOMAIN methodToPsiCache])
  /\ UNCHANGED <<openProjects, visited>>

\* Only a frame with a psiMethod is a link; a click looks the method up again.
click(k) ==
  /\ frames[k].psi # NULL_PSI_METHOD
  /\ \E m \in findPsiMethod(frames[k].method) :
       visited' = visited \cup {<<frames[k].method, m>>}
  /\ UNCHANGED <<openProjects, methodToPsiCache, frames>>

Next ==
  \/ \E p \in Projects : OpenProject(p)
  \/ \E k \in DOMAIN openProjects : CloseProject(k)
  \/ \E j \in Jvms, i \in Ids : MakeFrame(j, i)
  \/ \E k \in DOMAIN frames : click(k)

Spec == Init /\ [][Next]_vars

-------------------------------------------------------------------------------
(***************************************************************************)
(* Properties.                                                             *)
(***************************************************************************)

\* A frame has the label of another method only if the first frame with its id
\* came from another JVM, where the id was that method's; overloads and projects
\* opened or closed meanwhile mislabel nothing (methodToPsiCache).
WrongLabelIsReused ==
  \A k \in DOMAIN frames :
    LET f == frames[k] IN
    f.psi \notin {f.method, NULL_PSI_METHOD}
      => \E e \in 1..k - 1 : /\ frames[e].jvm # f.jvm /\ frames[e].id = f.id
                             /\ frames[e].method = f.psi /\ frames[e].fresh

\* A click opens the frame's own method, whatever its label says (click).
ClickIsOwn == \A v \in visited : v[1] = v[2]
===============================================================================
