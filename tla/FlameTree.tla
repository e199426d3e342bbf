------------------------------- MODULE FlameTree -------------------------------
(***************************************************************************)
(* The flame graph of one result: FlameTree merges the samples into a tree *)
(* of call paths, FlameComponent lays the tree out, and a click on a frame *)
(* zooms into it.                                                          *)
(*                                                                         *)
(* A node is its path of method ids from the outermost frame on.  Widths   *)
(* are exact fractions in place of doubles; pixels are truncated as in the *)
(* code.                                                                   *)
(***************************************************************************)
EXTENDS Integers, Sequences, SequencesExt, FiniteSets, FiniteSetsExt

CONSTANTS
  Samples,     \* samples a result may have: the frames, top first, and the count
  MaxSamples,  \* bound: samples of a result
  Widths,      \* widths of the component in pixels
  MaxClicks    \* bound: clicks and resizes

\* Method ids are numbers, and their order stands for the HashMap's.
\* What the constants must satisfy.
FlameTreeAssumption ==
  /\ Samples \subseteq [frames : Seq(Nat \ {0}), callCount : Nat \ {0}]
  /\ MaxSamples \in Nat /\ Widths \subseteq Nat \ {0} /\ MaxClicks \in Nat

VARIABLES
  todo,         \* samples not yet added
  taken,        \* history: samples added
  cost,         \* cost of each node
  state,        \* "building", "failed" or "shown"
  currentRoot,  \* the node zoomed into
  width,        \* getWidth()
  comp,         \* nodeToComp: position, size and collapsed of each component
  clicks

vars == <<todo, taken, cost, state, currentRoot, width, comp, clicks>>

Root == <<>>
FrameHeight == 20
Children(n) == {m \in DOMAIN cost : Len(m) = Len(n) + 1 /\ IsPrefix(n, m)}

Init ==
  /\ todo \in UNION {[1..n -> Samples] : n \in 0..MaxSamples}
  /\ taken = <<>> /\ cost = [n \in {Root} |-> 0] /\ state = "building"
  /\ currentRoot = Root /\ width \in Widths /\ comp = <<>> /\ clicks = 0

\* The nodes on a sample's path, the root included.
Path(sample) ==
  LET frames == Reverse(sample.frames) IN {SubSeq(frames, 1, k) : k \in 0..Len(frames)}

\* Mutant: the frames are added top first.
addSampleToTreeTopDown(sample) ==
  LET path == {SubSeq(sample.frames, 1, k) : k \in 0..Len(sample.frames)} IN
  cost' = [n \in DOMAIN cost \cup path |->
             (IF n \in DOMAIN cost THEN cost[n] ELSE 0) + (IF n \in path THEN sample.callCount ELSE 0)]

\* addSampleToTree: every node on the path is created if need be, and costs
\* callCount more.
addSampleToTree(sample) ==
  cost' = [n \in DOMAIN cost \cup Path(sample) |->
             (IF n \in DOMAIN cost THEN cost[n] ELSE 0)
               + (IF n \in Path(sample) THEN sample.callCount ELSE 0)]

\* The constructor takes one sample; validate throws on one without frames, and
\* the tree is lost.
AddSample ==
  /\ state = "building" /\ todo # <<>>
  /\ todo' = Tail(todo)
  /\ IF Head(todo).frames = <<>>
     THEN state' = "failed" /\ UNCHANGED <<taken, cost>>
     ELSE addSampleToTree(Head(todo)) /\ taken' = Append(taken, Head(todo)) /\ UNCHANGED state
  /\ UNCHANGED <<currentRoot, width, comp, clicks>>

-------------------------------------------------------------------------------
(***************************************************************************)
(* Layout.  Positions are counted in costs of the node that is zoomed      *)
(* into: begin / cost[root] is the code's begin.                           *)
(***************************************************************************)
Below(root) == {n \in DOMAIN cost : IsPrefix(root, n)}
Above(root) == {n \in DOMAIN cost : IsStrictPrefix(n, root)}

\* The costs of the elder siblings of n and of its ancestors below root.
Elders(root, n) ==
  UNION {{m \in Children(SubSeq(n, 1, k - 1)) : m[k] < n[k]} : k \in Len(root) + 1..Len(n)}
Begin(root, n) == MapThenSumSet(LAMBDA m : cost[m], Elders(root, n))

Pixels(part, whole, w) == (part * w) \div whole

\* recalculateComponentCoords.
Coords(begin, part, whole, level, isCollapsed, w) ==
  [x |-> Pixels(begin, whole, w), w |-> Pixels(part, whole, w), y |-> level * FrameHeight,
   h |-> FrameHeight, collapsed |-> isCollapsed]

\* recalcPositions: calcTop gives the ancestors the whole width, collapsed;
\* build goes on with the nodes from root on.
Positions(root, w) ==
  LET whole == Max({1, cost[root]}) IN
  [n \in Below(root) \cup Above(root) |->
     IF n \in Above(root) \cup {root} THEN Coords(0, 1, 1, Len(n), n # root, w)
     ELSE Coords(Begin(root, n), cost[n], whole, Len(n), FALSE, w)]

Empty(c) == [x |-> 0, w |-> 0, y |-> 0, h |-> 0, collapsed |-> c.collapsed]

\* The components of a are laid out anew, the others are those of b.
Over(a, b) == [n \in DOMAIN a \cup DOMAIN b |-> IF n \in DOMAIN a THEN a[n] ELSE b[n]]

\* FlameComponent's init.
Show ==
  /\ state = "building" /\ todo = <<>>
  /\ state' = "shown" /\ comp' = Positions(Root, width)
  /\ UNCHANGED <<todo, taken, cost, currentRoot, width, clicks>>

Clicks == state = "shown" /\ clicks < MaxClicks /\ clicks' = clicks + 1

\* Mutant: the components that leave the picture keep their places.
resetNodeKeeps(node) ==
  /\ Clicks /\ node \in DOMAIN comp /\ comp[node].w > 0
  /\ currentRoot' = node
  /\ comp' = Over(Positions(node, width), comp)
  /\ UNCHANGED <<todo, taken, cost, state, width>>

\* A click on a frame that has a size: all components are made empty, then laid
\* out again.
resetNode(node) ==
  /\ Clicks /\ node \in DOMAIN comp /\ comp[node].w > 0
  /\ currentRoot' = node
  /\ comp' = Over(Positions(node, width), [n \in DOMAIN comp |-> Empty(comp[n])])
  /\ UNCHANGED <<todo, taken, cost, state, width>>

\* paintComponent, after the width has changed.
Resize(w) ==
  /\ Clicks
  /\ width' = w /\ comp' = Over(Positions(currentRoot, w), comp)
  /\ UNCHANGED <<todo, taken, cost, state, currentRoot>>

Next ==
  \/ AddSample \/ Show
  \/ \E n \in DOMAIN cost : resetNode(n)
  \/ \E w \in Widths : Resize(w)

Spec == Init /\ [][Next]_vars

-------------------------------------------------------------------------------
(***************************************************************************)
(* Properties.                                                             *)
(***************************************************************************)

\* The cost of a call path is the number of calls sampled on it or on a path
\* that goes on from it, whatever the order of samples, repeated traces and
\* recursive methods (addSampleToTree).
CostsAddUp ==
  \A n \in DOMAIN cost :
    cost[n] = FoldLeft(LAMBDA sum, s : sum + IF IsPrefix(n, Reverse(s.frames)) THEN s.callCount ELSE 0,
                       0, taken)

Sized == {n \in DOMAIN comp : comp[n].w > 0 /\ comp[n].h > 0}

\* Frames of one row do not overlap, after any clicks and resizes: what left the
\* picture is gone (resetNode).
NoOverlap ==
  \A m, n \in Sized :
    m # n /\ comp[m].y = comp[n].y
      => comp[m].x + comp[m].w <= comp[n].x \/ comp[n].x + comp[n].w <= comp[m].x

\* A frame lies over the frame that called it, in the next row.  Its position and
\* its width are truncated each by itself (ComponentCoord), and so it begins on
\* the frame that called it and sticks out by at most one pixel.
Stacked ==
  \A n \in Sized \ {Root} :
    LET caller == comp[Front(n)] IN
    /\ comp[n].y = caller.y + FrameHeight /\ caller.x <= comp[n].x
    /\ comp[n].x + comp[n].w <= caller.x + caller.w + 1
===============================================================================
