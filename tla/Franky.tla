--------------------------------- MODULE Franky --------------------------------
(***************************************************************************)
(* The parts of franky that share no state with each other, the agent's    *)
(* first and the plug-in's after them.  A behaviour is one of the part     *)
(* that its first state chooses; the variables of the others keep the      *)
(* value None.                                                             *)
(***************************************************************************)
CONSTANTS
  None,
  Classes, MaxEntries,                                  \* VmEntry
  CompiledMethods, Addrs, Null, NoMethod, MaxLoads,     \* CompileInfo
  Lifetimes, RootLifetime, Parent, Actions,             \* Lifetime
  Samples, MaxSamples, Widths, MaxClicks,               \* FlameTree
  SourceMethods, NameOf, Jvms, MethodIds, MethodOf, Projects, NULL_PSI_METHOD,
  MaxFrames, MaxOpen                                    \* FrameLabels

VARIABLES
  part,
  pc, entry, entries, jvmti, ready, live, class, ids, todo, swept,              \* VmEntry
  compiles_info, method, allocated, own, inlined, callback, reader, loads,      \* CompileInfo
  created, isTerminated, actions, disposed, stack, adder, added, late, ran, faults, several,
                                                                                \* Lifetime
  samples, taken, cost, state, currentRoot, width, comp, clicks,                \* FlameTree
  openProjects, methodToPsiCache, frames, visited                               \* FrameLabels

vmVars    == <<pc, entry, entries, jvmti, ready, live, class, ids, todo, swept>>
infoVars  == <<compiles_info, method, allocated, own, inlined, callback, reader, loads>>
lifeVars  == <<created, isTerminated, actions, disposed, stack, adder, added, late, ran, faults, several>>
treeVars  == <<samples, taken, cost, state, currentRoot, width, comp, clicks>>
labelVars == <<openProjects, methodToPsiCache, frames, visited>>
vars      == <<part, vmVars, infoVars, lifeVars, treeVars, labelVars>>

VM == INSTANCE VmEntry

CI == INSTANCE CompileInfo WITH Methods <- CompiledMethods, live <- allocated

LT == INSTANCE Lifetime WITH Root <- RootLifetime

FT == INSTANCE FlameTree WITH todo <- samples

FL == INSTANCE FrameLabels WITH Methods <- SourceMethods, Ids <- MethodIds

ASSUME FrankyAssumption ==
  VM!VmEntryAssumption /\ CI!CompileInfoAssumption /\ LT!LifetimeAssumption
    /\ FT!FlameTreeAssumption /\ FL!FrameLabelsAssumption

-------------------------------------------------------------------------------
Unused(v) == v = None

Init ==
  /\ part \in {"VmEntry", "CompileInfo", "Lifetime", "FlameTree", "FrameLabels"}
  /\ IF part = "VmEntry" THEN VM!Init
     ELSE /\ Unused(pc) /\ Unused(entry) /\ Unused(entries) /\ Unused(jvmti) /\ Unused(ready)
          /\ Unused(live) /\ Unused(class) /\ Unused(ids) /\ Unused(todo) /\ Unused(swept)
  /\ IF part = "CompileInfo" THEN CI!Init
     ELSE /\ Unused(compiles_info) /\ Unused(method) /\ Unused(allocated) /\ Unused(own)
          /\ Unused(inlined) /\ Unused(callback) /\ Unused(reader) /\ Unused(loads)
  /\ IF part = "Lifetime" THEN LT!Init
     ELSE /\ Unused(created) /\ Unused(isTerminated) /\ Unused(actions) /\ Unused(disposed)
          /\ Unused(stack) /\ Unused(adder) /\ Unused(added) /\ Unused(late) /\ Unused(ran)
          /\ Unused(faults) /\ Unused(several)
  /\ IF part = "FlameTree" THEN FT!Init
     ELSE /\ Unused(samples) /\ Unused(taken) /\ Unused(cost) /\ Unused(state)
          /\ Unused(currentRoot) /\ Unused(width) /\ Unused(comp) /\ Unused(clicks)
  /\ IF part = "FrameLabels" THEN FL!Init
     ELSE Unused(openProjects) /\ Unused(methodToPsiCache) /\ Unused(frames) /\ Unused(visited)

Next ==
  \/ /\ part = "VmEntry" /\ VM!Next
     /\ UNCHANGED <<part, infoVars, lifeVars, treeVars, labelVars>>
  \/ /\ part = "CompileInfo" /\ CI!Next
     /\ UNCHANGED <<part, vmVars, lifeVars, treeVars, labelVars>>
  \/ /\ part = "Lifetime" /\ LT!Next
     /\ UNCHANGED <<part, vmVars, infoVars, treeVars, labelVars>>
  \/ /\ part = "FlameTree" /\ FT!Next
     /\ UNCHANGED <<part, vmVars, infoVars, lifeVars, labelVars>>
  \/ /\ part = "FrameLabels" /\ FL!Next
     /\ UNCHANGED <<part, vmVars, infoVars, lifeVars, treeVars>>

Spec == Init /\ [][Next]_vars

-------------------------------------------------------------------------------
(***************************************************************************)
(* The properties, each stated in its part's module; those that a part's   *)
(* deepest property rests on, its types among them, are checked with it.   *)
(***************************************************************************)
\* No class prepared while the agent sets itself up misses its method ids, and
\* the profiler never runs without a JVMTI environment.
MethodIdsKnown == part = "VmEntry" => VM!TypeOK /\ VM!ProfilingHasEnv /\ VM!MethodIdsKnown

\* CompiledMethodLoad never frees a record twice, and leaks only the records of
\* methods that were inlined.
NoDoubleFree == part = "CompileInfo" => CI!TypeOK /\ CI!LeakNeedsInlining /\ CI!NoDoubleFree

\* fillMethodInfo is wrong only about a record deleted under it.
ReportSound == part = "CompileInfo" => CI!ReportSound

\* "Lifetime terminated several times" needs an action that threw before.
SeveralNeedsFault == part = "Lifetime" => LT!TypeOK /\ LT!SeveralNeedsFault

\* Termination runs every action of a lifetime once, backwards, and leaves none
\* out unless an action threw.
TornDown == part = "Lifetime" => LT!RunsOnce /\ LT!LastAddedFirst /\ LT!NothingLost

\* The cost of a call path is what was sampled on it and beyond.
CostsAddUp == part = "FlameTree" => FT!CostsAddUp

\* Frames of one row do not overlap, and a frame lies over its caller, give or take
\* the pixel that truncation costs.
LaidOut == part = "FlameTree" => FT!NoOverlap /\ FT!Stacked

\* A wrong label needs a frame of another JVM with the same id, and a click
\* opens the frame's own method whatever its label says.
WrongLabelIsReused == part = "FrameLabels" => FL!ClickIsOwn /\ FL!WrongLabelIsReused
===============================================================================
