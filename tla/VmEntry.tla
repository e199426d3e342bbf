-------------------------------- MODULE VmEntry -------------------------------
(***************************************************************************)
(* The agent's entry points and its JVMTI set-up (vmEntry.cpp, vmEntry.h). *)
(*                                                                         *)
(* Agent_OnLoad runs VM::init before the VM is live; Agent_OnAttach and    *)
(* JNI_OnLoad run VM::attach, which is VM::init followed by                *)
(* loadAllMethodIDs, whatever init returned.  AsyncGetCallTrace only knows *)
(* a method whose jmethodID was allocated, which is what loadMethodIDs     *)
(* (GetClassMethods) is called for: by the sweep over the loaded classes,  *)
(* and by the ClassPrepare event of a class prepared later.  The target's  *)
(* threads load and prepare classes while the agent sets itself up.        *)
(*                                                                         *)
(* The JVM's side (GetEnv, AddCapabilities, SetEventCallbacks,             *)
(* GetLoadedClasses, the posting of events) is modelled from how the agent *)
(* uses it; each call may fail.                                            *)
(***************************************************************************)
EXTENDS Naturals, FiniteSets

CONSTANTS
  Classes,      \* the classes of the target
  MaxEntries    \* bound: how often an entry point of the agent is called

\* What the constants must satisfy.
VmEntryAssumption == IsFiniteSet(Classes) /\ MaxEntries \in Nat

VARIABLES
  pc,         \* what the agent's thread does
  entry,      \* the entry point that is running
  entries,    \* how many were called
  jvmti,      \* VM::_jvmti: 0 for NULL, else the number of the environment
  ready,      \* the environments with callbacks and enabled events
  live,       \* the VM is past VMInit
  class,      \* class[c]: "none", "loaded", "prepared" (event due), "posted"
  ids,        \* the classes whose jmethodIDs were allocated
  todo,       \* the rest of the array GetLoadedClasses returned
  swept       \* the last loadAllMethodIDs got its array of classes

vars == <<pc, entry, entries, jvmti, ready, live, class, ids, todo, swept>>

Prepared == {c \in Classes : class[c] \in {"prepared", "posted"}}

TypeOK ==
  /\ pc \in {"idle", "GetEnv", "capabilities", "callbacks", "events", "GetLoadedClasses",
             "sweep", "profiling", "rejected", "crashed"}
  /\ entry \in {"none", "OnLoad", "OnAttach", "JNI_OnLoad", "VMInit"}
  /\ entries \in 0 .. MaxEntries
  /\ jvmti \in 0 .. entries
  /\ ready \in SUBSET (1 .. entries)
  /\ live \in BOOLEAN /\ swept \in BOOLEAN
  /\ class \in [Classes -> {"none", "loaded", "prepared", "posted"}]
  /\ ids \in SUBSET Classes /\ todo \in SUBSET Classes

Init ==
  /\ pc = "idle" /\ entry = "none" /\ entries = 0
  /\ jvmti = 0 /\ ready = {}
  /\ live = FALSE
  /\ class = [c \in Classes |-> "none"]
  /\ ids = {} /\ todo = {} /\ swept = FALSE

-------------------------------------------------------------------------------
(***************************************************************************)
(* The entry points.                                                       *)
(***************************************************************************)
Enter(e) ==
  /\ pc = "idle" /\ entries < MaxEntries
  /\ pc' = "GetEnv" /\ entry' = e /\ entries' = entries + 1
  /\ UNCHANGED <<jvmti, ready, live, class, ids, todo, swept>>

\* -agentpath: before the VM is live, and once.
Agent_OnLoad == ~live /\ entries = 0 /\ Enter("OnLoad")

Agent_OnAttach == live /\ Enter("OnAttach")

JNI_OnLoad == live /\ Enter("JNI_OnLoad")

(***************************************************************************)
(* VM::init, a step per JVMTI call.  Agent_OnLoad returns init's result,   *)
(* and the VM exits if that is not 0; attach drops it and goes on.         *)
(***************************************************************************)
AfterInit(ok) ==
  pc' = IF entry # "OnLoad" THEN "GetLoadedClasses" ELSE IF ok THEN "idle" ELSE "rejected"

\* Every successful GetEnv makes a new JVMTI environment; a failed one leaves
\* _jvmti as it was, or NULL.
GetEnv ==
  /\ pc = "GetEnv"
  /\ \/ jvmti' = entries /\ pc' = "capabilities"
     \/ jvmti' \in {0, jvmti} /\ AfterInit(FALSE)
  /\ UNCHANGED <<entry, entries, ready, live, class, ids, todo, swept>>

set_capabilities ==
  /\ pc = "capabilities"
  /\ pc' = "callbacks" \/ AfterInit(FALSE)
  /\ UNCHANGED <<entry, entries, jvmti, ready, live, class, ids, todo, swept>>

register_all_callback_functions ==
  /\ pc = "callbacks"
  /\ pc' = "events" \/ AfterInit(FALSE)
  /\ UNCHANGED <<entry, entries, jvmti, ready, live, class, ids, todo, swept>>

\* The results of SetEventNotificationMode are not looked at.
EnableEvents ==
  /\ pc = "events"
  /\ ready' = ready \cup {jvmti}
  /\ AfterInit(TRUE)
  /\ UNCHANGED <<entry, entries, jvmti, live, class, ids, todo, swept>>

(***************************************************************************)
(* loadAllMethodIDs: the array of loaded classes, then GetClassMethods for *)
(* each.  The calls go through _jvmti without a test for NULL.             *)
(***************************************************************************)
AfterSweep == pc' = IF entry = "OnAttach" THEN "profiling" ELSE "idle"

GetLoadedClasses ==
  /\ pc = "GetLoadedClasses"
  /\ \/ jvmti = 0 /\ pc' = "crashed" /\ UNCHANGED <<todo, swept>>
     \/ jvmti # 0 /\ pc' = "sweep" /\ swept' = TRUE
        /\ todo' = {c \in Classes : class[c] # "none"}
     \/ jvmti # 0 /\ AfterSweep /\ swept' = FALSE /\ UNCHANGED todo
  /\ UNCHANGED <<entry, entries, jvmti, ready, live, class, ids>>

\* GetClassMethods fails for a class that is not prepared yet.
loadMethodIDs(c) ==
  /\ pc = "sweep" /\ c \in todo
  /\ todo' = todo \ {c}
  /\ ids' = ids \cup ({c} \cap Prepared)
  /\ UNCHANGED <<pc, entry, entries, jvmti, ready, live, class, swept>>

loadAllMethodIDsReturns ==
  /\ pc = "sweep" /\ todo = {} /\ AfterSweep
  /\ UNCHANGED <<entry, entries, jvmti, ready, live, class, ids, todo, swept>>

\* Profiler::init returns (Detach or an error): Agent_OnAttach returns.
ProfilerReturns ==
  /\ pc = "profiling" /\ pc' = "idle"
  /\ UNCHANGED <<entry, entries, jvmti, ready, live, class, ids, todo, swept>>

(***************************************************************************)
(* The target VM.                                                          *)
(***************************************************************************)
\* VMInit: an environment with enabled events gets the callback, which sweeps.
VMInit ==
  /\ ~live /\ pc = "idle"
  /\ live' = TRUE
  /\ IF ready # {} THEN pc' = "GetLoadedClasses" /\ entry' = "VMInit" ELSE UNCHANGED <<pc, entry>>
  /\ UNCHANGED <<entries, jvmti, ready, class, ids, todo, swept>>

MoveClass(c, from, to) ==
  /\ pc \notin {"rejected", "crashed"}
  /\ class[c] = from
  /\ class' = [class EXCEPT ![c] = to]
  /\ UNCHANGED <<pc, entry, entries, jvmti, ready, live, todo, swept>>

LoadClass(c) == MoveClass(c, "none", "loaded") /\ UNCHANGED ids

PrepareClass(c) == MoveClass(c, "loaded", "prepared") /\ UNCHANGED ids

\* Mutant: the callback leaves the class to a sweep that is running.
ClassPrepareSkips(c) ==
  /\ MoveClass(c, "prepared", "posted")
  /\ ids' = IF live /\ ready # {} /\ pc # "sweep" THEN ids \cup {c} ELSE ids

\* The event is posted after the class is prepared, to the environments that
\* have it enabled by then; its callback calls loadMethodIDs.
ClassPrepare(c) ==
  /\ MoveClass(c, "prepared", "posted")
  /\ ids' = IF live /\ ready # {} THEN ids \cup {c} ELSE ids

Next ==
  \/ Agent_OnLoad \/ Agent_OnAttach \/ JNI_OnLoad
  \/ GetEnv \/ set_capabilities \/ register_all_callback_functions \/ EnableEvents
  \/ GetLoadedClasses \/ loadAllMethodIDsReturns \/ ProfilerReturns \/ VMInit
  \/ \E c \in Classes : loadMethodIDs(c) \/ LoadClass(c) \/ PrepareClass(c) \/ ClassPrepare(c)

Spec == Init /\ [][Next]_vars

-------------------------------------------------------------------------------
(***************************************************************************)
(* No class falls between the sweep and the events: once an environment    *)
(* gets events and the sweep of the running VM is over, every class whose  *)
(* ClassPrepare was posted has its jmethodIDs.  It rests on init enabling  *)
(* the events before attach sweeps.                                        *)
(***************************************************************************)
MethodIdsKnown ==
  (live /\ ready # {} /\ swept /\ pc \in {"idle", "profiling"})
     => \A c \in Classes : class[c] = "posted" => c \in ids

(***************************************************************************)
(* The profiler, which names methods through VM::jvmti() when it writes a  *)
(* result, never runs without an environment, although attach ignores that *)
(* init failed to get one.                                                 *)
(***************************************************************************)
ProfilingHasEnv == pc = "profiling" => jvmti # 0
===============================================================================
