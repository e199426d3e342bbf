------------------------------ MODULE FrankyProofs -----------------------------
(***************************************************************************)
(* Proofs about Franky.tla, for every value of the constants that          *)
(* FrankyAssumption admits: the agent's set-up, the records of compiled    *)
(* methods, the labels of frames, the flame tree and its layout, and with  *)
(* LifetimeProofs the lifetimes.  A part's invariant is proved from its    *)
(* own Init and Next; at the end, those of the parts are put together.     *)
(***************************************************************************)
EXTENDS Franky, FoldProofs, Integers, Sequences, FiniteSets, FiniteSetTheorems, TLAPS

InitSteps == {"capabilities", "callbacks", "events"}

(***************************************************************************)
(* Type correctness.  An environment is numbered by the entry that made    *)
(* it, so _jvmti is not NULL from the successful GetEnv to the end of      *)
(* VM::init, and loadAllMethodIDs goes on to the sweep, and from there to  *)
(* the profiler, only with one.                                            *)
(***************************************************************************)
VmTypeInv ==
  /\ VM!TypeOK
  /\ pc = "GetEnv" => entries > 0
  /\ pc \in InitSteps \cup {"sweep", "profiling"} => jvmti # 0

LEMMA NextVmTypeInv ==
  ASSUME VM!VmEntryAssumption, VmTypeInv, [VM!Next]_(VM!vars)
  PROVE  VmTypeInv'
<1> USE DEF VmTypeInv, VM!TypeOK, InitSteps, VM!VmEntryAssumption
<1>1. CASE VM!Agent_OnLoad \/ VM!Agent_OnAttach \/ VM!JNI_OnLoad
  <2>1. PICK e \in {"OnLoad", "OnAttach", "JNI_OnLoad"} : VM!Enter(e)
    BY <1>1 DEF VM!Agent_OnLoad, VM!Agent_OnAttach, VM!JNI_OnLoad
  <2>2. /\ entries' \in 0 .. MaxEntries /\ entries' > 0
        /\ jvmti' \in 0 .. entries' /\ ready' \in SUBSET (1 .. entries')
    BY <2>1 DEF VM!Enter
  <2>3. QED  BY <2>1, <2>2 DEF VM!Enter
<1>2. CASE VM!GetEnv \/ VM!set_capabilities \/ VM!register_all_callback_functions \/ VM!EnableEvents
  <2>1. CASE VM!GetEnv
    BY <2>1 DEF VM!GetEnv, VM!AfterInit
  <2>2. CASE VM!set_capabilities \/ VM!register_all_callback_functions
    BY <2>2 DEF VM!set_capabilities, VM!register_all_callback_functions, VM!AfterInit
  <2>3. CASE VM!EnableEvents
    BY <2>3 DEF VM!EnableEvents, VM!AfterInit
  <2>4. QED  BY <1>2, <2>1, <2>2, <2>3
<1>3. CASE VM!GetLoadedClasses \/ VM!loadAllMethodIDsReturns \/ VM!ProfilerReturns \/ VM!VMInit
  BY <1>3 DEF VM!GetLoadedClasses, VM!loadAllMethodIDsReturns, VM!ProfilerReturns, VM!VMInit, VM!AfterSweep
<1>4. CASE \E c \in Classes : VM!loadMethodIDs(c)
  BY <1>4 DEF VM!loadMethodIDs
<1>5. CASE \E c \in Classes : VM!LoadClass(c) \/ VM!PrepareClass(c) \/ VM!ClassPrepare(c)
  <2>1. PICK c \in Classes, from \in {"none", "loaded", "prepared"},
             to \in {"loaded", "prepared", "posted"} : VM!MoveClass(c, from, to)
    BY <1>5 DEF VM!LoadClass, VM!PrepareClass, VM!ClassPrepare
  <2>2. ids' \in SUBSET Classes
    BY <1>5 DEF VM!LoadClass, VM!PrepareClass, VM!ClassPrepare
  <2>3. QED  BY <2>1, <2>2 DEF VM!MoveClass
<1>6. CASE UNCHANGED VM!vars
  BY <1>6 DEF VM!vars
<1>7. QED  BY <1>1, <1>2, <1>3, <1>4, <1>5, <1>6 DEF VM!Next

LEMMA InitVmTypeInv ==
  ASSUME VM!VmEntryAssumption, VM!Init
  PROVE  VmTypeInv
<1>1. /\ entries = 0 /\ jvmti = 0 /\ ready = {} /\ ids = {} /\ todo = {}
      /\ pc = "idle" /\ entry = "none" /\ live = FALSE /\ swept = FALSE
      /\ class \in [Classes -> {"none", "loaded", "prepared", "posted"}]
  BY DEF VM!Init
<1>2. entries \in 0 .. MaxEntries /\ jvmti \in 0 .. entries
  BY <1>1 DEF VM!VmEntryAssumption
<1>3. QED  BY <1>1, <1>2 DEF VmTypeInv, VM!TypeOK, InitSteps

\* The agent's set-up never leaves its variables' types.
THEOREM VmTypes ==
  ASSUME VM!VmEntryAssumption
  PROVE  VM!Spec => []VM!TypeOK
<1>1. VmTypeInv => VM!TypeOK
  BY DEF VmTypeInv
<1>2. QED  BY <1>1, InitVmTypeInv, NextVmTypeInv, PTL DEF VM!Spec

\* The profiler never runs without a JVMTI environment, although attach drops
\* the result of init.
THEOREM EnvWhileProfiling ==
  ASSUME VM!VmEntryAssumption
  PROVE  VM!Spec => []VM!ProfilingHasEnv
<1>1. VmTypeInv => VM!ProfilingHasEnv
  BY DEF VmTypeInv, VM!ProfilingHasEnv
<1>2. QED  BY <1>1, InitVmTypeInv, NextVmTypeInv, PTL DEF VM!Spec
-----------------------------------------------------------------------------
(***************************************************************************)
(* No class falls between the sweep and the events.  Once the VM runs and  *)
(* an environment has events, a posted class has its ids or is still to be *)
(* swept, except between init, which enables the events, and the array of  *)
(* classes that the sweep begins with; Agent_OnLoad, which sweeps nothing, *)
(* is over before the VM runs.                                             *)
(***************************************************************************)
Covered ==
  (live /\ ready # {} /\ swept /\ pc \notin {"GetLoadedClasses", "rejected", "crashed"})
     => \A c \in Classes : class[c] = "posted" => c \in ids \/ (pc = "sweep" /\ c \in todo)

OnLoadIsEarly == pc \in {"GetEnv"} \cup InitSteps /\ entry = "OnLoad" => ~live

CoverInv == Covered /\ OnLoadIsEarly

LEMMA NextCoverInv ==
  ASSUME VmTypeInv, CoverInv, [VM!Next]_(VM!vars)
  PROVE  CoverInv'
<1> USE DEF CoverInv, Covered, OnLoadIsEarly, InitSteps
<1>1. CASE VM!Agent_OnLoad \/ VM!Agent_OnAttach \/ VM!JNI_OnLoad
  BY <1>1 DEF VM!Agent_OnLoad, VM!Agent_OnAttach, VM!JNI_OnLoad, VM!Enter
<1>2. CASE VM!GetEnv \/ VM!set_capabilities \/ VM!register_all_callback_functions \/ VM!EnableEvents
  BY <1>2 DEF VM!GetEnv, VM!set_capabilities, VM!register_all_callback_functions, VM!EnableEvents, VM!AfterInit
<1>3. CASE VM!GetLoadedClasses
  BY <1>3 DEF VM!GetLoadedClasses, VM!AfterSweep
<1>4. CASE VM!loadAllMethodIDsReturns \/ VM!ProfilerReturns \/ VM!VMInit
  BY <1>4 DEF VM!loadAllMethodIDsReturns, VM!ProfilerReturns, VM!VMInit, VM!AfterSweep
<1>5. CASE \E c \in Classes : VM!loadMethodIDs(c)
  BY <1>5 DEF VM!loadMethodIDs, VM!Prepared
<1>6. ASSUME NEW c \in Classes, NEW from, NEW to, VM!MoveClass(c, from, to),
             UNCHANGED ids \/ ids' = ids \cup {c},
             to = "posted" /\ live /\ ready # {} => c \in ids'
      PROVE  CoverInv'
  BY <1>6 DEF VM!MoveClass, VmTypeInv, VM!TypeOK
<1>7. CASE \E c \in Classes : VM!LoadClass(c) \/ VM!PrepareClass(c) \/ VM!ClassPrepare(c)
  BY <1>6, <1>7 DEF VM!LoadClass, VM!PrepareClass, VM!ClassPrepare
<1>8. CASE UNCHANGED VM!vars
  BY <1>8 DEF VM!vars
<1>9. QED  BY <1>1, <1>2, <1>3, <1>4, <1>5, <1>7, <1>8 DEF VM!Next

\* Every class whose ClassPrepare was posted has its jmethodIDs once the sweep
\* of the running VM is over.
THEOREM NoClassMissed ==
  ASSUME VM!VmEntryAssumption
  PROVE  VM!Spec => []VM!MethodIdsKnown
<1>1. VM!Init => CoverInv
  BY DEF VM!Init, CoverInv, Covered, OnLoadIsEarly, InitSteps
<1>2. CoverInv => VM!MethodIdsKnown
  BY DEF CoverInv, Covered, VM!MethodIdsKnown
<1>3. QED  BY <1>1, <1>2, InitVmTypeInv, NextVmTypeInv, NextCoverInv, PTL DEF VM!Spec

(***************************************************************************)
(* The shapes of the running callback and of the running reader.           *)
(***************************************************************************)
LEMMA CallbackShape ==
  ASSUME callback \in CI!Callbacks
  PROVE  /\ callback.pc \in {"idle", "new", "inline"}
         /\ callback.pc = "idle" <=> callback = CI!Idle
         /\ callback.pc # "idle" => callback.m \in CompiledMethods /\ callback.inl \in SUBSET CompiledMethods
         /\ callback.pc = "new" => callback = [pc |-> "new", m |-> callback.m, inl |-> callback.inl]
         /\ callback.pc = "inline" =>
              /\ callback.info \in Addrs
              /\ callback = [pc |-> "inline", m |-> callback.m, inl |-> callback.inl,
                             info |-> callback.info]
BY DEF CI!Callbacks, CI!Idle

LEMMA ReaderShape ==
  ASSUME reader \in CI!Readers
  PROVE  /\ reader.pc \in {"idle", "deref", "filled"}
         /\ reader.pc = "deref" =>
              /\ reader.m \in CompiledMethods /\ reader.info \in Addrs
              /\ reader \in [pc : {"deref"}, m : CompiledMethods, info : Addrs, freed : BOOLEAN]
<1>1. CASE reader \in [pc : {"deref"}, m : CompiledMethods, info : Addrs, freed : BOOLEAN]
  BY <1>1
<1>2. CASE reader = CI!Idle
  BY <1>2 DEF CI!Idle
<1>3. CASE reader \in [pc : {"filled"}, m : CompiledMethods, compiled : {FALSE}]
  BY <1>3
<1>4. CASE reader \in [pc : {"filled"}, m : CompiledMethods, compiled : {TRUE}, inlined : BOOLEAN, freed : BOOLEAN]
  BY <1>4
<1>5. QED  BY <1>1, <1>2, <1>3, <1>4 DEF CI!Readers

\* A delete changes the reader that holds the block, and no other.
LEMMA FreedReader ==
  ASSUME reader \in CI!Readers, NEW a \in Addrs, CI!Freed(a)
  PROVE  /\ reader' \in CI!Readers
         /\ UNCHANGED <<reader.pc>>
         /\ reader.pc = "deref" =>
              /\ UNCHANGED <<reader.m, reader.info>>
              /\ reader'.freed = (reader.freed \/ reader.info = a)
         /\ reader.pc # "deref" => UNCHANGED reader
<1>1. CASE reader.pc = "deref" /\ reader.info = a
  <2>1. reader' = [reader EXCEPT !.freed = TRUE]
    BY <1>1 DEF CI!Freed
  <2>2. reader' \in [pc : {"deref"}, m : CompiledMethods, info : Addrs, freed : BOOLEAN]
    BY <1>1, <2>1, ReaderShape
  <2>3. /\ reader'.pc = reader.pc /\ reader'.m = reader.m /\ reader'.info = reader.info
        /\ reader'.freed = TRUE
    BY <1>1, <2>1, ReaderShape
  <2>4. QED  BY <1>1, <2>2, <2>3, ReaderShape DEF CI!Readers
<1>2. CASE ~(reader.pc = "deref" /\ reader.info = a)
  BY <1>2, ReaderShape DEF CI!Freed
<1>3. QED  BY <1>1, <1>2
-----------------------------------------------------------------------------
(***************************************************************************)
(* Type correctness.                                                       *)
(***************************************************************************)
LEMMA NextInfoTypes ==
  ASSUME CI!CompileInfoAssumption, CI!TypeOK, [CI!Next]_(CI!vars)
  PROVE  CI!TypeOK'
<1> USE DEF CI!TypeOK, CI!CompileInfoAssumption
<1>1. CASE \E m \in CompiledMethods, inl \in SUBSET CompiledMethods : CI!CompiledMethodLoad(m, inl)
  <2>1. PICK m \in CompiledMethods, inl \in SUBSET CompiledMethods : CI!CompiledMethodLoad(m, inl)
    BY <1>1
  <2>2. reader' \in CI!Readers /\ allocated' \in SUBSET Addrs
    BY <2>1, FreedReader DEF CI!CompiledMethodLoad
  <2>3. callback' \in CI!Callbacks
    BY <2>1 DEF CI!CompiledMethodLoad, CI!Callbacks
  <2>4. loads' \in 0 .. MaxLoads /\ own' \in SUBSET CompiledMethods
    BY <2>1 DEF CI!CompiledMethodLoad
  <2>5. QED  BY <2>1, <2>2, <2>3, <2>4 DEF CI!CompiledMethodLoad
<1>2. CASE \E a \in Addrs : CI!NewCompileInfo(a)
  <2>1. PICK a \in Addrs : CI!NewCompileInfo(a)
    BY <1>2
  <2>2. callback.m \in CompiledMethods /\ callback.inl \in SUBSET CompiledMethods
    BY <2>1, CallbackShape DEF CI!NewCompileInfo
  <2>3. callback' \in CI!Callbacks
    BY <2>1, <2>2 DEF CI!NewCompileInfo, CI!Callbacks
  <2>4. QED  BY <2>1, <2>2, <2>3 DEF CI!NewCompileInfo
<1>3. CASE \E a \in Addrs : CI!Overwrite(a)
  BY <1>3 DEF CI!Overwrite
<1>4. CASE \E x \in CompiledMethods : CI!InlineInfo(x)
  <2>1. PICK x \in CompiledMethods : CI!InlineInfo(x)
    BY <1>4
  <2>2. callback.m \in CompiledMethods /\ callback.info \in Addrs /\ callback.inl \in SUBSET CompiledMethods
    BY <2>1, CallbackShape DEF CI!InlineInfo
  <2>3. callback' = [pc |-> "inline", m |-> callback.m, inl |-> callback.inl \ {x},
                     info |-> callback.info]
    BY <2>1, CallbackShape DEF CI!InlineInfo
  <2>4. callback' \in CI!Callbacks
    BY <2>2, <2>3 DEF CI!Callbacks
  <2>5. QED  BY <2>1, <2>2, <2>4 DEF CI!InlineInfo
<1>5. CASE CI!CompiledMethodLoadReturns
  BY <1>5 DEF CI!CompiledMethodLoadReturns, CI!Callbacks
<1>6. CASE \E m \in CompiledMethods : CI!fillMethodInfo(m)
  <2>1. PICK m \in CompiledMethods : CI!fillMethodInfo(m)
    BY <1>6
  <2>2. reader' \in CI!Readers
    BY <2>1 DEF CI!fillMethodInfo, CI!Readers
  <2>3. QED  BY <2>1, <2>2 DEF CI!fillMethodInfo
<1>7. CASE CI!set_inlined
  <2>1. reader' \in CI!Readers
    BY <1>7, ReaderShape DEF CI!set_inlined, CI!Readers
  <2>2. QED  BY <1>7, <2>1 DEF CI!set_inlined
<1>8. CASE UNCHANGED CI!vars
  BY <1>8 DEF CI!vars
<1>9. QED  BY <1>1, <1>2, <1>3, <1>4, <1>5, <1>6, <1>7, <1>8 DEF CI!Next

LEMMA InitInfoTypes ==
  ASSUME CI!CompileInfoAssumption, CI!Init
  PROVE  CI!TypeOK
BY DEF CI!Init, CI!TypeOK, CI!CompileInfoAssumption, CI!Callbacks, CI!Readers

\* The records, the callback and the reader keep their types.
THEOREM InfoTypes ==
  ASSUME CI!CompileInfoAssumption
  PROVE  CI!Spec => []CI!TypeOK
BY InitInfoTypes, NextInfoTypes, PTL DEF CI!Spec
-----------------------------------------------------------------------------
(***************************************************************************)
(* The records.  While a callback lists inlined methods its new record is  *)
(* allocated, is its own method's and is what that method's entry points   *)
(* to; between its delete and its store no allocated record of its method  *)
(* is.                                                                     *)
(***************************************************************************)
CallbackRecord ==
  /\ callback.pc = "inline" =>
       /\ callback.info \in allocated
       /\ method[callback.info] = callback.m
       /\ compiles_info[callback.m] = callback.info
  /\ callback.pc = "new" =>
       \A a \in allocated : method[a] = callback.m => compiles_info[callback.m] # a

LiveHasMethod == \A a \in allocated : method[a] \in CompiledMethods

RecordInv == CallbackRecord /\ LiveHasMethod /\ CI!NoDoubleFree /\ CI!LeakNeedsInlining

LEMMA NextRecordInv ==
  ASSUME CI!CompileInfoAssumption, CI!TypeOK, RecordInv, [CI!Next]_(CI!vars)
  PROVE  RecordInv'
<1> USE DEF RecordInv, CallbackRecord, LiveHasMethod, CI!NoDoubleFree, CI!LeakNeedsInlining
<1>0. /\ compiles_info \in [CompiledMethods -> Addrs \cup {Null}]
      /\ method \in [Addrs -> CompiledMethods \cup {NoMethod}]
      /\ allocated \in SUBSET Addrs /\ Null \notin Addrs /\ NoMethod \notin CompiledMethods
  BY DEF CI!TypeOK, CI!CompileInfoAssumption
<1>c. callback \in CI!Callbacks
  BY DEF CI!TypeOK
<1>1. CASE \E m \in CompiledMethods, inl \in SUBSET CompiledMethods : CI!CompiledMethodLoad(m, inl)
  <2>1. PICK m \in CompiledMethods, inl \in SUBSET CompiledMethods : CI!CompiledMethodLoad(m, inl)
    BY <1>1
  <2>2. /\ callback.pc = "idle" /\ callback'.pc = "new" /\ callback'.m = m
        /\ UNCHANGED <<compiles_info, method, inlined>>
        /\ \/ /\ compiles_info[m] # Null /\ method[compiles_info[m]] = m
              /\ allocated' = allocated \ {compiles_info[m]}
           \/ /\ ~(compiles_info[m] # Null /\ method[compiles_info[m]] = m)
              /\ allocated' = allocated
    BY <2>1 DEF CI!CompiledMethodLoad, CI!Idle
  <2>3. QED  BY <1>0, <2>2
<1>2. CASE \E a \in Addrs : CI!NewCompileInfo(a)
  <2>1. PICK a \in Addrs : CI!NewCompileInfo(a)
    BY <1>2
  <2>2. callback.m \in CompiledMethods
    BY <2>1, <1>c, CallbackShape DEF CI!NewCompileInfo
  <2>3. /\ callback.pc = "new" /\ callback'.pc = "inline" /\ callback'.m = callback.m
        /\ callback'.info = a /\ a \notin allocated /\ allocated' = allocated \cup {a}
        /\ method' = [method EXCEPT ![a] = callback.m]
        /\ compiles_info' = [compiles_info EXCEPT ![callback.m] = a]
        /\ UNCHANGED inlined
    BY <2>1 DEF CI!NewCompileInfo
  <2>4. QED  BY <1>0, <2>2, <2>3
<1>3. CASE \E a \in Addrs : CI!Overwrite(a)
  BY <1>0, <1>3 DEF CI!Overwrite
<1>4. CASE \E x \in CompiledMethods : CI!InlineInfo(x)
  <2>1. PICK x \in CompiledMethods : CI!InlineInfo(x)
    BY <1>4
  <2>2. callback.m \in CompiledMethods /\ callback.info \in Addrs
    BY <2>1, <1>c, CallbackShape DEF CI!InlineInfo
  <2>3. /\ callback.pc = "inline" /\ callback'.pc = "inline" /\ callback'.m = callback.m
        /\ callback'.info = callback.info
        /\ compiles_info' = [compiles_info EXCEPT ![x] = callback.info]
        /\ inlined' = inlined \cup ({x} \ {callback.m})
        /\ UNCHANGED <<method, allocated>>
    BY <2>1, <1>c, CallbackShape DEF CI!InlineInfo
  <2>4. QED  BY <1>0, <2>2, <2>3
<1>5. CASE CI!CompiledMethodLoadReturns
  BY <1>0, <1>5 DEF CI!CompiledMethodLoadReturns, CI!Idle
<1>6. CASE CI!set_inlined \/ (\E m \in CompiledMethods : CI!fillMethodInfo(m)) \/ UNCHANGED CI!vars
  BY <1>6 DEF CI!set_inlined, CI!fillMethodInfo, CI!vars
<1>7. QED  BY <1>1, <1>2, <1>3, <1>4, <1>5, <1>6 DEF CI!Next

LEMMA InitRecordInv ==
  ASSUME CI!CompileInfoAssumption, CI!Init
  PROVE  RecordInv
BY DEF CI!Init, CI!Idle, RecordInv, CallbackRecord, LiveHasMethod, CI!NoDoubleFree, CI!LeakNeedsInlining

\* The delete of CompiledMethodLoad frees only what is allocated, although it
\* decides by what a dangling pointer may show.
THEOREM DeleteIsSafe ==
  ASSUME CI!CompileInfoAssumption
  PROVE  CI!Spec => []CI!NoDoubleFree
<1>1. RecordInv => CI!NoDoubleFree
  BY DEF RecordInv
<1>2. QED  BY <1>1, InitInfoTypes, NextInfoTypes, InitRecordInv, NextRecordInv, PTL DEF CI!Spec

\* Only the record of a method that was inlined leaks.
THEOREM LeakOnlyByInlining ==
  ASSUME CI!CompileInfoAssumption
  PROVE  CI!Spec => []CI!LeakNeedsInlining
<1>1. RecordInv => CI!LeakNeedsInlining
  BY DEF RecordInv
<1>2. QED  BY <1>1, InitInfoTypes, NextInfoTypes, InitRecordInv, NextRecordInv, PTL DEF CI!Spec
-----------------------------------------------------------------------------
(***************************************************************************)
(* The reader.  A record that names a method was written by a load of that *)
(* method.  An entry points to a record that names the method, or the      *)
(* method was inlined, or its load is between delete and store; a reader   *)
(* that holds an undeleted block is in one of the first two cases.         *)
(***************************************************************************)
RecordsAreOwn ==
  /\ \A a \in Addrs : method[a] \in CompiledMethods => method[a] \in own
  /\ callback.pc # "idle" => callback.m \in own

EntryNames ==
  \A m \in CompiledMethods :
    compiles_info[m] # Null =>
      \/ method[compiles_info[m]] = m
      \/ m \in inlined
      \/ callback.pc = "new" /\ callback.m = m /\ compiles_info[m] \notin allocated

ReaderHolds ==
  (reader.pc = "deref" /\ ~reader.freed) =>
    \/ method[reader.info] = reader.m /\ reader.info \in allocated
    \/ reader.m \in inlined

ReadInv == RecordsAreOwn /\ EntryNames /\ ReaderHolds /\ CI!ReportSound

LEMMA NextReadInv ==
  ASSUME CI!CompileInfoAssumption, CI!TypeOK, RecordInv, ReadInv, [CI!Next]_(CI!vars)
  PROVE  ReadInv'
<1> USE DEF ReadInv, RecordsAreOwn, EntryNames, ReaderHolds, CI!ReportSound
<1>0. /\ compiles_info \in [CompiledMethods -> Addrs \cup {Null}]
      /\ method \in [Addrs -> CompiledMethods \cup {NoMethod}]
      /\ allocated \in SUBSET Addrs /\ Null \notin Addrs /\ NoMethod \notin CompiledMethods
  BY DEF CI!TypeOK, CI!CompileInfoAssumption
<1>c. callback \in CI!Callbacks /\ reader \in CI!Readers
  BY DEF CI!TypeOK
<1>d. \A m \in CompiledMethods :
        (/\ compiles_info[m] # Null /\ method[compiles_info[m]] = m
         /\ ~(callback.pc = "new" /\ callback.m = m)) => compiles_info[m] \in allocated
  BY DEF RecordInv, CI!NoDoubleFree
<1>1. CASE \E m \in CompiledMethods, inl \in SUBSET CompiledMethods : CI!CompiledMethodLoad(m, inl)
  <2>1. PICK m \in CompiledMethods, inl \in SUBSET CompiledMethods : CI!CompiledMethodLoad(m, inl)
    BY <1>1
  <2>2. /\ callback.pc = "idle" /\ callback'.pc = "new" /\ callback'.m = m
        /\ own' = own \cup {m}
        /\ UNCHANGED <<compiles_info, method, inlined>>
    BY <2>1 DEF CI!CompiledMethodLoad, CI!Idle
  <2>3. RecordsAreOwn' /\ EntryNames'
    BY <1>0, <2>2
  <2>4. CASE compiles_info[m] # Null /\ method[compiles_info[m]] = m
    <3>1. allocated' = allocated \ {compiles_info[m]} /\ CI!Freed(compiles_info[m])
      BY <2>1, <2>4 DEF CI!CompiledMethodLoad
    <3>2. compiles_info[m] \in Addrs
      BY <1>0, <2>4
    <3>3. /\ UNCHANGED <<reader.pc>>
          /\ reader.pc = "deref" =>
               /\ UNCHANGED <<reader.m, reader.info>>
               /\ reader'.freed = (reader.freed \/ reader.info = compiles_info[m])
          /\ reader.pc # "deref" => UNCHANGED reader
      BY <3>1, <3>2, <1>c, FreedReader
    <3>4. ReaderHolds' /\ CI!ReportSound'
      BY <2>2, <3>1, <3>3, <1>c, ReaderShape
    <3>5. QED  BY <2>3, <3>4
  <2>5. CASE ~(compiles_info[m] # Null /\ method[compiles_info[m]] = m)
    <3>1. UNCHANGED <<allocated, reader>>
      BY <2>1, <2>5 DEF CI!CompiledMethodLoad
    <3>2. QED  BY <2>2, <2>3, <3>1
  <2>6. QED  BY <2>4, <2>5
<1>2. CASE \E a \in Addrs : CI!NewCompileInfo(a)
  <2>1. PICK a \in Addrs : CI!NewCompileInfo(a)
    BY <1>2
  <2>2. callback.m \in CompiledMethods
    BY <2>1, <1>c, CallbackShape DEF CI!NewCompileInfo
  <2>3. /\ callback.pc = "new" /\ callback'.pc = "inline" /\ callback'.m = callback.m
        /\ a \notin allocated /\ allocated' = allocated \cup {a}
        /\ method' = [method EXCEPT ![a] = callback.m]
        /\ compiles_info' = [compiles_info EXCEPT ![callback.m] = a]
        /\ UNCHANGED <<inlined, own, reader>>
    BY <2>1 DEF CI!NewCompileInfo
  <2>4. EntryNames'
    BY <1>0, <1>d, <2>2, <2>3
  <2>5. RecordsAreOwn'
    BY <1>0, <2>2, <2>3
  <2>6. ReaderHolds' /\ CI!ReportSound'
    BY <1>0, <2>3, <1>c, ReaderShape
  <2>7. QED  BY <2>4, <2>5, <2>6
<1>3. CASE \E a \in Addrs : CI!Overwrite(a)
  <2>1. PICK a \in Addrs : CI!Overwrite(a)
    BY <1>3
  <2>2. /\ a \notin allocated /\ method' = [method EXCEPT ![a] = NoMethod]
        /\ UNCHANGED <<compiles_info, allocated, own, inlined, callback, reader>>
    BY <2>1 DEF CI!Overwrite
  <2>3. EntryNames'
    BY <1>0, <1>d, <2>2
  <2>4. RecordsAreOwn' /\ ReaderHolds' /\ CI!ReportSound'
    BY <1>0, <2>2, <1>c, ReaderShape
  <2>5. QED  BY <2>3, <2>4
<1>4. CASE \E x \in CompiledMethods : CI!InlineInfo(x)
  <2>1. PICK x \in CompiledMethods : CI!InlineInfo(x)
    BY <1>4
  <2>2. callback.m \in CompiledMethods /\ callback.info \in Addrs
    BY <2>1, <1>c, CallbackShape DEF CI!InlineInfo
  <2>3. /\ callback.pc = "inline" /\ callback'.pc = "inline" /\ callback'.m = callback.m
        /\ compiles_info' = [compiles_info EXCEPT ![x] = callback.info]
        /\ inlined' = inlined \cup ({x} \ {callback.m})
        /\ UNCHANGED <<method, allocated, own, reader>>
    BY <2>1, <1>c, CallbackShape DEF CI!InlineInfo
  <2>4. method[callback.info] = callback.m
    BY <2>3 DEF RecordInv, CallbackRecord
  <2>5. EntryNames'
    BY <1>0, <2>2, <2>3, <2>4
  <2>6. RecordsAreOwn' /\ ReaderHolds' /\ CI!ReportSound'
    BY <2>3
  <2>7. QED  BY <2>5, <2>6
<1>5. CASE CI!CompiledMethodLoadReturns
  BY <1>5 DEF CI!CompiledMethodLoadReturns, CI!Idle
<1>6. CASE \E m \in CompiledMethods : CI!fillMethodInfo(m)
  <2>1. PICK m \in CompiledMethods : CI!fillMethodInfo(m)
    BY <1>6
  <2>2. UNCHANGED <<compiles_info, method, allocated, own, inlined, callback>>
    BY <2>1 DEF CI!fillMethodInfo
  <2>3. RecordsAreOwn' /\ EntryNames'
    BY <2>2
  <2>4. CASE compiles_info[m] = Null
    <3>1. reader'.pc = "filled" /\ reader'.compiled = FALSE
      BY <2>1, <2>4 DEF CI!fillMethodInfo
    <3>2. QED  BY <2>3, <3>1
  <2>5. CASE compiles_info[m] # Null
    <3>1. /\ reader'.pc = "deref" /\ reader'.m = m /\ reader'.info = compiles_info[m]
          /\ reader'.freed = (callback.pc = "new" /\ compiles_info[m] \notin allocated)
      BY <2>1, <2>5 DEF CI!fillMethodInfo
    <3>2. ReaderHolds'
      BY <2>2, <2>5, <3>1, <1>d
    <3>3. QED  BY <2>3, <3>1, <3>2
  <2>6. QED  BY <2>4, <2>5
<1>7. CASE CI!set_inlined
  <2>1. /\ reader.pc = "deref" /\ reader'.pc = "filled" /\ reader'.m = reader.m
        /\ reader'.inlined = (method[reader.info] # reader.m) /\ reader'.freed = reader.freed
        /\ UNCHANGED <<compiles_info, method, allocated, own, inlined, callback>>
    BY <1>7 DEF CI!set_inlined
  <2>2. reader.m \in CompiledMethods /\ reader.info \in Addrs
    BY <2>1, <1>c, ReaderShape
  <2>3. QED  BY <2>1, <2>2
<1>8. CASE UNCHANGED CI!vars
  BY <1>8 DEF CI!vars
<1>9. QED  BY <1>1, <1>2, <1>3, <1>4, <1>5, <1>6, <1>7, <1>8 DEF CI!Next

\* fillMethodInfo reports what is or was true of the method, unless the record
\* it reads was deleted under it.
THEOREM ReportIsSound ==
  ASSUME CI!CompileInfoAssumption
  PROVE  CI!Spec => []CI!ReportSound
<1>1. CI!CompileInfoAssumption /\ CI!Init => ReadInv
  BY DEF CI!Init, CI!Idle, CI!CompileInfoAssumption, ReadInv, RecordsAreOwn, EntryNames, ReaderHolds, CI!ReportSound
<1>2. ReadInv => CI!ReportSound
  BY DEF ReadInv
<1>3. QED
  BY <1>1, <1>2, InitInfoTypes, NextInfoTypes, InitRecordInv, NextRecordInv, NextReadInv, PTL DEF CI!Spec

(***************************************************************************)
(* The inductive invariant.                                                *)
(***************************************************************************)
FrameRecord == [jvm : Jvms, id : MethodIds, method : SourceMethods, psi : SourceMethods \cup {NULL_PSI_METHOD},
          fresh : BOOLEAN]

LabelTypes ==
  /\ frames \in Seq(FrameRecord)
  /\ methodToPsiCache \in [DOMAIN methodToPsiCache -> SourceMethods \cup {NULL_PSI_METHOD}]

\* A frame's method is the one that its JVM gives the id; a look-up finds that
\* method or none.
LooksUpOwn(f) ==
  /\ f.method = MethodOf[f.jvm][f.id]
  /\ f.fresh => f.psi \in {f.method, NULL_PSI_METHOD}

\* fs[e] is the frame whose look-up put psi into the cache for id.
Filled(fs, e, id, psi) == fs[e].fresh /\ fs[e].id = id /\ fs[e].psi = psi

\* What the cache holds, and what a frame took from it, was found for an earlier
\* frame with the same id.
LabelInv ==
  /\ \A k \in DOMAIN frames : LooksUpOwn(frames[k])
  /\ \A i \in DOMAIN methodToPsiCache :
       \E e \in DOMAIN frames : Filled(frames, e, i, methodToPsiCache[i])
  /\ \A k \in DOMAIN frames :
       ~frames[k].fresh => \E e \in 1..k - 1 : Filled(frames, e, frames[k].id, frames[k].psi)

LabelsInv == LabelTypes /\ LabelInv /\ FL!ClickIsOwn

LEMMA InitLabelsInv == FL!Init => LabelsInv
BY DEF FL!Init, LabelsInv, LabelTypes, LabelInv, FL!ClickIsOwn

\* Whatever project is searched, a method is found under its own signature only.
LEMMA FindsOwn ==
  ASSUME NEW m, NEW n \in FL!findPsiMethod(m)
  PROVE  n = m
BY DEF FL!findPsiMethod

\* An entry of the cache is never replaced: getOrPut looks up what is not there.
LEMMA MakeFrameInv ==
  ASSUME FL!FrameLabelsAssumption, LabelsInv, NEW j \in Jvms, NEW i \in MethodIds, FL!MakeFrame(j, i)
  PROVE  LabelsInv'
<1> DEFINE m == MethodOf[j][i]
           found == FL!findPsiMethod(m)
           known == i \in DOMAIN methodToPsiCache
<1>1. m \in SourceMethods
  BY DEF FL!FrameLabelsAssumption
<1>2. PICK psi \in IF known THEN {methodToPsiCache[i]}
                   ELSE IF found = {} THEN {NULL_PSI_METHOD} ELSE found :
        /\ methodToPsiCache' = [x \in DOMAIN methodToPsiCache \cup {i} |->
                                  IF x = i THEN psi ELSE methodToPsiCache[x]]
        /\ frames' = Append(frames, [jvm |-> j, id |-> i, method |-> m, psi |-> psi,
                                     fresh |-> ~known])
  BY DEF FL!MakeFrame
<1> DEFINE new == [jvm |-> j, id |-> i, method |-> m, psi |-> psi, fresh |-> ~known]
<1>3. /\ known => psi = methodToPsiCache[i]
      /\ ~known => psi \in {m, NULL_PSI_METHOD}
  BY <1>2, FindsOwn
<1>4. psi \in SourceMethods \cup {NULL_PSI_METHOD}
  BY <1>1, <1>3 DEF LabelsInv, LabelTypes
<1>5. new \in FrameRecord
  BY <1>1, <1>4 DEF FrameRecord
<1> HIDE DEF m, found
<1>6. /\ DOMAIN methodToPsiCache' = DOMAIN methodToPsiCache \cup {i}
      /\ methodToPsiCache'[i] = psi
      /\ \A x \in DOMAIN methodToPsiCache \ {i} : methodToPsiCache'[x] = methodToPsiCache[x]
      /\ methodToPsiCache' = [x \in DOMAIN methodToPsiCache' |-> methodToPsiCache'[x]]
  BY <1>2
<1> DEFINE last == Len(frames) + 1
<1>7. /\ frames' \in Seq(FrameRecord)
      /\ Len(frames) \in Nat /\ DOMAIN frames = 1..Len(frames)
      /\ DOMAIN frames' = 1..last
      /\ frames'[last] = new
      /\ \A k \in DOMAIN frames : frames'[k] = frames[k]
  BY <1>2, <1>5 DEF LabelsInv, LabelTypes
<1> HIDE DEF new
<1>8. LabelTypes'
  BY <1>4, <1>6, <1>7 DEF LabelsInv, LabelTypes
<1>9. \A e \in DOMAIN frames : \A x, p : Filled(frames, e, x, p) => Filled(frames', e, x, p)
  BY <1>7 DEF Filled
<1>10. new.id = i /\ new.psi = psi /\ new.fresh = ~known /\ new.method = m /\ new.jvm = j
  BY DEF new
<1>11. \A k \in DOMAIN frames' : LooksUpOwn(frames'[k])
  <2>1. \A k \in DOMAIN frames : LooksUpOwn(frames'[k])
    BY <1>7 DEF LabelsInv, LabelInv
  <2>2. LooksUpOwn(new)
    BY <1>3, <1>10 DEF LooksUpOwn, m
  <2>3. QED  BY <2>1, <2>2, <1>7
<1>12. \A x \in DOMAIN methodToPsiCache' :
         \E e \in DOMAIN frames' : Filled(frames', e, x, methodToPsiCache'[x])
  <2> SUFFICES ASSUME NEW x \in DOMAIN methodToPsiCache'
               PROVE  \E e \in DOMAIN frames' : Filled(frames', e, x, methodToPsiCache'[x])
    OBVIOUS
  <2>1. CASE x \in DOMAIN methodToPsiCache
    <3>1. methodToPsiCache'[x] = methodToPsiCache[x]
      BY <2>1, <1>3, <1>6
    <3>2. PICK e \in DOMAIN frames : Filled(frames, e, x, methodToPsiCache[x])
      BY <2>1 DEF LabelsInv, LabelInv
    <3>3. QED  BY <3>1, <3>2, <1>7, <1>9
  <2>2. CASE x \notin DOMAIN methodToPsiCache
    <3>1. x = i /\ methodToPsiCache'[x] = psi /\ ~known
      BY <2>2, <1>6
    <3>2. Filled(frames', last, x, psi)
      BY <3>1, <1>7, <1>10 DEF Filled
    <3>3. QED  BY <3>1, <3>2, <1>7
  <2>3. QED  BY <2>1, <2>2
<1>13. \A k \in DOMAIN frames' :
         ~frames'[k].fresh => \E e \in 1..k - 1 : Filled(frames', e, frames'[k].id, frames'[k].psi)
  <2> SUFFICES ASSUME NEW k \in DOMAIN frames', ~frames'[k].fresh
               PROVE  \E e \in 1..k - 1 : Filled(frames', e, frames'[k].id, frames'[k].psi)
    OBVIOUS
  <2>1. CASE k \in DOMAIN frames
    <3>1. frames'[k] = frames[k]
      BY <2>1, <1>7
    <3>2. PICK e \in 1..k - 1 : Filled(frames, e, frames[k].id, frames[k].psi)
      BY <2>1, <3>1 DEF LabelsInv, LabelInv
    <3>3. e \in DOMAIN frames
      BY <2>1, <1>7
    <3>4. QED  BY <3>1, <3>2, <3>3, <1>9
  <2>2. CASE k = last
    <3>1. known /\ frames'[k].id = i /\ frames'[k].psi = methodToPsiCache[i]
      BY <2>2, <1>3, <1>7, <1>10
    <3>2. PICK e \in DOMAIN frames : Filled(frames, e, i, methodToPsiCache[i])
      BY <3>1 DEF LabelsInv, LabelInv
    <3>3. e \in 1..k - 1
      BY <2>2, <1>7
    <3>4. QED  BY <3>1, <3>2, <3>3, <1>9
  <2>3. QED  BY <2>1, <2>2, <1>7
<1>14. LabelInv'
  BY <1>11, <1>12, <1>13 DEF LabelInv
<1>15. FL!ClickIsOwn'
  BY DEF FL!MakeFrame, FL!ClickIsOwn, LabelsInv
<1>16. QED  BY <1>8, <1>14, <1>15 DEF LabelsInv

LEMMA NextLabelsInv ==
  ASSUME FL!FrameLabelsAssumption, LabelsInv, [FL!Next]_(FL!vars)
  PROVE  LabelsInv'
<1>1. CASE UNCHANGED <<methodToPsiCache, frames, visited>>
  BY <1>1 DEF LabelsInv, LabelTypes, LabelInv, Filled, FL!ClickIsOwn
<1>2. ASSUME NEW p \in Projects, FL!OpenProject(p)
      PROVE  LabelsInv'
  BY <1>1, <1>2 DEF FL!OpenProject
<1>3. ASSUME NEW k \in DOMAIN openProjects, FL!CloseProject(k)
      PROVE  LabelsInv'
  BY <1>1, <1>3 DEF FL!CloseProject
<1>4. ASSUME NEW j \in Jvms, NEW i \in MethodIds, FL!MakeFrame(j, i)
      PROVE  LabelsInv'
  BY <1>4, MakeFrameInv
<1>5. ASSUME NEW k \in DOMAIN frames, FL!click(k)
      PROVE  LabelsInv'
  <2>1. LabelTypes' /\ LabelInv'
    BY <1>5 DEF FL!click, LabelsInv, LabelTypes, LabelInv, Filled
  <2>2. FL!ClickIsOwn'
    <3>1. PICK m \in FL!findPsiMethod(frames[k].method) :
            visited' = visited \cup {<<frames[k].method, m>>}
      BY <1>5 DEF FL!click
    <3>2. m = frames[k].method
      BY FindsOwn
    <3>3. QED  BY <3>1, <3>2 DEF LabelsInv, FL!ClickIsOwn
  <2>3. QED  BY <2>1, <2>2 DEF LabelsInv
<1>6. QED  BY <1>1, <1>2, <1>3, <1>4, <1>5 DEF FL!Next, FL!vars

LEMMA LabelsShow ==
  ASSUME LabelsInv
  PROVE  FL!ClickIsOwn /\ FL!WrongLabelIsReused
<1> SUFFICES ASSUME NEW k \in DOMAIN frames,
                    frames[k].psi \notin {frames[k].method, NULL_PSI_METHOD}
             PROVE  \E e \in 1..k - 1 :
                      /\ frames[e].jvm # frames[k].jvm /\ frames[e].id = frames[k].id
                      /\ frames[e].method = frames[k].psi /\ frames[e].fresh
  BY DEF LabelsInv, FL!WrongLabelIsReused
<1>1. ~frames[k].fresh
  BY DEF LabelsInv, LabelInv, LooksUpOwn
<1>2. PICK e \in 1..k - 1 : Filled(frames, e, frames[k].id, frames[k].psi)
  BY <1>1 DEF LabelsInv, LabelInv
<1>3. e \in DOMAIN frames
  BY DEF LabelsInv, LabelTypes
<1>4. frames[e].method = frames[k].psi
  BY <1>2, <1>3 DEF LabelsInv, LabelInv, LooksUpOwn, Filled
<1>5. frames[e].jvm # frames[k].jvm
  BY <1>2, <1>3, <1>4 DEF LabelsInv, LabelInv, LooksUpOwn, Filled
<1>6. QED  BY <1>2, <1>4, <1>5 DEF Filled

(***************************************************************************)
(* The theorems.                                                           *)
(***************************************************************************)
\* Whatever the cache was filled with, and whatever projects are open by then, a
\* click opens the method of the frame (click).
THEOREM ClicksOpenOwn ==
  ASSUME FL!FrameLabelsAssumption
  PROVE  FL!Spec => []FL!ClickIsOwn
<1>1. LabelsInv => FL!ClickIsOwn
  BY DEF LabelsInv
<1>2. QED  BY <1>1, InitLabelsInv, NextLabelsInv, PTL DEF FL!Spec

\* A wrong label was right in another JVM: methodToPsiCache confuses methods of
\* two JVMs that share an id, and nothing else.
THEOREM WrongLabelsAreForeign ==
  ASSUME FL!FrameLabelsAssumption
  PROVE  FL!Spec => []FL!WrongLabelIsReused
BY InitLabelsInv, NextLabelsInv, LabelsShow, PTL DEF FL!Spec

-----------------------------------------------------------------------------
(***************************************************************************)
(* Lifetimes.  LifetimeProofs proves about the lifetimes of one module,    *)
(* and Franky has them in an instance; both say the same of the same       *)
(* variables, definition by definition.                                    *)
(***************************************************************************)
LP == INSTANCE LifetimeProofs WITH Root <- RootLifetime

LEMMA SameLifetimes ==
  /\ LT!LifetimeAssumption => LP!LifetimeAssumption
  /\ LT!Init => LP!Init
  /\ [LT!Next]_(LT!vars) => [LP!Next]_(LP!vars)
  /\ LP!TypeOK => LT!TypeOK
  /\ LP!SeveralNeedsFault => LT!SeveralNeedsFault
  /\ LP!RunsOnce => LT!RunsOnce
  /\ LP!LastAddedFirst => LT!LastAddedFirst
  /\ LP!NothingLost => LT!NothingLost
<1>1. /\ LT!LifetimeAssumption => LP!LifetimeAssumption
      /\ LT!Init => LP!Init
  BY DEF LT!LifetimeAssumption, LP!LifetimeAssumption, LT!Init, LP!Init
<1>2. /\ LP!TypeOK => LT!TypeOK
      /\ LP!SeveralNeedsFault => LT!SeveralNeedsFault
      /\ LP!RunsOnce => LT!RunsOnce
  BY DEF LT!TypeOK, LP!TypeOK, LT!Items, LP!Items, LT!SeveralNeedsFault, LP!SeveralNeedsFault,
         LT!RunsOnce, LP!RunsOnce
<1>3. /\ LP!LastAddedFirst => LT!LastAddedFirst
      /\ LP!NothingLost => LT!NothingLost
  BY DEF LT!LastAddedFirst, LP!LastAddedFirst, LT!NothingLost, LP!NothingLost, LT!Range, LP!Range
<1>4. \A s : /\ LT!Reverse(s) = LP!Reverse(s)
             /\ LT!Last(s) = LP!Last(s) /\ LT!Front(s) = LP!Front(s)
  BY DEF LT!Reverse, LP!Reverse, LT!Last, LP!Last, LT!Front, LP!Front
<1>5. \A s, e : LT!RemoveFirst(s, e) = LP!RemoveFirst(s, e)
  BY DEF LT!RemoveFirst, LP!RemoveFirst, LT!RemoveAt, LP!RemoveAt, LT!SelectInSeq,
         LP!SelectInSeq, LT!Min, LP!Min
<1>6. \A l : /\ LT!Terminate(l) = LP!Terminate(l) /\ LT!Unlink(l) = LP!Unlink(l)
             /\ LT!Run(l) = LP!Run(l) /\ LT!Fresh(l) = LP!Fresh(l)
             /\ LT!InAction(l) = LP!InAction(l)
  BY <1>4 DEF LT!Terminate, LP!Terminate, LT!Unlink, LP!Unlink, LT!Run, LP!Run, LT!Fresh, LP!Fresh,
         LT!InAction, LP!InAction, LT!Item, LP!Item, LT!Top, LP!Top
<1>7. LT!Top = LP!Top /\ LT!Item = LP!Item /\ LT!Popped = LP!Popped
  BY <1>4 DEF LT!Top, LP!Top, LT!Item, LP!Item, LT!Popped, LP!Popped
<1>8. \A l, below : LT!Enter(l, below) => LP!Enter(l, below)
  BY <1>4 DEF LT!Enter, LP!Enter
<1>9. ASSUME NEW l
      PROVE  /\ LT!addNested(l) => LP!addNested(l)
             /\ LT!toDisposable(l) => LP!toDisposable(l)
             /\ LT!terminate(l) => LP!terminate(l)
             /\ LT!dispose(l) => LP!dispose(l)
  BY <1>6, <1>8 DEF LT!addNested, LP!addNested, LT!toDisposable, LP!toDisposable, LT!terminate,
         LP!terminate, LT!dispose, LP!dispose
<1>10. ASSUME NEW l, NEW x
       PROVE  /\ LT!add(l, x) => LP!add(l, x)
              /\ LT!AddTests(l, x) => LP!AddTests(l, x)
  BY <1>6 DEF LT!add, LP!add, LT!AddTests, LP!AddTests
<1>11. /\ LT!AddInserts => LP!AddInserts
       /\ LT!RunAction => LP!RunAction
       /\ LT!TerminateNested => LP!TerminateNested
       /\ LT!DisposeOwn => LP!DisposeOwn
       /\ LT!terminateReturns => LP!terminateReturns
  BY <1>4, <1>6, <1>7, <1>8
     DEF LT!AddInserts, LP!AddInserts, LT!RunAction, LP!RunAction, LT!TerminateNested,
         LP!TerminateNested, LT!DisposeOwn, LP!DisposeOwn, LT!terminateReturns,
         LP!terminateReturns
<1>12. LT!UnlinkNested => LP!UnlinkNested
  BY <1>5, <1>6, <1>7 DEF LT!UnlinkNested, LP!UnlinkNested
<1>13. [LT!Next]_(LT!vars) => [LP!Next]_(LP!vars)
  BY <1>9, <1>10, <1>11, <1>12 DEF LT!Next, LP!Next, LT!vars, LP!vars
<1>14. QED  BY <1>1, <1>2, <1>3, <1>13

LEMMA InitLifetimes ==
  ASSUME LT!LifetimeAssumption, LT!Init
  PROVE  LP!LifeInv
BY SameLifetimes, LP!InitLife

LEMMA NextLifetimes ==
  ASSUME LT!LifetimeAssumption, LP!LifeInv, [LT!Next]_(LT!vars)
  PROVE  LP!LifeInv'
BY SameLifetimes, LP!NextLife

LEMMA LifetimesShow ==
  ASSUME LP!LifeInv
  PROVE  LT!TypeOK /\ LT!SeveralNeedsFault /\ LT!RunsOnce /\ LT!LastAddedFirst /\ LT!NothingLost
BY SameLifetimes, LP!LifeShows

-----------------------------------------------------------------------------
(***************************************************************************)
(* What CostsAddUp adds up: the calls of the samples whose path goes       *)
(* through n.  A fold of samples goes along them step by step.             *)
(***************************************************************************)
Through(n, s) == IF FT!IsPrefix(n, FT!Reverse(s.frames)) THEN s.callCount ELSE 0

CallsOn(n, t) ==
  FT!FoldLeft(LAMBDA sum, s : sum + IF FT!IsPrefix(n, FT!Reverse(s.frames)) THEN s.callCount ELSE 0, 0, t)

OneMore(n, t) == [p \in Int \X (1 .. Len(t)) |-> p[1] + Through(n, t[p[2]])]

LEMMA ThroughType ==
  ASSUME FT!FlameTreeAssumption, NEW n, NEW s \in Samples
  PROVE  Through(n, s) \in Nat
BY DEF FT!FlameTreeAssumption, Through

LEMMA CallsSteps ==
  ASSUME FT!FlameTreeAssumption, NEW n, NEW t \in Seq(Samples)
  PROVE  Reaches(OneMore(n, t), 0, Int, Len(t), CallsOn(n, t))
<1> DEFINE k == Len(t)
           F == OneMore(n, t)
           D(g) == [s \in SUBSET (1 .. k) |->
                      IF s = {} THEN 0
                      ELSE g[s \ {Largest(s)}] + Through(n, t[Largest(s)])]
           G == CHOOSE g : g = D(g)
<1>1. k \in Nat /\ DOMAIN t = 1 .. k /\ \A i \in 1 .. k : t[i] \in Samples
  OBVIOUS
<1>2. \A i \in 1 .. k : Through(n, t[i]) \in Int
  BY <1>1, ThroughType
<1>3. StepsIn(F, Int, k) /\ \A a \in Int, i \in 1 .. k : F[<<a, i>>] = a + Through(n, t[i])
  BY <1>1, <1>2 DEF OneMore, StepsIn
<1>4. CallsOn(n, t) = G[1 .. k]
  BY <1>1 DEF CallsOn, FT!FoldLeft, FT!MapThenFoldSet, FT!Max, Largest, Through
<1> HIDE DEF F, k
<1>0. k \in Nat /\ 0 \in Int /\ StepsIn(F, Int, k)
  BY <1>1, <1>3
<1>5. PICK g : Iterates(g, F, 0, Int, k)
  BY <1>0, IterExists
<1>6. \A s \in SUBSET (1 .. k) : s # {} => Largest(s) \in 1 .. k /\ s \ {Largest(s)} \in SUBSET (1 .. k)
  BY <1>1, LargestIn
<1>7. g = D(g)
  BY <1>3, <1>5, <1>6 DEF Iterates
<1>8. G = D(G)
  BY <1>7
<1> HIDE DEF G
<1>9. Unrolls(G, F, 0, Int, k)
  BY <1>3, <1>6, <1>8 DEF Unrolls
<1>10. Reaches(F, 0, Int, k, G[1 .. k])
  BY <1>0, <1>9, FoldUnrolls
<1>11. QED  BY <1>4, <1>10 DEF k, F

LEMMA CallsType ==
  ASSUME FT!FlameTreeAssumption, NEW n, NEW t \in Seq(Samples)
  PROVE  CallsOn(n, t) \in Int
<1>1. PICK h : Goes(h, OneMore(n, t), 0, Int, Len(t)) /\ h[Len(t)] = CallsOn(n, t)
  BY CallsSteps DEF Reaches
<1>2. Len(t) \in 0 .. Len(t)
  OBVIOUS
<1>3. QED  BY <1>1, <1>2 DEF Goes

\* One sample more.
LEMMA CallsAppend ==
  ASSUME FT!FlameTreeAssumption, NEW n, NEW t \in Seq(Samples), NEW s \in Samples
  PROVE  CallsOn(n, Append(t, s)) = CallsOn(n, t) + Through(n, s)
<1> DEFINE u == Append(t, s)
           k == Len(t)
<1>1. /\ k \in Nat /\ u \in Seq(Samples) /\ Len(u) = k + 1 /\ u[k + 1] = s
      /\ \A i \in 1 .. k : u[i] = t[i]
  OBVIOUS
<1>2. PICK h : Goes(h, OneMore(n, t), 0, Int, k) /\ h[k] = CallsOn(n, t)
  BY CallsSteps DEF Reaches
<1> HIDE DEF u
<1>3. PICK g : Goes(g, OneMore(n, u), 0, Int, k + 1) /\ g[k + 1] = CallsOn(n, u)
  BY <1>1, CallsSteps DEF Reaches
<1> HIDE DEF k
<1>4. /\ \A i \in 0 .. k : h[i] \in Int /\ g[i] \in Int
      /\ \A i \in 1 .. k : i \in 1 .. k + 1 /\ h[i - 1] \in Int
  <2>1. \A i \in 0 .. k : i \in 0 .. k + 1
    BY <1>1
  <2>2. \A i \in 1 .. k : i \in 1 .. k + 1 /\ i - 1 \in 0 .. k
    BY <1>1
  <2>3. QED  BY <1>2, <1>3, <2>1, <2>2 DEF Goes
<1>5. \A a \in Int, i \in 1 .. k : OneMore(n, t)[<<a, i>>] = OneMore(n, u)[<<a, i>>]
  BY <1>1, <1>4 DEF OneMore, k
<1>6. \A i \in 0 .. k : h[i] = g[i]
  <2>1. StepsOf(h, OneMore(n, t), 0, k)
    BY <1>2 DEF Goes
  <2>2. StepsOf(g, OneMore(n, u), 0, k)
    BY <1>3, <1>4 DEF Goes, StepsOf
  <2>3. \A i \in 1 .. k : OneMore(n, t)[<<h[i - 1], i>>] = OneMore(n, u)[<<h[i - 1], i>>]
    BY <1>4, <1>5
  <2>4. QED  BY <1>1, <2>1, <2>2, <2>3, StepsAgree
<1>7. k \in 0 .. k /\ k + 1 \in 1 .. k + 1 /\ (k + 1) - 1 = k
  BY <1>1
<1>8. g[k + 1] = OneMore(n, u)[<<g[k], k + 1>>]
  BY <1>3, <1>7 DEF Goes, StepsOf
<1>9. OneMore(n, u)[<<g[k], k + 1>>] = g[k] + Through(n, s)
  BY <1>1, <1>4, <1>7 DEF OneMore
<1>10. QED  BY <1>2, <1>3, <1>6, <1>7, <1>8, <1>9 DEF u

\* Samples that do not go through n add nothing.
LEMMA CallsNone ==
  ASSUME FT!FlameTreeAssumption, NEW n, NEW t \in Seq(Samples),
         \A i \in 1 .. Len(t) : Through(n, t[i]) = 0
  PROVE  CallsOn(n, t) = 0
<1> DEFINE k == Len(t)
           zero == [i \in 0 .. k |-> 0]
<1>1. k \in Nat
  OBVIOUS
<1>2. PICK h : Goes(h, OneMore(n, t), 0, Int, k) /\ h[k] = CallsOn(n, t)
  BY CallsSteps DEF Reaches
<1>3. \A i \in 1 .. k : OneMore(n, t)[<<0, i>>] = 0
  BY DEF OneMore
<1> HIDE DEF k
<1>4. \A i \in 1 .. k : i - 1 \in 0 .. k /\ i \in 0 .. k
  BY <1>1
<1>5. StepsOf(zero, OneMore(n, t), 0, k)
  BY <1>1, <1>3, <1>4 DEF StepsOf
<1>6. \A i \in 0 .. k : zero[i] = h[i]
  <2>1. StepsOf(h, OneMore(n, t), 0, k)
    BY <1>2 DEF Goes
  <2> HIDE DEF zero
  <2>2. \A i \in 1 .. k : OneMore(n, t)[<<zero[i - 1], i>>] = OneMore(n, t)[<<zero[i - 1], i>>]
    OBVIOUS
  <2>3. QED  BY <1>1, <1>5, <2>1, <2>2, StepsAgree
<1>7. k \in 0 .. k
  BY <1>1
<1>8. zero[k] = 0
  BY <1>7
<1>9. QED  BY <1>2, <1>6, <1>7, <1>8

Ids == Nat \ {0}
Trace(s) == FT!Reverse(s.frames)

\* The nodes on the path of a sample are the prefixes of its trace.
LEMMA TraceType ==
  ASSUME FT!FlameTreeAssumption, NEW s \in Samples
  PROVE  Trace(s) \in Seq(Ids)
<1>1. s.frames \in Seq(Ids)
  BY DEF FT!FlameTreeAssumption, Ids
<1>2. \A i \in 1 .. Len(s.frames) : s.frames[(Len(s.frames) - i) + 1] \in Ids
  BY <1>1
<1>3. QED  BY <1>1, <1>2 DEF Trace, FT!Reverse

LEMMA PrefixOf ==
  ASSUME NEW r \in Seq(Ids), NEW n \in Seq(Ids)
  PROVE  FT!IsPrefix(n, r) <=> Len(n) <= Len(r) /\ \A i \in 1 .. Len(n) : n[i] = r[i]
BY DEF FT!IsPrefix

LEMMA Cut ==
  ASSUME NEW r \in Seq(Ids), NEW k \in 0 .. Len(r)
  PROVE  /\ SubSeq(r, 1, k) \in Seq(Ids) /\ Len(SubSeq(r, 1, k)) = k
         /\ \A i \in 1 .. k : SubSeq(r, 1, k)[i] = r[i]
OBVIOUS

LEMMA SameSeq ==
  ASSUME NEW r \in Seq(Ids), NEW n \in Seq(Ids), Len(n) = Len(r), \A i \in 1 .. Len(n) : n[i] = r[i]
  PROVE  n = r
OBVIOUS

LEMMA PathIsPrefixes ==
  ASSUME FT!FlameTreeAssumption, NEW s \in Samples
  PROVE  /\ FT!Path(s) = { n \in Seq(Ids) : FT!IsPrefix(n, Trace(s)) }
         /\ IsFiniteSet(FT!Path(s))
<1> DEFINE r == Trace(s)
<1>1. r \in Seq(Ids)
  BY TraceType
<1>2. FT!Path(s) = { SubSeq(r, 1, k) : k \in 0 .. Len(r) }
  BY DEF FT!Path, Trace
<1> HIDE DEF r
<1>3. ASSUME NEW k \in 0 .. Len(r)
      PROVE  SubSeq(r, 1, k) \in Seq(Ids) /\ FT!IsPrefix(SubSeq(r, 1, k), r)
  <2>1. /\ SubSeq(r, 1, k) \in Seq(Ids) /\ Len(SubSeq(r, 1, k)) = k
        /\ \A i \in 1 .. k : SubSeq(r, 1, k)[i] = r[i]
    BY <1>1, Cut
  <2>2. k <= Len(r)
    BY <1>1
  <2>3. QED  BY <1>1, <2>1, <2>2, PrefixOf
<1>4. ASSUME NEW n \in Seq(Ids), FT!IsPrefix(n, r)
      PROVE  Len(n) \in 0 .. Len(r) /\ n = SubSeq(r, 1, Len(n))
  <2>1. Len(n) \in 0 .. Len(r) /\ \A i \in 1 .. Len(n) : n[i] = r[i]
    BY <1>1, <1>4, PrefixOf
  <2> DEFINE m == SubSeq(r, 1, Len(n))
  <2>2. m \in Seq(Ids) /\ Len(m) = Len(n) /\ \A i \in 1 .. Len(n) : m[i] = r[i]
    BY <1>1, <2>1, Cut
  <2> HIDE DEF m
  <2>3. n = m
    BY <2>1, <2>2, SameSeq
  <2>4. QED  BY <2>1, <2>3 DEF m
<1>5. FT!Path(s) = { n \in Seq(Ids) : FT!IsPrefix(n, r) }
  BY <1>2, <1>3, <1>4
<1>6. IsFiniteSet(FT!Path(s))
  <2>1. IsFiniteSet(0 .. Len(r))
    BY <1>1, FS_Interval
  <2> DEFINE f == [k \in 0 .. Len(r) |-> SubSeq(r, 1, k)]
  <2>2. f \in Surjection(0 .. Len(r), FT!Path(s))
    BY <1>2 DEF Surjection
  <2> HIDE DEF f
  <2>3. QED  BY <2>1, <2>2, FS_Surjection
<1>7. QED  BY <1>5, <1>6 DEF r

LEMMA FrontType ==
  ASSUME NEW n \in Seq(Ids), n # <<>>
  PROVE  /\ FT!Front(n) \in Seq(Ids) /\ Len(FT!Front(n)) = Len(n) - 1 /\ Len(n) >= 1
         /\ \A i \in 1 .. Len(n) - 1 : FT!Front(n)[i] = n[i]
<1>1. Len(n) \in Nat /\ Len(n) # 0
  OBVIOUS
<1>2. Len(n) - 1 \in 0 .. Len(n) /\ Len(n) >= 1
  BY <1>1
<1>3. QED  BY <1>2, Cut DEF FT!Front

LEMMA FrontOfPath ==
  ASSUME FT!FlameTreeAssumption, NEW s \in Samples, NEW n \in FT!Path(s), n # <<>>
  PROVE  FT!Front(n) \in FT!Path(s)
<1>1. n \in Seq(Ids) /\ FT!IsPrefix(n, Trace(s)) /\ Trace(s) \in Seq(Ids)
  BY PathIsPrefixes, TraceType
<1>2. Len(n) <= Len(Trace(s)) /\ \A i \in 1 .. Len(n) : n[i] = Trace(s)[i]
  BY <1>1, PrefixOf
<1> DEFINE m == FT!Front(n)
<1>3. /\ m \in Seq(Ids) /\ Len(m) = Len(n) - 1 /\ Len(n) >= 1
      /\ \A i \in 1 .. Len(n) - 1 : m[i] = n[i]
  BY <1>1, FrontType
<1> HIDE DEF m
<1>4. Len(n) \in Nat /\ Len(Trace(s)) \in Nat
  BY <1>1
<1>5. Len(m) <= Len(Trace(s)) /\ \A i \in 1 .. Len(m) : m[i] = Trace(s)[i]
  BY <1>2, <1>3, <1>4
<1>6. FT!IsPrefix(m, Trace(s))
  BY <1>1, <1>3, <1>5, PrefixOf
<1>7. QED  BY <1>3, <1>6, PathIsPrefixes DEF m

LEMMA RootOnPath ==
  ASSUME FT!FlameTreeAssumption, NEW s \in Samples
  PROVE  <<>> \in FT!Path(s)
<1>1. <<>> \in Seq(Ids) /\ FT!IsPrefix(<<>>, Trace(s))
  <2>1. <<>> \in Seq(Ids) /\ Len(<<>>) = 0 /\ Trace(s) \in Seq(Ids)
    BY TraceType
  <2>2. Len(<<>>) <= Len(Trace(s)) /\ \A i \in 1 .. Len(<<>>) : <<>>[i] = Trace(s)[i]
    BY <2>1
  <2>3. QED  BY <2>1, <2>2, PrefixOf
<1>2. QED  BY <1>1, PathIsPrefixes

\* What addSampleToTree makes of a tree that costs cost.
Nodes ==
  /\ cost \in [DOMAIN cost -> Int] /\ IsFiniteSet(DOMAIN cost)
  /\ <<>> \in DOMAIN cost /\ DOMAIN cost \subseteq Seq(Ids)
  /\ \A n \in DOMAIN cost : cost[n] >= 0 /\ (n # <<>> => FT!Front(n) \in DOMAIN cost)

Counted ==
  /\ taken \in Seq(Samples)
  /\ \A i \in 1 .. Len(taken) : FT!Path(taken[i]) \subseteq DOMAIN cost
  /\ \A n \in DOMAIN cost : cost[n] = CallsOn(n, taken)

LEMMA AddNodes ==
  ASSUME FT!FlameTreeAssumption, Nodes, NEW s \in Samples, FT!addSampleToTree(s)
  PROVE  /\ Nodes' /\ DOMAIN cost' = DOMAIN cost \cup FT!Path(s)
         /\ \A n \in DOMAIN cost' :
              cost'[n] = (IF n \in DOMAIN cost THEN cost[n] ELSE 0)
                           + (IF n \in FT!Path(s) THEN s.callCount ELSE 0)
<1>1. /\ cost' = [n \in DOMAIN cost \cup FT!Path(s) |->
                   (IF n \in DOMAIN cost THEN cost[n] ELSE 0)
                     + (IF n \in FT!Path(s) THEN s.callCount ELSE 0)]
      /\ s.callCount \in Nat
  BY DEF FT!addSampleToTree, FT!FlameTreeAssumption
<1>2. DOMAIN cost' = DOMAIN cost \cup FT!Path(s)
  BY <1>1
<1>3. IsFiniteSet(FT!Path(s)) /\ FT!Path(s) \subseteq Seq(Ids)
  BY PathIsPrefixes
<1>4. IsFiniteSet(DOMAIN cost') /\ DOMAIN cost' \subseteq Seq(Ids) /\ <<>> \in DOMAIN cost'
  BY <1>2, <1>3, FS_Union DEF Nodes
<1>5. \A n \in DOMAIN cost' : n # <<>> => FT!Front(n) \in DOMAIN cost'
  BY <1>2, FrontOfPath DEF Nodes
<1>6. \A n \in DOMAIN cost' : cost'[n] \in Int /\ cost'[n] >= 0
  BY <1>1 DEF Nodes
<1>7. Nodes'
  BY <1>1, <1>4, <1>5, <1>6 DEF Nodes
<1>8. QED  BY <1>1, <1>2, <1>7

LEMMA AddCounted ==
  ASSUME FT!FlameTreeAssumption, Nodes, Counted, NEW s \in Samples, FT!addSampleToTree(s),
         taken' = Append(taken, s)
  PROVE  Counted'
<1>1. /\ DOMAIN cost' = DOMAIN cost \cup FT!Path(s) /\ DOMAIN cost' \subseteq Seq(Ids)
      /\ \A n \in DOMAIN cost' :
           cost'[n] = (IF n \in DOMAIN cost THEN cost[n] ELSE 0)
                        + (IF n \in FT!Path(s) THEN s.callCount ELSE 0)
  BY AddNodes DEF Nodes
<1>2. taken' \in Seq(Samples)
  BY DEF Counted
<1>3. \A i \in 1 .. Len(taken') : FT!Path(taken'[i]) \subseteq DOMAIN cost'
  BY <1>1 DEF Counted
<1>4. ASSUME NEW n \in DOMAIN cost'
      PROVE  cost'[n] = CallsOn(n, taken')
  <2>1. CallsOn(n, taken') = CallsOn(n, taken) + Through(n, s)
    BY CallsAppend DEF Counted
  <2>2. n \in Seq(Ids) /\ (n \in FT!Path(s) <=> FT!IsPrefix(n, Trace(s)))
    BY <1>1, PathIsPrefixes
  <2>3. Through(n, s) = IF n \in FT!Path(s) THEN s.callCount ELSE 0
    BY <2>2 DEF Through, Trace
  <2>4. CallsOn(n, taken) = IF n \in DOMAIN cost THEN cost[n] ELSE 0
    <3>1. CASE n \in DOMAIN cost
      BY <3>1 DEF Counted
    <3>2. CASE n \notin DOMAIN cost
      <4>1. ASSUME NEW i \in 1 .. Len(taken)
            PROVE  Through(n, taken[i]) = 0
        <5>1. taken[i] \in Samples /\ FT!Path(taken[i]) \subseteq DOMAIN cost
          BY DEF Counted
        <5>2. ~FT!IsPrefix(n, Trace(taken[i]))
          BY <2>2, <3>2, <5>1, PathIsPrefixes
        <5>3. QED  BY <5>2 DEF Through, Trace
      <4>2. QED  BY <3>2, <4>1, CallsNone DEF Counted
    <3>3. QED  BY <3>1, <3>2
  <2>5. QED  BY <1>1, <2>1, <2>3, <2>4
<1>5. QED  BY <1>2, <1>3, <1>4 DEF Counted

(***************************************************************************)
(* The costs of the children of a node never exceed the node's own: a      *)
(* sample's path has at most one child of it, and then has it too.         *)
(***************************************************************************)
Kids(S, n) == { m \in S : Len(m) = Len(n) + 1 /\ FT!IsPrefix(n, m) }

LEMMA KidIs ==
  ASSUME NEW m \in Seq(Ids), NEW n \in Seq(Ids)
  PROVE  Len(m) = Len(n) + 1 /\ FT!IsPrefix(n, m) <=> m # <<>> /\ FT!Front(m) = n
<1>1. ASSUME Len(m) = Len(n) + 1, FT!IsPrefix(n, m)
      PROVE  m # <<>> /\ FT!Front(m) = n
  <2>1. m # <<>> /\ Len(n) \in Nat
    BY <1>1
  <2>2. /\ FT!Front(m) \in Seq(Ids) /\ Len(FT!Front(m)) = Len(m) - 1
        /\ \A i \in 1 .. Len(m) - 1 : FT!Front(m)[i] = m[i]
    BY <2>1, FrontType
  <2>3. \A i \in 1 .. Len(n) : n[i] = m[i]
    BY <1>1, PrefixOf
  <2> DEFINE f == FT!Front(m)
  <2> HIDE DEF f
  <2>4. f \in Seq(Ids) /\ Len(f) = Len(n) /\ \A i \in 1 .. Len(f) : f[i] = n[i]
    BY <1>1, <2>1, <2>2, <2>3 DEF f
  <2>5. f = n
    BY <2>4, SameSeq
  <2>6. QED  BY <2>1, <2>5 DEF f
<1>2. ASSUME m # <<>>, FT!Front(m) = n
      PROVE  Len(m) = Len(n) + 1 /\ FT!IsPrefix(n, m)
  <2>1. Len(n) = Len(m) - 1 /\ Len(m) >= 1 /\ \A i \in 1 .. Len(m) - 1 : n[i] = m[i]
    BY <1>2, FrontType
  <2>2. Len(m) \in Nat /\ Len(n) <= Len(m)
    BY <2>1
  <2>3. \A i \in 1 .. Len(n) : n[i] = m[i]
    BY <2>1
  <2>4. QED  BY <2>1, <2>2, <2>3, PrefixOf
<1>3. QED  BY <1>1, <1>2

LEMMA KidsOf ==
  ASSUME NEW S, S \subseteq Seq(Ids), NEW n \in Seq(Ids)
  PROVE  Kids(S, n) = { m \in S : m # <<>> /\ FT!Front(m) = n }
BY KidIs DEF Kids

PrefixClosed(S) == \A m \in S : m # <<>> => FT!Front(m) \in S

\* A tree S that costs f, with the sums g, gets c more on a path P: it is T and
\* costs h, with the sums k.
Grows(S, f, g, P, c, T, h, k) ==
  /\ S \subseteq Seq(Ids) /\ PrefixClosed(S) /\ P \subseteq Seq(Ids) /\ PrefixClosed(P)
  /\ \A m, n \in P : Len(m) = Len(n) => m = n
  /\ T = S \cup P /\ c \in Nat
  /\ IsSum(g, f, S) /\ IsSum(k, h, T)
  /\ \A n \in S : f[n] \in Int /\ f[n] >= 0 /\ g[Kids(S, n)] <= f[n]
  /\ \A n \in T : h[n] = (IF n \in S THEN f[n] ELSE 0) + (IF n \in P THEN c ELSE 0)

LEMMA KidsGrow ==
  ASSUME NEW S, NEW f, NEW g, NEW P, NEW c, NEW T, NEW h, NEW k, Grows(S, f, g, P, c, T, h, k),
         NEW n \in T
  PROVE  k[Kids(T, n)] <= h[n]
<1> DEFINE A == Kids(S, n)
           B == Kids(T, n)
<1>1. T \subseteq Seq(Ids) /\ S \subseteq T /\ S \subseteq Seq(Ids) /\ n \in Seq(Ids)
  BY DEF Grows
<1>2. A = { m \in S : m # <<>> /\ FT!Front(m) = n } /\ B = { m \in T : m # <<>> /\ FT!Front(m) = n }
  BY <1>1, KidsOf
<1>3. A \in SUBSET S /\ B \in SUBSET T /\ A \subseteq B
  BY <1>1, <1>2
<1>0. IsSum(g, f, S) /\ IsSum(k, h, T)
  BY DEF Grows
<1>sums. /\ \A s \in SUBSET S : g[s] \in Int
         /\ \A s \in SUBSET T : k[s] \in Int
         /\ g[{}] = 0
  BY <1>0 DEF IsSum, Recurs
<1>4. h[n] >= 0 /\ h[n] \in Int
  BY DEF Grows
<1>5. n \notin S => A = {}
  BY <1>2 DEF Grows, PrefixClosed
<1>6. g[A] <= (IF n \in S THEN f[n] ELSE 0) /\ g[A] \in Int
  <2>1. g[A] \in Int
    BY <1>3, <1>sums
  <2>2. n \in S => g[A] <= f[n]
    BY DEF Grows
  <2> HIDE DEF A
  <2>3. n \notin S => g[A] = 0
    BY <1>5, <1>sums
  <2>4. QED  BY <2>1, <2>2, <2>3
<1>7. /\ h[n] = (IF n \in S THEN f[n] ELSE 0) + (IF n \in P THEN c ELSE 0)
      /\ c \in Nat /\ (n \in S => f[n] \in Int)
  BY DEF Grows
<1>8. \A m \in B : m \notin P => m \in S /\ h[m] = f[m] /\ f[m] \in Int
  <2> SUFFICES ASSUME NEW m \in B, m \notin P
               PROVE  m \in S /\ h[m] = f[m] /\ f[m] \in Int
    OBVIOUS
  <2> HIDE DEF B
  <2>1. m \in T /\ m \in S /\ f[m] \in Int
    BY <1>3 DEF Grows
  <2>2. h[m] = f[m] + 0
    BY <2>1 DEF Grows
  <2>3. QED  BY <2>1, <2>2
<1>9. \A C \in SUBSET A : (\A m \in C : m \notin P) => k[C] <= g[C] /\ k[C] \in Int /\ g[C] \in Int
  <2> SUFFICES ASSUME NEW C \in SUBSET A, \A m \in C : m \notin P
               PROVE  k[C] <= g[C] /\ k[C] \in Int /\ g[C] \in Int
    OBVIOUS
  <2>1. C \in SUBSET S /\ C \in SUBSET T
    BY <1>3
  <2>2. \A m \in C : h[m] <= f[m]
    BY <1>3, <1>8
  <2>3. k[C] <= g[C]
    <3> HIDE DEF A, B
    <3>1. QED  BY <1>0, <2>1, <2>2, SumCompares
  <2>4. QED  BY <2>1, <2>3, <1>sums
<1>10. CASE \A m \in B : m \notin P
  <2>1. B = A
    <3>1. \A m \in B : m \in S
      BY <1>8, <1>10
    <3> HIDE DEF A, B
    <3>2. QED  BY <1>2, <1>3, <3>1
  <2>2. k[B] <= g[A] /\ k[B] \in Int
    BY <1>9, <1>10, <2>1
  <2> HIDE DEF A, B
  <2>3. k[B] <= h[n]
    BY <1>4, <1>6, <1>7, <2>2
  <2>4. QED  BY <2>3 DEF B
<1>11. CASE \E m \in B : m \in P
  <2>1. PICK m \in B : m \in P
    BY <1>11
  <2>2. n \in P /\ m \in T /\ m \in Seq(Ids) /\ Len(m) = Len(n) + 1
    BY <1>1, <1>2, <2>1 DEF Grows, PrefixClosed, Kids
  <2> DEFINE C == A \ {m}
  <2>3. \A x \in B : x # m => x \notin P
    <3>1. \A x \in B : Len(x) = Len(n) + 1
      BY DEF Kids
    <3>2. QED  BY <1>3, <2>1, <2>2, <3>1 DEF Grows
  <2>4. B = C \cup {m} /\ C \in SUBSET A /\ m \notin C /\ \A x \in C : x \notin P
    BY <1>2, <1>3, <1>8, <2>1, <2>3
  <2>5. k[C] <= g[C] /\ k[C] \in Int /\ g[C] \in Int
    BY <1>9, <2>4
  <2>6. C \in SUBSET S /\ C \in SUBSET T /\ m \in T /\ m \notin C
    <3> HIDE DEF A, B, C
    <3>1. QED  BY <1>3, <2>2, <2>4
  <2>7. k[B] = k[C] + h[m]
    <3> HIDE DEF A, B, C
    <3>1. k[C \cup {m}] = k[C] + h[m]
      BY <1>0, <2>6, SumElement
    <3>2. QED  BY <2>4, <3>1
  <2>8. h[m] = (IF m \in S THEN f[m] ELSE 0) + c /\ (m \in S => f[m] \in Int)
    BY <2>1, <2>6 DEF Grows
  <2>9. g[A] = g[C] + IF m \in S THEN f[m] ELSE 0
    <3>1. CASE m \in S
      <4>1. m \in A
        BY <1>2, <2>1, <3>1
      <4>2. A = C \cup {m} /\ m \in S /\ m \notin C /\ C \in SUBSET S
        <5> HIDE DEF A, B
        <5>1. QED  BY <1>3, <3>1, <4>1
      <4> HIDE DEF A, B, C
      <4>3. g[C \cup {m}] = g[C] + f[m]
        BY <1>0, <4>2, SumElement
      <4>4. QED  BY <3>1, <4>2, <4>3
    <3>2. CASE m \notin S
      <4>1. A = C
        <5> HIDE DEF A, B
        <5>1. QED  BY <1>3, <3>2
      <4> HIDE DEF A, B, C
      <4>2. QED  BY <2>5, <3>2, <4>1
    <3>3. QED  BY <3>1, <3>2
  <2> HIDE DEF A, B, C
  <2>10. k[B] <= h[n]
    BY <1>4, <1>6, <1>7, <2>2, <2>5, <2>7, <2>8, <2>9
  <2>11. QED  BY <2>10 DEF B
<1>12. QED  BY <1>10, <1>11

LEMMA OnePerRow ==
  ASSUME FT!FlameTreeAssumption, NEW s \in Samples, NEW m \in FT!Path(s), NEW n \in FT!Path(s),
         Len(m) = Len(n)
  PROVE  m = n
<1>1. /\ m \in Seq(Ids) /\ FT!IsPrefix(m, Trace(s)) /\ Trace(s) \in Seq(Ids)
      /\ n \in Seq(Ids) /\ FT!IsPrefix(n, Trace(s))
  BY PathIsPrefixes, TraceType
<1>2. \A i \in 1 .. Len(n) : m[i] = Trace(s)[i] /\ n[i] = Trace(s)[i]
  BY <1>1, PrefixOf
<1>3. \A i \in 1 .. Len(n) : n[i] = m[i]
  BY <1>2
<1>4. QED  BY <1>1, <1>3, SameSeq

Summed ==
  \A g : IsSum(g, cost, DOMAIN cost) => \A n \in DOMAIN cost : g[Kids(DOMAIN cost, n)] <= cost[n]

LEMMA AddSummed ==
  ASSUME FT!FlameTreeAssumption, Nodes, Summed, NEW s \in Samples, FT!addSampleToTree(s)
  PROVE  Summed'
<1> DEFINE S == DOMAIN cost
           T == DOMAIN cost'
           P == FT!Path(s)
<1>1. /\ Nodes' /\ T = S \cup P
      /\ \A n \in T : cost'[n] = (IF n \in S THEN cost[n] ELSE 0)
                                   + (IF n \in P THEN s.callCount ELSE 0)
  BY AddNodes
<1>2. PICK g : IsSum(g, cost, S)
  BY SumExists DEF Nodes
<1>3. P \subseteq Seq(Ids) /\ PrefixClosed(P) /\ \A m, n \in P : Len(m) = Len(n) => m = n
  BY PathIsPrefixes, FrontOfPath, OnePerRow DEF PrefixClosed
<1>4. S \subseteq Seq(Ids) /\ PrefixClosed(S)
  BY DEF Nodes, PrefixClosed
<1>5. \A n \in S : cost[n] \in Int /\ cost[n] >= 0 /\ g[Kids(S, n)] <= cost[n]
  BY <1>2 DEF Nodes, Summed
<1>6. s.callCount \in Nat
  BY DEF FT!FlameTreeAssumption
<1>7. ASSUME NEW k, IsSum(k, cost', T), NEW n \in T
      PROVE  k[Kids(T, n)] <= cost'[n]
  <2>1. Grows(S, cost, g, P, s.callCount, T, cost', k)
    <3> HIDE DEF S, T, P
    <3>1. QED  BY <1>1, <1>2, <1>3, <1>4, <1>5, <1>6, <1>7 DEF Grows
  <2> HIDE DEF S, T, P
  <2>2. QED  BY <2>1, KidsGrow
<1>8. QED  BY <1>7 DEF Summed

TreeInv == samples \in Seq(Samples) /\ Nodes /\ Counted /\ Summed

LEMMA InitTree ==
  ASSUME FT!FlameTreeAssumption, FT!Init
  PROVE  TreeInv
<1>1. samples \in Seq(Samples) /\ taken = <<>> /\ cost = [n \in {<<>>} |-> 0]
  BY DEF FT!Init, FT!Root, FT!FlameTreeAssumption
<1>2. DOMAIN cost = {<<>>} /\ cost[<<>>] = 0 /\ cost \in [{<<>>} -> Int]
  BY <1>1
<1>3. IsFiniteSet({<<>>}) /\ <<>> \in Seq(Ids)
  BY FS_Singleton
<1>4. Nodes
  BY <1>2, <1>3 DEF Nodes
<1>5. Counted
  <2>1. taken \in Seq(Samples) /\ Len(taken) = 0
    BY <1>1
  <2>2. \A n : CallsOn(n, taken) = 0
    <3> TAKE n
    <3>1. \A i \in 1 .. Len(taken) : Through(n, taken[i]) = 0
      BY <2>1
    <3>2. QED  BY <2>1, <3>1, CallsNone
  <2>3. QED  BY <1>2, <2>1, <2>2 DEF Counted
<1>6. Summed
  <2> SUFFICES ASSUME NEW g, IsSum(g, cost, DOMAIN cost), NEW n \in DOMAIN cost
               PROVE  g[Kids(DOMAIN cost, n)] <= cost[n]
    BY DEF Summed
  <2>1. Kids(DOMAIN cost, n) = {}
    BY <1>2 DEF Kids
  <2>2. g[{}] = 0
    BY DEF IsSum, Recurs
  <2>3. QED  BY <1>2, <2>1, <2>2
<1>7. QED  BY <1>1, <1>4, <1>5, <1>6 DEF TreeInv

LEMMA NextTree ==
  ASSUME FT!FlameTreeAssumption, TreeInv, [FT!Next]_(FT!vars)
  PROVE  TreeInv'
<1>1. CASE FT!AddSample
  <2>1. samples' \in Seq(Samples) /\ Head(samples) \in Samples
    BY <1>1 DEF FT!AddSample, TreeInv
  <2>2. CASE Head(samples).frames = <<>>
    BY <1>1, <2>1, <2>2 DEF FT!AddSample, TreeInv, Nodes, Counted, Summed
  <2>3. CASE Head(samples).frames # <<>>
    <3>1. FT!addSampleToTree(Head(samples)) /\ taken' = Append(taken, Head(samples))
      BY <1>1, <2>3 DEF FT!AddSample
    <3>2. Nodes' /\ Counted' /\ Summed'
      BY <2>1, <3>1, AddNodes, AddCounted, AddSummed DEF TreeInv
    <3>3. QED  BY <2>1, <3>2 DEF TreeInv
  <2>4. QED  BY <2>2, <2>3
<1>2. CASE UNCHANGED <<samples, taken, cost>>
  BY <1>2 DEF TreeInv, Nodes, Counted, Summed
<1>3. [FT!Next]_(FT!vars) => FT!AddSample \/ UNCHANGED <<samples, taken, cost>>
  BY DEF FT!Next, FT!vars, FT!Show, FT!resetNode, FT!Resize
<1>4. QED  BY <1>1, <1>2, <1>3

LEMMA TreeShows ==
  ASSUME TreeInv
  PROVE  FT!CostsAddUp
BY DEF TreeInv, Counted, CallsOn, FT!CostsAddUp

(***************************************************************************)
(* The layout, counted in costs: begin and end of a node below root.       *)
(***************************************************************************)
Laid(g) ==
  /\ Nodes /\ IsSum(g, cost, DOMAIN cost)
  /\ \A n \in DOMAIN cost : g[Kids(DOMAIN cost, n)] <= cost[n]

\* A sum that the layout takes.
LEMMA SumTaken ==
  ASSUME NEW g, Laid(g), NEW E \in SUBSET DOMAIN cost
  PROVE  FT!MapThenSumSet(LAMBDA m : cost[m], E) = g[E] /\ g[E] \in Int
<1> DEFINE f == [m \in E |-> cost[m]]
           D(h) == [s \in SUBSET E |->
                      IF s = {} THEN 0 ELSE cost[CHOOSE x \in s : TRUE] + h[Rest(s)]]
           G == CHOOSE h : h = D(h)
<1>1. IsFiniteSet(E) /\ f \in [E -> Int] /\ \A m \in E : f[m] = cost[m]
  BY FS_Subset DEF Laid, Nodes
<1>2. PICK h : IsSum(h, f, E)
  BY <1>1, SumExists
<1>3. \A s \in SUBSET E : s # {} => (CHOOSE x \in s : TRUE) \in E /\ f[CHOOSE x \in s : TRUE] = cost[CHOOSE x \in s : TRUE]
  BY <1>1
<1> HIDE DEF f
<1>4. h = D(h)
  BY <1>2, <1>3 DEF IsSum, Recurs
<1>5. G = D(G)
  BY <1>4
<1>6. FT!MapThenSumSet(LAMBDA m : cost[m], E) = G[E]
  BY DEF FT!MapThenSumSet, FT!MapThenFoldSet, Rest
<1> HIDE DEF G
<1>7. DOMAIN G = SUBSET E /\ G = [s \in DOMAIN G |-> G[s]]
  BY <1>5
<1>8. \A s \in SUBSET E : Recurs(G, f, s)
  BY <1>3, <1>5 DEF Recurs
<1>9. IsSum(G, f, E)
  <2> HIDE DEF D
  <2>1. QED  BY <1>1, <1>7, <1>8, SumUnrolls
<1>10. IsSum(g, cost, DOMAIN cost) /\ \A m \in E : cost[m] \in Int
  BY DEF Laid, Nodes
<1>11. E \in SUBSET E
  OBVIOUS
<1>12. G[E] <= g[E]
  <2>1. \A m \in E : f[m] <= cost[m]
    BY <1>1, <1>10
  <2>2. QED  BY <1>9, <1>10, <1>11, <2>1, SumCompares
<1>13. g[E] <= G[E]
  <2>1. \A m \in E : cost[m] <= f[m]
    BY <1>1, <1>10
  <2>2. QED  BY <1>9, <1>10, <1>11, <2>1, SumCompares
<1>14. G[E] \in Int /\ g[E] \in Int
  BY <1>9, <1>10, <1>11 DEF IsSum
<1>15. QED  BY <1>6, <1>12, <1>13, <1>14

\* m is an elder sibling of n or of an ancestor of n: they part at the last id
\* of m.
Elder(m, n) ==
  /\ Len(m) \in 1 .. Len(n) /\ m[Len(m)] < n[Len(m)]
  /\ \A i \in 1 .. Len(m) - 1 : m[i] = n[i]

LEMMA ElderIs ==
  ASSUME Nodes, NEW root \in DOMAIN cost, NEW n \in DOMAIN cost, FT!IsPrefix(root, n)
  PROVE  FT!Elders(root, n) = { m \in DOMAIN cost : Elder(m, n) /\ Len(m) > Len(root) }
<1> DEFINE At(k) == { m \in FT!Children(SubSeq(n, 1, k - 1)) : m[k] < n[k] }
<1>1. /\ DOMAIN cost \subseteq Seq(Ids) /\ n \in Seq(Ids) /\ root \in Seq(Ids)
      /\ Len(root) \in Nat /\ Len(n) \in Nat
  BY DEF Nodes
<1>2. FT!Elders(root, n) = UNION { At(k) : k \in Len(root) + 1 .. Len(n) }
  BY DEF FT!Elders
<1>3. ASSUME NEW k \in Len(root) + 1 .. Len(n), NEW m \in DOMAIN cost
      PROVE  m \in At(k) <=> Len(m) = k /\ Elder(m, n)
  <2> DEFINE p == SubSeq(n, 1, k - 1)
  <2>1. k - 1 \in 0 .. Len(n) /\ k \in 1 .. Len(n) /\ m \in Seq(Ids)
    BY <1>1
  <2>2. p \in Seq(Ids) /\ Len(p) = k - 1 /\ \A i \in 1 .. k - 1 : p[i] = n[i]
    BY <1>1, <2>1, Cut
  <2>3. m \in At(k) <=> Len(m) = Len(p) + 1 /\ FT!IsPrefix(p, m) /\ m[k] < n[k]
    BY DEF FT!Children
  <2> HIDE DEF p, At
  <2>4. FT!IsPrefix(p, m) <=> Len(p) <= Len(m) /\ \A i \in 1 .. Len(p) : p[i] = m[i]
    BY <2>1, <2>2, PrefixOf
  <2>5. Len(m) = Len(p) + 1 <=> Len(m) = k
    BY <2>1, <2>2
  <2>6. Len(m) = k => (FT!IsPrefix(p, m) <=> \A i \in 1 .. Len(m) - 1 : m[i] = n[i])
    <3>1. \A i \in 1 .. Len(p) : p[i] = n[i]
      BY <2>2
    <3>2. Len(m) = k => Len(m) - 1 = Len(p) /\ Len(p) <= Len(m)
      BY <2>1, <2>2
    <3>3. QED  BY <2>4, <3>1, <3>2
  <2>7. QED  BY <2>1, <2>3, <2>5, <2>6 DEF Elder
<1>4. \A k : At(k) \subseteq DOMAIN cost
  BY DEF FT!Children
<1> HIDE DEF At
<1>5. \A m \in DOMAIN cost : Elder(m, n) /\ Len(m) > Len(root) <=> Elder(m, n) /\ Len(m) \in Len(root) + 1 .. Len(n)
  BY <1>1 DEF Elder
<1>6. QED  BY <1>2, <1>3, <1>4, <1>5

\* The elder siblings of n.
ElderSiblings(n) ==
  { m \in DOMAIN cost : m # <<>> /\ FT!Front(m) = FT!Front(n) /\ m[Len(m)] < n[Len(n)] }

LEMMA Caller ==
  ASSUME Nodes, NEW root \in DOMAIN cost, NEW n \in DOMAIN cost, FT!IsPrefix(root, n), n # root
  PROVE  /\ n # <<>> /\ FT!Front(n) \in DOMAIN cost /\ FT!IsPrefix(root, FT!Front(n))
         /\ Len(n) > Len(root) /\ Len(FT!Front(n)) = Len(n) - 1
<1>1. n \in Seq(Ids) /\ root \in Seq(Ids) /\ Len(n) \in Nat /\ Len(root) \in Nat
  BY DEF Nodes
<1>2. Len(root) <= Len(n) /\ \A i \in 1 .. Len(root) : root[i] = n[i]
  BY <1>1, PrefixOf
<1>3. Len(root) # Len(n)
  <2>1. Len(n) = Len(root) => n = root
    BY <1>1, <1>2, SameSeq
  <2>2. QED  BY <2>1
<1>4. n # <<>>
  BY <1>1, <1>2, <1>3
<1> DEFINE p == FT!Front(n)
<1>5. p \in DOMAIN cost
  BY <1>4 DEF Nodes
<1>6. p \in Seq(Ids) /\ Len(p) = Len(n) - 1 /\ \A i \in 1 .. Len(n) - 1 : p[i] = n[i]
  BY <1>1, <1>4, FrontType
<1> HIDE DEF p
<1>7. Len(root) <= Len(p) /\ \A i \in 1 .. Len(root) : root[i] = p[i]
  BY <1>1, <1>2, <1>3, <1>6
<1>8. FT!IsPrefix(root, p)
  BY <1>1, <1>6, <1>7, PrefixOf
<1>9. QED  BY <1>1, <1>2, <1>3, <1>4, <1>5, <1>6, <1>8 DEF p

LEMMA EldersOfCaller ==
  ASSUME Nodes, NEW root \in DOMAIN cost, NEW n \in DOMAIN cost, FT!IsPrefix(root, n), n # root
  PROVE  /\ FT!Elders(root, n) = FT!Elders(root, FT!Front(n)) \cup ElderSiblings(n)
         /\ FT!Elders(root, FT!Front(n)) \cap ElderSiblings(n) = {}
         /\ FT!Elders(root, FT!Front(n)) \subseteq DOMAIN cost
<1> DEFINE p == FT!Front(n)
<1>1. /\ n # <<>> /\ p \in DOMAIN cost /\ FT!IsPrefix(root, p)
      /\ Len(n) > Len(root) /\ Len(p) = Len(n) - 1
  BY Caller
<1>2. /\ DOMAIN cost \subseteq Seq(Ids) /\ n \in Seq(Ids) /\ p \in Seq(Ids)
      /\ Len(n) \in Nat /\ Len(root) \in Nat /\ Len(p) \in Nat
      /\ \A i \in 1 .. Len(n) - 1 : p[i] = n[i]
  BY <1>1, FrontType DEF Nodes
<1>3. /\ FT!Elders(root, n) = { m \in DOMAIN cost : Elder(m, n) /\ Len(m) > Len(root) }
      /\ FT!Elders(root, p) = { m \in DOMAIN cost : Elder(m, p) /\ Len(m) > Len(root) }
  BY <1>1, ElderIs
<1>4. ASSUME NEW m \in DOMAIN cost
      PROVE  /\ Elder(m, p) <=> Elder(m, n) /\ Len(m) < Len(n)
             /\ m \in ElderSiblings(n) <=> Elder(m, n) /\ Len(m) = Len(n)
  <2>1. m \in Seq(Ids) /\ Len(m) \in Nat
    BY <1>2
  <2> DEFINE q == FT!Front(m)
  <2>2. m # <<>> => /\ q \in Seq(Ids) /\ Len(q) = Len(m) - 1 /\ Len(m) >= 1
                    /\ \A i \in 1 .. Len(m) - 1 : q[i] = m[i]
    BY <2>1, FrontType
  <2>3. m \in ElderSiblings(n) <=> m # <<>> /\ q = p /\ m[Len(m)] < n[Len(n)]
    BY DEF ElderSiblings
  <2> HIDE DEF p, q
  <2>4. Elder(m, p) <=> Elder(m, n) /\ Len(m) < Len(n)
    BY <1>1, <1>2, <2>1 DEF Elder
  <2>5. ASSUME m \in ElderSiblings(n)
        PROVE  Elder(m, n) /\ Len(m) = Len(n)
    BY <1>1, <1>2, <2>1, <2>2, <2>3, <2>5 DEF Elder
  <2>6. ASSUME Elder(m, n), Len(m) = Len(n)
        PROVE  m \in ElderSiblings(n)
    <3>1. m # <<>>
      BY <2>1, <2>6 DEF Elder
    <3>2. Len(q) = Len(p) /\ \A i \in 1 .. Len(q) : q[i] = p[i]
      BY <1>1, <1>2, <2>2, <2>6, <3>1 DEF Elder
    <3>3. q = p
      BY <1>2, <2>2, <3>1, <3>2, SameSeq
    <3>4. QED  BY <2>3, <2>6, <3>1, <3>3 DEF Elder
  <2>7. QED  BY <2>4, <2>5, <2>6
<1>5. \A m \in DOMAIN cost : Elder(m, n) => Len(m) \in Nat /\ Len(m) <= Len(n)
  BY <1>2 DEF Elder
<1>6. ElderSiblings(n) \subseteq DOMAIN cost
  BY DEF ElderSiblings
<1> HIDE DEF p
<1>7. FT!Elders(root, n) = FT!Elders(root, p) \cup ElderSiblings(n)
  BY <1>1, <1>2, <1>3, <1>4, <1>5, <1>6
<1>8. FT!Elders(root, p) \cap ElderSiblings(n) = {}
  BY <1>2, <1>3, <1>4, <1>6
<1>9. QED  BY <1>3, <1>7, <1>8 DEF p

BeginOf(g, root, n) == g[FT!Elders(root, n)]

LEMMA BeginIs ==
  ASSUME NEW g, Laid(g), NEW root \in DOMAIN cost, NEW n \in DOMAIN cost, FT!IsPrefix(root, n)
  PROVE  FT!Begin(root, n) = BeginOf(g, root, n) /\ BeginOf(g, root, n) \in Int
<1>1. FT!Elders(root, n) \in SUBSET DOMAIN cost
  BY ElderIs DEF Laid
<1>2. QED  BY <1>1, SumTaken DEF FT!Begin, BeginOf

\* A node lies within its caller, and what a caller calls lies side by side.
LEMMA WithinCaller ==
  ASSUME NEW g, Laid(g), NEW root \in DOMAIN cost, NEW n \in DOMAIN cost, FT!IsPrefix(root, n), n # root
  PROVE  /\ BeginOf(g, root, n) = BeginOf(g, root, FT!Front(n)) + g[ElderSiblings(n)]
         /\ BeginOf(g, root, FT!Front(n)) <= BeginOf(g, root, n)
         /\ BeginOf(g, root, n) + cost[n] <= BeginOf(g, root, FT!Front(n)) + cost[FT!Front(n)]
<1> DEFINE N == DOMAIN cost
           p == FT!Front(n)
           E == ElderSiblings(n)
           K == Kids(N, p)
<1>1. Nodes /\ IsSum(g, cost, N) /\ \A m \in N : cost[m] \in Int /\ cost[m] >= 0
  BY DEF Laid, Nodes
<1>2. n # <<>> /\ p \in N /\ FT!IsPrefix(root, p)
  BY <1>1, Caller
<1>3. N \subseteq Seq(Ids)
  BY <1>1 DEF Nodes
<1>4. K = { m \in N : m # <<>> /\ FT!Front(m) = p }
  BY <1>2, <1>3, KidsOf
<1>5. E \in SUBSET N /\ n \notin E /\ n \in N /\ K \in SUBSET N /\ E \cup {n} \in SUBSET K
  <2>1. n[Len(n)] \in Nat
    <3>1. Len(n) \in 1 .. Len(n) /\ n \in Seq(Ids)
      BY <1>2, <1>3
    <3>2. QED  BY <3>1 DEF Ids
  <2>2. ~(n[Len(n)] < n[Len(n)])
    BY <2>1
  <2>3. QED  BY <1>2, <1>4, <2>2 DEF ElderSiblings
<1>6. /\ FT!Elders(root, n) = FT!Elders(root, p) \cup E
      /\ FT!Elders(root, p) \cap E = {}
      /\ FT!Elders(root, p) \in SUBSET N
  BY <1>1, EldersOfCaller
<1>7. g[K] <= cost[p]
  BY <1>2 DEF Laid
<1> HIDE DEF N, p, E, K
<1>8. BeginOf(g, root, n) = BeginOf(g, root, p) + g[E]
  BY <1>1, <1>5, <1>6, SumUnion DEF BeginOf
<1>9. g[E \cup {n}] = g[E] + cost[n]
  BY <1>1, <1>5, SumElement
<1>10. g[E \cup {n}] <= g[K]
  <2>1. E \cup {n} \subseteq K
    BY <1>5
  <2>2. QED  BY <1>1, <1>5, <2>1, SumGrows
<1>11. 0 <= g[E] /\ g[E] \in Int
  BY <1>1, <1>5, SumGrows
<1>12. g[K] \in Int
  BY <1>1, <1>5, SumGrows
<1>13. BeginOf(g, root, p) \in Int /\ cost[n] \in Int /\ cost[p] \in Int
  BY <1>1, <1>2, <1>5, BeginIs DEF N
<1>14. BeginOf(g, root, p) <= BeginOf(g, root, n)
  BY <1>8, <1>11, <1>13
<1>15. BeginOf(g, root, n) + cost[n] <= BeginOf(g, root, p) + cost[p]
  BY <1>7, <1>8, <1>9, <1>10, <1>11, <1>12, <1>13
<1>16. QED  BY <1>8, <1>14, <1>15 DEF p, E

LEMMA SideBySide ==
  ASSUME NEW g, Laid(g), NEW root \in DOMAIN cost,
         NEW m \in DOMAIN cost, FT!IsPrefix(root, m), m # root,
         NEW n \in DOMAIN cost, FT!IsPrefix(root, n), n # root,
         FT!Front(m) = FT!Front(n), m[Len(m)] < n[Len(n)]
  PROVE  BeginOf(g, root, m) + cost[m] <= BeginOf(g, root, n)
<1> DEFINE E == ElderSiblings(m)
           F == ElderSiblings(n)
<1>1. /\ Nodes /\ IsSum(g, cost, DOMAIN cost) /\ DOMAIN cost \subseteq Seq(Ids)
      /\ \A k \in DOMAIN cost : cost[k] \in Int /\ cost[k] >= 0
  BY DEF Laid, Nodes
<1>2. m # <<>> /\ n # <<>>
  BY <1>1, Caller
<1>3. \A k \in DOMAIN cost : k # <<>> => k[Len(k)] \in Nat
  <2> SUFFICES ASSUME NEW k \in DOMAIN cost, k # <<>> PROVE k[Len(k)] \in Nat
    OBVIOUS
  <2>1. Len(k) \in 1 .. Len(k) /\ k \in Seq(Ids)
    BY <1>1
  <2>2. QED  BY <2>1 DEF Ids
<1>4. E \in SUBSET DOMAIN cost /\ F \in SUBSET DOMAIN cost /\ m \notin E /\ E \cup {m} \subseteq F
  BY <1>2, <1>3 DEF ElderSiblings
<1>5. /\ BeginOf(g, root, m) = BeginOf(g, root, FT!Front(m)) + g[E]
      /\ BeginOf(g, root, n) = BeginOf(g, root, FT!Front(m)) + g[F]
  BY WithinCaller
<1>6. BeginOf(g, root, FT!Front(m)) \in Int
  BY <1>1, Caller, BeginIs
<1> HIDE DEF E, F
<1>7. g[E \cup {m}] = g[E] + cost[m]
  <2> DEFINE N == DOMAIN cost
  <2>1. IsSum(g, cost, N) /\ E \in SUBSET N /\ m \in N /\ m \notin E
    BY <1>1, <1>4
  <2> HIDE DEF N
  <2>2. QED  BY <2>1, SumElement
<1>8. g[E \cup {m}] <= g[F] /\ g[F] \in Int
  BY <1>1, <1>4, SumGrows
<1>9. g[E] \in Int /\ cost[m] \in Int
  BY <1>1, <1>4, SumGrows
<1>10. QED  BY <1>5, <1>6, <1>7, <1>8, <1>9

LEMMA BeginOfRoot ==
  ASSUME NEW g, Laid(g), NEW root \in DOMAIN cost
  PROVE  BeginOf(g, root, root) = 0 /\ FT!IsPrefix(root, root)
<1>1. Nodes /\ root \in Seq(Ids) /\ Len(root) \in Nat
  BY DEF Laid, Nodes
<1>2. FT!IsPrefix(root, root)
  BY <1>1, PrefixOf
<1>3. FT!Elders(root, root) = {}
  BY <1>1, <1>2, ElderIs DEF Elder
<1>4. g[{}] = 0
  BY DEF Laid, IsSum, Recurs
<1>5. QED  BY <1>2, <1>3, <1>4 DEF BeginOf

\* Everything below root lies within its cost: of what did not, the caller would
\* not either.
Outside(g, root, m) ==
  /\ m \in DOMAIN cost /\ FT!IsPrefix(root, m)
  /\ ~(0 <= BeginOf(g, root, m) /\ BeginOf(g, root, m) + cost[m] <= cost[root])

LEMMA OutsideAbove ==
  ASSUME NEW g, Laid(g), NEW root \in DOMAIN cost, NEW m, Outside(g, root, m)
  PROVE  Outside(g, root, FT!Front(m)) /\ Len(FT!Front(m)) = Len(m) - 1
<1>1. Nodes /\ m \in DOMAIN cost /\ FT!IsPrefix(root, m)
  BY DEF Laid, Outside
<1>2. cost[m] \in Int /\ cost[root] \in Int
  BY <1>1 DEF Nodes
<1>3. m # root
  BY <1>2, BeginOfRoot DEF Outside
<1> DEFINE p == FT!Front(m)
<1>4. p \in DOMAIN cost /\ FT!IsPrefix(root, p) /\ Len(p) = Len(m) - 1
  BY <1>1, <1>3, Caller
<1>5. /\ BeginOf(g, root, p) <= BeginOf(g, root, m)
      /\ BeginOf(g, root, m) + cost[m] <= BeginOf(g, root, p) + cost[p]
  BY <1>1, <1>3, WithinCaller
<1> HIDE DEF p
<1>6. cost[p] \in Int /\ BeginOf(g, root, p) \in Int /\ BeginOf(g, root, m) \in Int
  BY <1>1, <1>4, BeginIs DEF Nodes
<1>7. ~(0 <= BeginOf(g, root, p) /\ BeginOf(g, root, p) + cost[p] <= cost[root])
  BY <1>2, <1>5, <1>6 DEF Outside
<1>8. QED  BY <1>4, <1>7 DEF Outside, p

LEMMA WithinRoot ==
  ASSUME NEW g, Laid(g), NEW root \in DOMAIN cost, NEW m
  PROVE  ~Outside(g, root, m)
<1> DEFINE Bad == { l \in Nat : \E x \in DOMAIN cost : Len(x) = l /\ Outside(g, root, x) }
<1> SUFFICES ASSUME Outside(g, root, m) PROVE FALSE
  OBVIOUS
<1>1. m \in DOMAIN cost /\ Len(m) \in Nat
  BY DEF Outside, Laid, Nodes
<1>2. PICK l \in Bad : \A i \in Bad : l <= i
  <2>1. Bad \in SUBSET Nat /\ Bad # {}
    BY <1>1
  <2> HIDE DEF Bad
  <2>2. QED  BY <2>1, LeastNatural
<1>3. PICK x \in DOMAIN cost : Len(x) = l /\ Outside(g, root, x)
  BY <1>2
<1> DEFINE p == FT!Front(x)
<1>4. Outside(g, root, p) /\ Len(p) = l - 1
  BY <1>3, OutsideAbove
<1> HIDE DEF p
<1>5. p \in DOMAIN cost /\ Len(p) \in Nat
  BY <1>4 DEF Outside, Laid, Nodes
<1>6. l - 1 \in Bad
  BY <1>4, <1>5
<1> HIDE DEF Bad
<1>7. l \in Nat
  BY <1>2 DEF Bad
<1>8. QED  BY <1>2, <1>6, <1>7

Beside(g, root, m, n) ==
  \/ BeginOf(g, root, m) + cost[m] <= BeginOf(g, root, n)
  \/ BeginOf(g, root, n) + cost[n] <= BeginOf(g, root, m)

LEMMA SiblingsApart ==
  ASSUME NEW g, Laid(g), NEW root \in DOMAIN cost,
         NEW m \in DOMAIN cost, FT!IsPrefix(root, m), m # root,
         NEW n \in DOMAIN cost, FT!IsPrefix(root, n), n # root,
         m # n, FT!Front(m) = FT!Front(n)
  PROVE  Beside(g, root, m, n)
<1>1. Nodes /\ m \in Seq(Ids) /\ n \in Seq(Ids)
  BY DEF Laid, Nodes
<1>2. m # <<>> /\ n # <<>>
  BY <1>1, Caller
<1>3. /\ Len(m) = Len(n) /\ Len(m) \in Nat /\ Len(m) >= 1
      /\ \A i \in 1 .. Len(m) - 1 : m[i] = n[i]
  <2> DEFINE p == FT!Front(m)
  <2>1. /\ Len(p) = Len(m) - 1 /\ Len(m) >= 1 /\ \A i \in 1 .. Len(m) - 1 : p[i] = m[i]
        /\ Len(p) = Len(n) - 1 /\ Len(n) >= 1 /\ \A i \in 1 .. Len(n) - 1 : p[i] = n[i]
    BY <1>1, <1>2, FrontType
  <2> HIDE DEF p
  <2>2. Len(m) \in Nat /\ Len(n) \in Nat
    BY <1>1
  <2>3. Len(m) = Len(n)
    BY <2>1, <2>2
  <2>4. QED  BY <2>1, <2>2, <2>3
<1>4. m[Len(m)] \in Nat /\ n[Len(n)] \in Nat
  <2>1. Len(m) \in 1 .. Len(m) /\ Len(n) \in 1 .. Len(n)
    BY <1>3
  <2>2. QED  BY <1>1, <2>1 DEF Ids
<1>5. m[Len(m)] # n[Len(n)]
  <2>1. SUFFICES ASSUME m[Len(m)] = n[Len(n)] PROVE FALSE
    OBVIOUS
  <2>2. \A i \in 1 .. Len(n) : i \in 1 .. Len(m) - 1 \/ i = Len(m)
    BY <1>3
  <2>3. \A i \in 1 .. Len(n) : n[i] = m[i]
    BY <1>3, <2>1, <2>2
  <2>4. QED  BY <1>1, <1>3, <2>3, SameSeq
<1>6. m[Len(m)] < n[Len(n)] \/ n[Len(n)] < m[Len(m)]
  BY <1>4, <1>5
<1>7. m[Len(m)] < n[Len(n)] => BeginOf(g, root, m) + cost[m] <= BeginOf(g, root, n)
  BY SideBySide
<1>8. n[Len(n)] < m[Len(m)] => BeginOf(g, root, n) + cost[n] <= BeginOf(g, root, m)
  BY SideBySide
<1>9. QED  BY <1>6, <1>7, <1>8 DEF Beside

LEMMA CousinsApart ==
  ASSUME NEW g, Laid(g), NEW root \in DOMAIN cost,
         NEW m \in DOMAIN cost, FT!IsPrefix(root, m), m # root,
         NEW n \in DOMAIN cost, FT!IsPrefix(root, n), n # root,
         Beside(g, root, FT!Front(m), FT!Front(n))
  PROVE  Beside(g, root, m, n)
<1> DEFINE p == FT!Front(m)
           q == FT!Front(n)
<1>1. p \in DOMAIN cost /\ FT!IsPrefix(root, p) /\ q \in DOMAIN cost /\ FT!IsPrefix(root, q)
  BY Caller DEF Laid
<1>2. \A x \in DOMAIN cost : cost[x] \in Int /\ (FT!IsPrefix(root, x) => BeginOf(g, root, x) \in Int)
  BY BeginIs DEF Laid, Nodes
<1>3. /\ BeginOf(g, root, p) <= BeginOf(g, root, m)
      /\ BeginOf(g, root, m) + cost[m] <= BeginOf(g, root, p) + cost[p]
      /\ BeginOf(g, root, q) <= BeginOf(g, root, n)
      /\ BeginOf(g, root, n) + cost[n] <= BeginOf(g, root, q) + cost[q]
  BY WithinCaller
<1>4. Beside(g, root, p, q)
  OBVIOUS
<1> HIDE DEF p, q
<1>5. /\ BeginOf(g, root, p) \in Int /\ cost[p] \in Int /\ BeginOf(g, root, m) \in Int /\ cost[m] \in Int
      /\ BeginOf(g, root, q) \in Int /\ cost[q] \in Int /\ BeginOf(g, root, n) \in Int /\ cost[n] \in Int
  BY <1>1, <1>2
<1>6. QED  BY <1>3, <1>4, <1>5 DEF Beside

\* Two nodes of a row lie side by side: of two that did not, the callers, which
\* are in the row above, would not either.
Clash(g, root, r) ==
  /\ r[1] \in DOMAIN cost /\ FT!IsPrefix(root, r[1])
  /\ r[2] \in DOMAIN cost /\ FT!IsPrefix(root, r[2])
  /\ Len(r[1]) = Len(r[2]) /\ r[1] # r[2] /\ ~Beside(g, root, r[1], r[2])

LEMMA ClashAbove ==
  ASSUME NEW g, Laid(g), NEW root \in DOMAIN cost, NEW x, NEW y, Clash(g, root, <<x, y>>)
  PROVE  Clash(g, root, <<FT!Front(x), FT!Front(y)>>) /\ Len(FT!Front(x)) = Len(x) - 1
<1>1. Nodes /\ \A z \in DOMAIN cost : Len(z) \in Nat
  BY DEF Laid, Nodes
<1>2. /\ x \in DOMAIN cost /\ FT!IsPrefix(root, x) /\ y \in DOMAIN cost /\ FT!IsPrefix(root, y)
      /\ Len(x) = Len(y) /\ x # y /\ ~Beside(g, root, x, y)
  BY DEF Clash
<1>3. x # root /\ y # root
  <2>1. \A z \in DOMAIN cost : FT!IsPrefix(root, z) /\ z # root => Len(z) # Len(root)
    BY <1>1, Caller
  <2>2. QED  BY <1>2, <2>1
<1>4. /\ FT!Front(x) \in DOMAIN cost /\ FT!IsPrefix(root, FT!Front(x)) /\ Len(FT!Front(x)) = Len(x) - 1
      /\ FT!Front(y) \in DOMAIN cost /\ FT!IsPrefix(root, FT!Front(y)) /\ Len(FT!Front(y)) = Len(y) - 1
  BY <1>1, <1>2, <1>3, Caller
<1>5. FT!Front(x) # FT!Front(y)
  BY <1>2, <1>3, SiblingsApart
<1>6. ~Beside(g, root, FT!Front(x), FT!Front(y))
  BY <1>2, <1>3, CousinsApart
<1>7. QED  BY <1>2, <1>4, <1>5, <1>6 DEF Clash

LEMMA RowApart ==
  ASSUME NEW g, Laid(g), NEW root \in DOMAIN cost, NEW m, NEW n
  PROVE  ~Clash(g, root, <<m, n>>)
<1> DEFINE Bad == { l \in Nat : \E x, y \in DOMAIN cost : Len(x) = l /\ Clash(g, root, <<x, y>>) }
<1> SUFFICES ASSUME Clash(g, root, <<m, n>>) PROVE FALSE
  OBVIOUS
<1>1. m \in DOMAIN cost /\ n \in DOMAIN cost /\ Len(m) \in Nat
  BY DEF Clash, Laid, Nodes
<1>2. PICK l \in Bad : \A i \in Bad : l <= i
  <2>1. Bad \in SUBSET Nat /\ Bad # {}
    BY <1>1
  <2> HIDE DEF Bad
  <2>2. QED  BY <2>1, LeastNatural
<1>3. PICK x, y \in DOMAIN cost : Len(x) = l /\ Clash(g, root, <<x, y>>)
  BY <1>2
<1> DEFINE p == FT!Front(x)
           q == FT!Front(y)
<1>4. Clash(g, root, <<p, q>>) /\ Len(p) = l - 1
  BY <1>3, ClashAbove
<1> HIDE DEF p, q
<1>5. p \in DOMAIN cost /\ q \in DOMAIN cost /\ Len(p) \in Nat
  BY <1>4 DEF Clash, Laid, Nodes
<1>6. l - 1 \in Bad
  BY <1>4, <1>5
<1> HIDE DEF Bad
<1>7. l \in Nat
  BY <1>2 DEF Bad
<1>8. QED  BY <1>2, <1>6, <1>7

(***************************************************************************)
(* The layout in pixels, which are quotients of costs.                     *)
(***************************************************************************)
LEMMA TimesMono ==
  ASSUME NEW a \in Int, NEW b \in Int, NEW w \in Nat, a <= b
  PROVE  a * w <= b * w
OBVIOUS

LEMMA Quotient ==
  ASSUME NEW x \in Int, NEW d \in Nat \ {0}
  PROVE  x \div d \in Int /\ d * (x \div d) <= x /\ x < d * (x \div d) + d
OBVIOUS

LEMMA DivMono ==
  ASSUME NEW x \in Int, NEW y \in Int, NEW d \in Nat \ {0}, x <= y
  PROVE  x \div d <= y \div d
OBVIOUS

LEMMA DivSum ==
  ASSUME NEW x \in Int, NEW y \in Int, NEW d \in Nat \ {0}
  PROVE  /\ (x \div d) + (y \div d) <= (x + y) \div d
         /\ (x + y) \div d <= (x \div d) + (y \div d) + 1
OBVIOUS

Whole(root) == FT!Max({1, cost[root]})

LEMMA WholeIs ==
  ASSUME Nodes, NEW root \in DOMAIN cost
  PROVE  Whole(root) \in Nat \ {0} /\ cost[root] <= Whole(root)
<1> DEFINE c == cost[root]
           S == {1, c}
           x == IF c > 1 THEN c ELSE 1
<1>1. c \in Int
  BY DEF Nodes
<1>2. x \in S /\ (\A y \in S : x >= y) /\ \A z \in S : (\A y \in S : z >= y) => z = x
  BY <1>1
<1> HIDE DEF S, x
<1>3. Whole(root) = x
  BY <1>2, Zenon DEF Whole, FT!Max, S, c
<1>4. QED  BY <1>1, <1>3 DEF x

Coord == [x : Int, w : Int, y : Int, h : Int, collapsed : BOOLEAN]

Picture(root) == FT!Below(root) \cup FT!Above(root)
Spine(root) == FT!Above(root) \cup {root}

\* Where a node of the picture is placed.
PlacedAt(g, root, w, n, c) ==
  /\ c \in Coord /\ c.y = Len(n) * 20
  /\ n \in Spine(root) => c.x = 0 /\ c.w = w
  /\ n \notin Spine(root) =>
       /\ c.x = (BeginOf(g, root, n) * w) \div Whole(root)
       /\ c.w = (cost[n] * w) \div Whole(root)

LEMMA Placed ==
  ASSUME NEW g, Laid(g), NEW root \in DOMAIN cost, NEW w \in Nat, NEW n \in Picture(root)
  PROVE  PlacedAt(g, root, w, n, FT!Positions(root, w)[n])
<1> DEFINE pos == FT!Positions(root, w)[n]
<1>1. /\ Nodes /\ n \in DOMAIN cost /\ n \in Seq(Ids) /\ Len(n) \in Nat /\ cost[n] \in Int
      /\ Whole(root) \in Nat \ {0}
  BY WholeIs DEF Laid, Nodes, Picture, FT!Below, FT!Above
<1>2. pos = IF n \in Spine(root) THEN FT!Coords(0, 1, 1, Len(n), n # root, w)
            ELSE FT!Coords(FT!Begin(root, n), cost[n], Whole(root), Len(n), FALSE, w)
  BY DEF FT!Positions, Picture, Spine, Whole
<1>3. CASE n \in Spine(root)
  <2>1. (0 * w) \div 1 = 0 /\ (1 * w) \div 1 = w
    OBVIOUS
  <2>2. /\ pos = [x |-> (0 * w) \div 1, w |-> (1 * w) \div 1, y |-> Len(n) * 20, h |-> 20,
                  collapsed |-> n # root]
        /\ Len(n) * 20 \in Int
    BY <1>1, <1>2, <1>3 DEF FT!Coords, FT!Pixels, FT!FrameHeight
  <2> HIDE DEF pos
  <2>3. pos \in Coord /\ pos.x = 0 /\ pos.w = w /\ pos.y = Len(n) * 20
    BY <2>1, <2>2 DEF Coord
  <2>4. QED  BY <1>3, <2>3 DEF PlacedAt, pos
<1>4. CASE n \notin Spine(root)
  <2>1. FT!Begin(root, n) = BeginOf(g, root, n) /\ BeginOf(g, root, n) \in Int
    <3>1. FT!IsPrefix(root, n)
      BY <1>4 DEF Picture, Spine, FT!Below
    <3>2. QED  BY <1>1, <3>1, BeginIs
  <2>2. /\ (BeginOf(g, root, n) * w) \div Whole(root) \in Int /\ (cost[n] * w) \div Whole(root) \in Int
        /\ Len(n) * 20 \in Int
    BY <1>1, <2>1
  <2>3. pos = [x |-> (BeginOf(g, root, n) * w) \div Whole(root), w |-> (cost[n] * w) \div Whole(root),
               y |-> Len(n) * 20, h |-> 20, collapsed |-> FALSE]
    BY <1>2, <1>4, <2>1 DEF FT!Coords, FT!Pixels, FT!FrameHeight
  <2> HIDE DEF pos
  <2>4. /\ pos \in Coord /\ pos.y = Len(n) * 20
        /\ pos.x = (BeginOf(g, root, n) * w) \div Whole(root) /\ pos.w = (cost[n] * w) \div Whole(root)
    BY <2>2, <2>3 DEF Coord
  <2>5. QED  BY <1>4, <2>4 DEF PlacedAt, pos
<1>5. QED  BY <1>3, <1>4

\* The components of the picture are placed, the others have no size.
Pictured(g, root, w, c) ==
  \A n \in DOMAIN cost : IF n \in Picture(root) THEN PlacedAt(g, root, w, n, c[n]) ELSE c[n].w = 0

CompInv ==
  /\ width \in Nat /\ currentRoot \in DOMAIN cost
  /\ state # "shown" => currentRoot = <<>> /\ comp = <<>>
  /\ state = "shown" =>
       /\ comp \in [DOMAIN cost -> Coord]
       /\ \A g, root, w, c : Laid(g) /\ root = currentRoot /\ w = width /\ c = comp => Pictured(g, root, w, c)

LEMMA InitComp ==
  ASSUME FT!FlameTreeAssumption, FT!Init
  PROVE  CompInv
BY DEF FT!Init, FT!FlameTreeAssumption, FT!Root, CompInv

LEMMA PictureOfRoot ==
  ASSUME Nodes
  PROVE  Picture(<<>>) = DOMAIN cost
<1>1. \A n \in DOMAIN cost : FT!IsPrefix(<<>>, n)
  <2> SUFFICES ASSUME NEW n \in DOMAIN cost PROVE FT!IsPrefix(<<>>, n)
    OBVIOUS
  <2>1. n \in Seq(Ids) /\ <<>> \in Seq(Ids) /\ Len(<<>>) = 0 /\ Len(n) \in Nat
    BY DEF Nodes
  <2>2. Len(<<>>) <= Len(n) /\ \A i \in 1 .. Len(<<>>) : <<>>[i] = n[i]
    BY <2>1
  <2>3. QED  BY <2>1, <2>2, PrefixOf
<1>2. QED  BY <1>1 DEF Picture, FT!Below, FT!Above

\* The picture depends on the tree alone.
LEMMA SamePicture ==
  ASSUME UNCHANGED cost, NEW g, NEW root, NEW w, NEW c
  PROVE  (Laid(g)' <=> Laid(g)) /\ (Pictured(g, root, w, c)' <=> Pictured(g, root, w, c))
<1>1. \A n : Kids(DOMAIN cost, n)' = Kids(DOMAIN cost, n)
  BY DEF Kids
<1>2. Laid(g)' <=> Laid(g)
  BY <1>1 DEF Laid, Nodes, Kids
<1>3. Picture(root)' = Picture(root) /\ Spine(root)' = Spine(root)
  BY DEF Picture, Spine, FT!Below, FT!Above
<1>4. Whole(root)' = Whole(root)
  BY DEF Whole, FT!Max
<1>5. \A n : FT!Children(n)' = FT!Children(n)
  BY DEF FT!Children
<1>6. \A n : FT!Elders(root, n)' = FT!Elders(root, n)
  BY <1>5 DEF FT!Elders, FT!Children
<1>7. \A n : BeginOf(g, root, n)' = BeginOf(g, root, n)
  BY <1>6 DEF BeginOf
<1>8. \A n, d : PlacedAt(g, root, w, n, d)' <=> PlacedAt(g, root, w, n, d)
  BY <1>3, <1>4, <1>7 DEF PlacedAt
<1>9. Pictured(g, root, w, c)' <=> Pictured(g, root, w, c)
  BY <1>3, <1>8 DEF Pictured
<1>10. QED  BY <1>2, <1>9

\* The components are laid out anew over a picture without sizes, or over the
\* same picture.
LEMMA LaidOutAnew ==
  ASSUME TreeInv, NEW root \in DOMAIN cost, NEW w \in Nat, NEW rest \in [DOMAIN cost -> Coord],
         \A n \in DOMAIN cost : n \notin Picture(root) => rest[n].w = 0
  PROVE  /\ FT!Over(FT!Positions(root, w), rest) \in [DOMAIN cost -> Coord]
         /\ \A g : Laid(g) => Pictured(g, root, w, FT!Over(FT!Positions(root, w), rest))
<1> DEFINE P == FT!Positions(root, w)
           N == DOMAIN cost
           c == FT!Over(P, rest)
<1>1. DOMAIN P = Picture(root) /\ Picture(root) \subseteq N
  BY DEF FT!Positions, Picture, FT!Below, FT!Above
<1>2. ASSUME NEW g, Laid(g), NEW n \in Picture(root)
      PROVE  PlacedAt(g, root, w, n, P[n])
  BY <1>2, Placed
<1>3. PICK h : Laid(h)
  BY SumExists DEF TreeInv, Nodes, Summed, Laid
<1>4. \A n \in Picture(root) : P[n] \in Coord
  BY <1>2, <1>3 DEF PlacedAt
<1> HIDE DEF P
<1>5. c = [n \in N |-> IF n \in Picture(root) THEN P[n] ELSE rest[n]]
  BY <1>1 DEF FT!Over
<1>6. c \in [N -> Coord]
  BY <1>1, <1>4, <1>5
<1>7. \A n \in N : c[n] = IF n \in Picture(root) THEN P[n] ELSE rest[n]
  BY <1>5
<1> HIDE DEF c
<1>8. ASSUME NEW g, Laid(g)
      PROVE  Pictured(g, root, w, c)
  BY <1>1, <1>2, <1>7, <1>8 DEF Pictured
<1>9. QED  BY <1>6, <1>8 DEF c, P

LEMMA ShowsPicture ==
  ASSUME UNCHANGED cost, currentRoot' \in DOMAIN cost, width' \in Nat, state' = "shown",
         comp' \in [DOMAIN cost -> Coord], \A g : Laid(g) => Pictured(g, currentRoot', width', comp')
  PROVE  CompInv'
<1>1. ASSUME NEW g, NEW root, NEW w, NEW c,
             Laid(g)', root = currentRoot', w = width', c = comp'
      PROVE  Pictured(g, root, w, c)'
  <2>1. Laid(g)
    BY <1>1, SamePicture
  <2>2. Pictured(g, root, w, c)
    BY <1>1, <2>1
  <2>3. QED  BY <2>2, SamePicture
<1>2. QED  BY <1>1 DEF CompInv

LEMMA NextComp ==
  ASSUME FT!FlameTreeAssumption, TreeInv, CompInv, [FT!Next]_(FT!vars)
  PROVE  CompInv'
<1>1. Nodes
  BY DEF TreeInv
<1>2. CASE FT!AddSample
  <2>1. DOMAIN cost \subseteq DOMAIN cost'
    BY <1>2 DEF FT!AddSample, FT!addSampleToTree
  <2>2. state' # "shown" /\ state # "shown" /\ UNCHANGED <<currentRoot, width, comp>>
    BY <1>2 DEF FT!AddSample
  <2>3. QED  BY <2>1, <2>2 DEF CompInv
<1>3. CASE FT!Show
  <2>1. /\ state # "shown" /\ state' = "shown" /\ UNCHANGED <<cost, currentRoot, width>>
        /\ comp' = FT!Positions(<<>>, width)
    BY <1>3 DEF FT!Show, FT!Root
  <2>2. currentRoot = <<>> /\ <<>> \in DOMAIN cost /\ width \in Nat
    BY <1>1, <2>1 DEF CompInv, Nodes
  <2>3. Picture(<<>>) = DOMAIN cost
    BY <1>1, PictureOfRoot
  <2> DEFINE none == [n \in DOMAIN cost |-> [x |-> 0, w |-> 0, y |-> 0, h |-> 0, collapsed |-> FALSE]]
             c == FT!Over(FT!Positions(<<>>, width), none)
  <2>4. none \in [DOMAIN cost -> Coord] /\ DOMAIN none = DOMAIN cost
    BY DEF Coord
  <2>5. DOMAIN FT!Positions(<<>>, width) = DOMAIN cost
        /\ FT!Positions(<<>>, width) = [n \in DOMAIN cost |-> FT!Positions(<<>>, width)[n]]
    BY <2>3 DEF FT!Positions, Picture
  <2> HIDE DEF none
  <2>6. c = FT!Positions(<<>>, width)
    BY <2>4, <2>5 DEF FT!Over
  <2>7. c \in [DOMAIN cost -> Coord] /\ \A g : Laid(g) => Pictured(g, <<>>, width, c)
    BY <2>2, <2>3, <2>4, LaidOutAnew
  <2> HIDE DEF c
  <2>8. QED  BY <2>1, <2>2, <2>6, <2>7, ShowsPicture
<1>4. ASSUME NEW n \in DOMAIN cost, FT!resetNode(n)
      PROVE  CompInv'
  <2> DEFINE rest == [m \in DOMAIN comp |-> FT!Empty(comp[m])]
  <2>1. /\ state = "shown" /\ state' = "shown" /\ UNCHANGED <<cost, width>> /\ currentRoot' = n
        /\ comp' = FT!Over(FT!Positions(n, width), rest)
    BY <1>4 DEF FT!resetNode, FT!Clicks
  <2>2. width \in Nat /\ comp \in [DOMAIN cost -> Coord]
    BY <2>1 DEF CompInv
  <2>3. \A d \in Coord : FT!Empty(d) \in Coord /\ FT!Empty(d).w = 0
    <3> SUFFICES ASSUME NEW d \in Coord PROVE FT!Empty(d) \in Coord /\ FT!Empty(d).w = 0
      OBVIOUS
    <3>1. d.collapsed \in BOOLEAN /\ FT!Empty(d) = [x |-> 0, w |-> 0, y |-> 0, h |-> 0, collapsed |-> d.collapsed]
      BY DEF FT!Empty, Coord
    <3> DEFINE e == d.collapsed
    <3> HIDE DEF e
    <3>2. FT!Empty(d) = [x |-> 0, w |-> 0, y |-> 0, h |-> 0, collapsed |-> e] /\ e \in BOOLEAN
      BY <3>1 DEF e
    <3>3. QED  BY <3>2 DEF Coord
  <2>4. rest \in [DOMAIN cost -> Coord] /\ \A m \in DOMAIN cost : rest[m].w = 0
    BY <2>2, <2>3
  <2> HIDE DEF rest
  <2>5. QED  BY <2>1, <2>2, <2>4, LaidOutAnew, ShowsPicture
<1>5. ASSUME NEW w \in Widths, FT!Resize(w)
      PROVE  CompInv'
  <2>1. /\ state = "shown" /\ state' = "shown" /\ UNCHANGED <<cost, currentRoot>> /\ width' = w
        /\ comp' = FT!Over(FT!Positions(currentRoot, w), comp)
    BY <1>5 DEF FT!Resize, FT!Clicks
  <2>2. w \in Nat /\ currentRoot \in DOMAIN cost /\ comp \in [DOMAIN cost -> Coord]
    BY <2>1 DEF CompInv, FT!FlameTreeAssumption
  <2>3. PICK g : Laid(g)
    BY SumExists DEF TreeInv, Nodes, Summed, Laid
  <2>4. Pictured(g, currentRoot, width, comp)
    BY <2>1, <2>3 DEF CompInv
  <2>5. \A n \in DOMAIN cost : n \notin Picture(currentRoot) => comp[n].w = 0
    BY <2>4 DEF Pictured
  <2>6. QED  BY <2>1, <2>2, <2>5, LaidOutAnew, ShowsPicture
<1>6. CASE UNCHANGED FT!vars
  <2>1. UNCHANGED <<cost, state, currentRoot, width, comp>>
    BY <1>6 DEF FT!vars
  <2>2. CASE state = "shown"
    <3>1. \A g : Laid(g) => Pictured(g, currentRoot, width, comp)
      BY <2>2 DEF CompInv
    <3>2. QED  BY <2>1, <2>2, <3>1, ShowsPicture DEF CompInv
  <2>3. CASE state # "shown"
    BY <2>1, <2>3 DEF CompInv
  <2>4. QED  BY <2>2, <2>3
<1>7. QED  BY <1>2, <1>3, <1>4, <1>5, <1>6 DEF FT!Next

\* What ends before another begins in costs does so in pixels; what ends no later
\* ends at most one pixel later.
LEMMA EndsBefore ==
  ASSUME NEW b \in Int, NEW c \in Int, NEW e \in Int, b + c <= e, NEW w \in Nat, NEW W \in Nat \ {0}
  PROVE  (b * w) \div W + (c * w) \div W <= (e * w) \div W
<1>1. b * w \in Int /\ c * w \in Int /\ e * w \in Int /\ (b + c) * w \in Int
  OBVIOUS
<1>2. (b + c) * w <= e * w
  BY TimesMono
<1>3. (b + c) * w = b * w + c * w
  OBVIOUS
<1> DEFINE x == b * w
           y == c * w
           z == e * w
<1> HIDE DEF x, y, z
<1>4. x \in Int /\ y \in Int /\ z \in Int /\ x + y <= z
  BY <1>1, <1>2, <1>3 DEF x, y, z
<1>5. x \div W + y \div W <= (x + y) \div W /\ (x + y) \div W <= z \div W
  BY <1>4, DivSum, DivMono
<1>6. x \div W \in Int /\ y \div W \in Int /\ z \div W \in Int /\ (x + y) \div W \in Int
  BY <1>4
<1>7. x \div W + y \div W <= z \div W
  BY <1>5, <1>6
<1>8. QED  BY <1>7 DEF x, y, z

LEMMA EndsNear ==
  ASSUME NEW b \in Int, NEW c \in Int, NEW e \in Int, NEW f \in Int, b + c <= e + f,
         NEW w \in Nat, NEW W \in Nat \ {0}
  PROVE  (b * w) \div W + (c * w) \div W <= (e * w) \div W + (f * w) \div W + 1
<1>1. (b * w) \div W + (c * w) \div W <= ((e + f) * w) \div W
  BY EndsBefore
<1>2. (e + f) * w = e * w + f * w /\ e * w \in Int /\ f * w \in Int
  OBVIOUS
<1>3. (e * w + f * w) \div W <= (e * w) \div W + (f * w) \div W + 1
  BY <1>2, DivSum
<1>4. /\ (b * w) \div W \in Int /\ (c * w) \div W \in Int /\ (e * w) \div W \in Int
      /\ (f * w) \div W \in Int /\ (e * w + f * w) \div W \in Int
  BY <1>2
<1>5. QED  BY <1>1, <1>2, <1>3, <1>4

\* The ancestors of root lie above it, one in a row; everything else in the
\* picture lies below.
LEMMA SpineIs ==
  ASSUME Nodes, NEW root \in DOMAIN cost, NEW n \in Picture(root)
  PROVE  /\ n \in DOMAIN cost
         /\ n \in Spine(root) => FT!IsPrefix(n, root) /\ Len(n) <= Len(root)
         /\ n \notin Spine(root) => FT!IsPrefix(root, n) /\ n # root /\ Len(n) > Len(root)
<1>1. n \in DOMAIN cost /\ n \in Seq(Ids) /\ root \in Seq(Ids)
  BY DEF Nodes, Picture, FT!Below, FT!Above
<1>2. n \in Spine(root) => FT!IsPrefix(n, root)
  BY <1>1, PrefixOf DEF Spine, FT!Above, FT!IsStrictPrefix
<1>3. n \notin Spine(root) => FT!IsPrefix(root, n) /\ n # root
  BY DEF Spine, Picture, FT!Below
<1>4. QED  BY <1>1, <1>2, <1>3, PrefixOf, Caller

LEMMA OneSpineInRow ==
  ASSUME Nodes, NEW root \in DOMAIN cost, NEW m \in Picture(root), NEW n \in Picture(root),
         m \in Spine(root), Len(m) = Len(n)
  PROVE  m = n
<1>1. /\ m \in Seq(Ids) /\ n \in Seq(Ids) /\ root \in Seq(Ids)
      /\ FT!IsPrefix(m, root) /\ Len(m) <= Len(root)
  BY SpineIs DEF Nodes
<1>2. Len(m) \in Nat /\ Len(n) \in Nat /\ Len(root) \in Nat
  BY <1>1
<1>3. n \in Spine(root) /\ FT!IsPrefix(n, root)
  BY <1>1, <1>2, SpineIs
<1>4. \A i \in 1 .. Len(m) : m[i] = root[i]
  BY <1>1, PrefixOf
<1>5. \A i \in 1 .. Len(n) : n[i] = root[i]
  BY <1>1, <1>3, PrefixOf
<1>6. \A i \in 1 .. Len(m) : n[i] = m[i]
  BY <1>4, <1>5
<1>7. QED  BY <1>1, <1>6, SameSeq

LEMMA BelowIs ==
  ASSUME NEW g, Laid(g), NEW root \in DOMAIN cost, NEW n \in DOMAIN cost, FT!IsPrefix(root, n)
  PROVE  /\ BeginOf(g, root, n) \in Int /\ cost[n] \in Int /\ cost[root] \in Int
         /\ 0 <= BeginOf(g, root, n) /\ BeginOf(g, root, n) + cost[n] <= cost[root]
<1>1. BeginOf(g, root, n) \in Int /\ cost[n] \in Int /\ cost[root] \in Int
  BY BeginIs DEF Laid, Nodes
<1>2. ~Outside(g, root, n)
  BY WithinRoot
<1>3. QED  BY <1>1, <1>2 DEF Outside

\* A picture as it is drawn: no two components of a row overlap, and each lies
\* over its caller.
LEMMA PictureApart ==
  ASSUME NEW g, Laid(g), NEW root \in DOMAIN cost, NEW w \in Nat, NEW c, Pictured(g, root, w, c),
         NEW m \in Picture(root), NEW n \in Picture(root), m # n, c[m].y = c[n].y
  PROVE  c[m].x + c[m].w <= c[n].x \/ c[n].x + c[n].w <= c[m].x
<1>1. Nodes /\ m \in DOMAIN cost /\ n \in DOMAIN cost
  BY SpineIs DEF Laid
<1>2. PlacedAt(g, root, w, m, c[m]) /\ PlacedAt(g, root, w, n, c[n])
  BY <1>1 DEF Pictured
<1>3. Len(m) \in Nat /\ Len(n) \in Nat /\ Len(root) \in Nat
  BY <1>1 DEF Nodes
<1>4. Len(m) = Len(n)
  <2>1. c[m].y = Len(m) * 20 /\ c[n].y = Len(n) * 20
    BY <1>2 DEF PlacedAt
  <2>2. Len(m) * 20 = Len(n) * 20
    BY <2>1
  <2>3. QED  BY <1>3, <2>2
<1>5. m \notin Spine(root) /\ n \notin Spine(root)
  BY <1>1, <1>4, OneSpineInRow
<1>6. FT!IsPrefix(root, m) /\ FT!IsPrefix(root, n)
  BY <1>1, <1>5, SpineIs
<1>7. Beside(g, root, m, n)
  <2>1. ~Clash(g, root, <<m, n>>)
    BY RowApart
  <2>2. QED  BY <1>1, <1>4, <1>6, <2>1 DEF Clash
<1> DEFINE W == Whole(root)
           bm == BeginOf(g, root, m)
           bn == BeginOf(g, root, n)
           cm == cost[m]
           cn == cost[n]
<1>8. W \in Nat \ {0} /\ bm \in Int /\ bn \in Int /\ cm \in Int /\ cn \in Int
  BY <1>1, <1>6, WholeIs, BelowIs
<1>9. /\ c[m].x = (bm * w) \div W /\ c[m].w = (cm * w) \div W
      /\ c[n].x = (bn * w) \div W /\ c[n].w = (cn * w) \div W
  BY <1>2, <1>5 DEF PlacedAt
<1>10. bm + cm <= bn \/ bn + cn <= bm
  BY <1>7 DEF Beside
<1> HIDE DEF W, bm, bn, cm, cn
<1>11. bm + cm <= bn => (bm * w) \div W + (cm * w) \div W <= (bn * w) \div W
  BY <1>8, EndsBefore
<1>12. bn + cn <= bm => (bn * w) \div W + (cn * w) \div W <= (bm * w) \div W
  BY <1>8, EndsBefore
<1>13. QED  BY <1>9, <1>10, <1>11, <1>12

LEMMA PictureStacked ==
  ASSUME NEW g, Laid(g), NEW root \in DOMAIN cost, NEW w \in Nat, NEW c, Pictured(g, root, w, c),
         NEW n \in Picture(root), n # <<>>
  PROVE  /\ c[n].y = c[FT!Front(n)].y + 20 /\ c[FT!Front(n)].x <= c[n].x
         /\ c[n].x + c[n].w <= c[FT!Front(n)].x + c[FT!Front(n)].w + 1
<1> DEFINE p == FT!Front(n)
<1>1. Nodes /\ n \in DOMAIN cost /\ n \in Seq(Ids) /\ root \in Seq(Ids) /\ Len(root) \in Nat
  BY SpineIs DEF Laid, Nodes
<1>2. /\ p \in Seq(Ids) /\ p \in DOMAIN cost /\ Len(p) = Len(n) - 1 /\ Len(n) \in Nat
      /\ \A i \in 1 .. Len(n) - 1 : p[i] = n[i]
  BY <1>1, FrontType DEF Nodes
<1>3. p \in Picture(root) /\ (n \in Spine(root) => p \in Spine(root))
  <2>1. CASE n \in Spine(root)
    <3>1. FT!IsPrefix(n, root) /\ Len(n) <= Len(root)
      BY <1>1, <2>1, SpineIs
    <3>2. \A i \in 1 .. Len(n) : n[i] = root[i]
      BY <1>1, <3>1, PrefixOf
    <3> HIDE DEF p
    <3>3. FT!IsPrefix(p, root)
      <4>1. Len(p) <= Len(root) /\ \A i \in 1 .. Len(p) : p[i] = root[i]
        BY <1>1, <1>2, <3>1, <3>2
      <4>2. QED  BY <1>1, <1>2, <4>1, PrefixOf
    <3>4. p # root
      BY <1>1, <1>2, <3>1
    <3>5. QED  BY <1>2, <3>3, <3>4 DEF Picture, Spine, FT!Above, FT!IsStrictPrefix
  <2>2. CASE n \notin Spine(root)
    <3>1. FT!IsPrefix(root, n) /\ n # root
      BY <1>1, <2>2, SpineIs
    <3>2. FT!IsPrefix(root, p)
      BY <1>1, <3>1, Caller
    <3> HIDE DEF p
    <3>3. QED  BY <1>2, <2>2, <3>2 DEF Picture, FT!Below
  <2>3. QED  BY <2>1, <2>2
<1> HIDE DEF p
<1>4. PlacedAt(g, root, w, n, c[n]) /\ PlacedAt(g, root, w, p, c[p])
  BY <1>1, <1>2, <1>3 DEF Pictured
<1>5. c[n].y = c[p].y + 20
  BY <1>2, <1>4 DEF PlacedAt
<1>6. CASE n \in Spine(root)
  BY <1>3, <1>4, <1>5, <1>6 DEF PlacedAt, p
<1> DEFINE W == Whole(root)
           b == BeginOf(g, root, n)
           e == BeginOf(g, root, p)
           k == cost[n]
           f == cost[p]
           r == cost[root]
<1>7. CASE n \notin Spine(root)
  <2>1. FT!IsPrefix(root, n) /\ n # root
    BY <1>1, <1>7, SpineIs
  <2>2. FT!IsPrefix(root, p)
    BY <1>1, <2>1, Caller DEF p
  <2>3. /\ W \in Nat \ {0} /\ r <= W /\ b \in Int /\ e \in Int /\ k \in Int /\ f \in Int /\ r \in Int
        /\ 0 <= b /\ b + k <= r
    BY <1>1, <1>2, <2>1, <2>2, WholeIs, BelowIs
  <2>4. e <= b /\ b + k <= e + f
    BY <1>1, <2>1, WithinCaller DEF p
  <2>5. c[n].x = (b * w) \div W /\ c[n].w = (k * w) \div W
    BY <1>4, <1>7 DEF PlacedAt
  <2>6. CASE p \in Spine(root)
    <3>1. c[p].x = 0 /\ c[p].w = w
      BY <1>4, <2>6 DEF PlacedAt
    <3> HIDE DEF W, b, e, k, f, r
    <3>2. (b * w) \div W + (k * w) \div W <= (W * w) \div W
      <4>1. b + k <= W /\ W \in Int
        BY <2>3
      <4>2. QED  BY <2>3, <4>1, EndsBefore
    <3>3. (W * w) \div W = w
      BY <2>3
    <3>4. 0 <= (b * w) \div W /\ (b * w) \div W \in Int /\ (k * w) \div W \in Int
      <4>1. 0 * w <= b * w /\ b * w \in Int
        BY <2>3, TimesMono
      <4>2. 0 <= b * w
        BY <4>1
      <4>3. QED  BY <2>3, <4>1, <4>2
    <3>5. QED  BY <1>5, <2>5, <3>1, <3>2, <3>3, <3>4 DEF p
  <2>7. CASE p \notin Spine(root)
    <3>1. c[p].x = (e * w) \div W /\ c[p].w = (f * w) \div W
      BY <1>4, <2>7 DEF PlacedAt
    <3> HIDE DEF W, b, e, k, f, r
    <3>2. (b * w) \div W + (k * w) \div W <= (e * w) \div W + (f * w) \div W + 1
      BY <2>3, <2>4, EndsNear
    <3>3. (e * w) \div W <= (b * w) \div W
      <4>1. e * w <= b * w /\ e * w \in Int /\ b * w \in Int
        BY <2>3, <2>4, TimesMono
      <4>2. QED  BY <2>3, <4>1, DivMono
    <3>4. QED  BY <1>5, <2>5, <3>1, <3>2, <3>3 DEF p
  <2>8. QED  BY <2>6, <2>7
<1>8. QED  BY <1>6, <1>7 DEF p

LEMMA CompShows ==
  ASSUME TreeInv, CompInv
  PROVE  FT!NoOverlap /\ FT!Stacked
<1>1. PICK g : Laid(g)
  BY SumExists DEF TreeInv, Nodes, Summed, Laid
<1>2. CASE state # "shown"
  <2>1. DOMAIN comp = {}
    BY <1>2 DEF CompInv
  <2>2. FT!Sized = {}
    BY <2>1 DEF FT!Sized
  <2>3. QED  BY <2>2 DEF FT!NoOverlap, FT!Stacked
<1>3. CASE state = "shown"
  <2>1. /\ currentRoot \in DOMAIN cost /\ width \in Nat /\ DOMAIN comp = DOMAIN cost
        /\ Pictured(g, currentRoot, width, comp)
    BY <1>1, <1>3 DEF CompInv
  <2>2. FT!Sized \subseteq Picture(currentRoot)
    BY <2>1 DEF FT!Sized, Pictured
  <2>3. FT!NoOverlap
    BY <1>1, <2>1, <2>2, PictureApart DEF FT!NoOverlap
  <2>4. FT!Stacked
    BY <1>1, <2>1, <2>2, PictureStacked DEF FT!Stacked, FT!Root, FT!FrameHeight
  <2>5. QED  BY <2>3, <2>4
<1>4. QED  BY <1>2, <1>3

-----------------------------------------------------------------------------
(***************************************************************************)
(* The parts together.  A step is one of the part that was chosen, or      *)
(* leaves its variables alone.                                             *)
(***************************************************************************)
LEMMA PartSteps ==
  ASSUME [Next]_vars
  PROVE  /\ part' = part
         /\ part = "VmEntry" => [VM!Next]_(VM!vars)
         /\ part = "CompileInfo" => [CI!Next]_(CI!vars)
         /\ part = "Lifetime" => [LT!Next]_(LT!vars)
         /\ part = "FlameTree" => [FT!Next]_(FT!vars)
         /\ part = "FrameLabels" => [FL!Next]_(FL!vars)
BY DEF Next, vars, vmVars, infoVars, lifeVars, treeVars, labelVars,
       VM!vars, CI!vars, LT!vars, FT!vars, FL!vars

LEMMA PartStarts ==
  ASSUME Init
  PROVE  /\ part = "VmEntry" => VM!Init
         /\ part = "CompileInfo" => CI!Init
         /\ part = "Lifetime" => LT!Init
         /\ part = "FlameTree" => FT!Init
         /\ part = "FrameLabels" => FL!Init
BY DEF Init

LEMMA InitCoverInv ==
  ASSUME VM!Init
  PROVE  CoverInv
BY DEF VM!Init, CoverInv, Covered, OnLoadIsEarly, InitSteps

LEMMA InitReadInv ==
  ASSUME CI!CompileInfoAssumption, CI!Init
  PROVE  ReadInv
BY DEF CI!Init, CI!Idle, CI!CompileInfoAssumption, ReadInv, RecordsAreOwn, EntryNames, ReaderHolds, CI!ReportSound

\* No class prepared while the agent sets itself up misses its method ids, and
\* the profiler never runs without a JVMTI environment, whatever the order of
\* entry points, events and sweeps (vmEntry.cpp).
THEOREM AgentIsSetUp == Spec => []MethodIdsKnown
<1> DEFINE Inv == part = "VmEntry" => VmTypeInv /\ CoverInv
<1>1. Init => Inv
  BY FrankyAssumption, PartStarts, InitVmTypeInv, InitCoverInv
<1>2. Inv /\ [Next]_vars => Inv'
  BY FrankyAssumption, PartSteps, NextVmTypeInv, NextCoverInv
<1>3. Inv => MethodIdsKnown
  BY DEF MethodIdsKnown, VmTypeInv, CoverInv, Covered, VM!ProfilingHasEnv, VM!MethodIdsKnown
<1> HIDE DEF Inv
<1>4. QED  BY <1>1, <1>2, <1>3, PTL DEF Spec

\* CompiledMethodLoad never frees a record twice, and leaks only the records of
\* methods that were inlined.
THEOREM RecordsFreedOnce == Spec => []NoDoubleFree
<1> DEFINE Inv == part = "CompileInfo" => CI!TypeOK /\ RecordInv
<1>1. Init => Inv
  BY FrankyAssumption, PartStarts, InitInfoTypes, InitRecordInv
<1>2. Inv /\ [Next]_vars => Inv'
  BY FrankyAssumption, PartSteps, NextInfoTypes, NextRecordInv
<1>3. Inv => NoDoubleFree
  BY DEF NoDoubleFree, RecordInv
<1> HIDE DEF Inv
<1>4. QED  BY <1>1, <1>2, <1>3, PTL DEF Spec

\* fillMethodInfo is wrong only about a record deleted under it.
THEOREM ReportsAreSound == Spec => []ReportSound
<1> DEFINE Inv == part = "CompileInfo" => CI!TypeOK /\ RecordInv /\ ReadInv
<1>1. Init => Inv
  BY FrankyAssumption, PartStarts, InitInfoTypes, InitRecordInv, InitReadInv
<1>2. Inv /\ [Next]_vars => Inv'
  BY FrankyAssumption, PartSteps, NextInfoTypes, NextRecordInv, NextReadInv
<1>3. Inv => ReportSound
  BY DEF ReportSound, ReadInv
<1> HIDE DEF Inv
<1>4. QED  BY <1>1, <1>2, <1>3, PTL DEF Spec

\* Terminating a tree of lifetimes never meets one that is already terminated,
\* unless an action threw before.
THEOREM TerminatedOnce == Spec => []SeveralNeedsFault
<1> DEFINE Inv == part = "Lifetime" => LP!LifeInv
<1>1. Init => Inv
  BY FrankyAssumption, PartStarts, InitLifetimes
<1>2. Inv /\ [Next]_vars => Inv'
  BY FrankyAssumption, PartSteps, NextLifetimes
<1>3. Inv => SeveralNeedsFault
  BY LifetimesShow DEF SeveralNeedsFault
<1> HIDE DEF Inv
<1>4. QED  BY <1>1, <1>2, <1>3, PTL DEF Spec

\* Termination runs every action of a lifetime once, backwards, and leaves none
\* out unless an action threw.
THEOREM AllTornDown == Spec => []TornDown
<1> DEFINE Inv == part = "Lifetime" => LP!LifeInv
<1>1. Init => Inv
  BY FrankyAssumption, PartStarts, InitLifetimes
<1>2. Inv /\ [Next]_vars => Inv'
  BY FrankyAssumption, PartSteps, NextLifetimes
<1>3. Inv => TornDown
  BY LifetimesShow DEF TornDown
<1> HIDE DEF Inv
<1>4. QED  BY <1>1, <1>2, <1>3, PTL DEF Spec

\* A wrong label needs a frame of another JVM with the same id, and a click
\* opens the frame's own method whatever its label says.
THEOREM LabelsAreOwnOrReused == Spec => []WrongLabelIsReused
<1> DEFINE Inv == part = "FrameLabels" => LabelsInv
<1>1. Init => Inv
  BY FrankyAssumption, PartStarts, InitLabelsInv
<1>2. Inv /\ [Next]_vars => Inv'
  BY FrankyAssumption, PartSteps, NextLabelsInv
<1>3. Inv => WrongLabelIsReused
  BY LabelsShow DEF WrongLabelIsReused
<1> HIDE DEF Inv
<1>4. QED  BY <1>1, <1>2, <1>3, PTL DEF Spec

\* The cost of a call path is the calls of the samples that go through it.
THEOREM CostsAreCounted == Spec => []CostsAddUp
<1> DEFINE Inv == part = "FlameTree" => TreeInv
<1>1. Init => Inv
  BY FrankyAssumption, PartStarts, InitTree
<1>2. Inv /\ [Next]_vars => Inv'
  BY FrankyAssumption, PartSteps, NextTree
<1>3. Inv => CostsAddUp
  BY TreeShows DEF CostsAddUp
<1> HIDE DEF Inv
<1>4. QED  BY <1>1, <1>2, <1>3, PTL DEF Spec

\* Frames of one row do not overlap, and a frame lies over its caller, give or take
\* the pixel that truncation costs, whatever was sampled, clicked and resized.
THEOREM FramesLaidOut == Spec => []LaidOut
<1> DEFINE Inv == part = "FlameTree" => TreeInv /\ CompInv
<1>1. Init => Inv
  BY FrankyAssumption, PartStarts, InitTree, InitComp
<1>2. Inv /\ [Next]_vars => Inv'
  BY FrankyAssumption, PartSteps, NextTree, NextComp
<1>3. Inv => LaidOut
  BY CompShows DEF LaidOut
<1> HIDE DEF Inv
<1>4. QED  BY <1>1, <1>2, <1>3, PTL DEF Spec
===============================================================================
