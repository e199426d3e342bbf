------------------------------ MODULE CompileInfo -----------------------------
(***************************************************************************)
(* The records of compiled methods: VM::compiles_info, filled by the       *)
(* CompiledMethodLoad callback on the VM's event thread and read without a *)
(* lock by fillMethodInfo on the agent's thread.                           *)
(*                                                                         *)
(* An entry points to the record of the method itself, or of the method it *)
(* was last inlined into.  The callback deletes a record only through the  *)
(* entry of its own method, so other entries may point to freed memory,    *)
(* which malloc hands out again.  A freed block reads as what it held or   *)
(* as something that is no method.  The map's own operations are taken as  *)
(* atomic: a rehash racing a lookup is undefined and not modelled.         *)
(***************************************************************************)
EXTENDS Naturals, FiniteSets

CONSTANTS
  Methods, Addrs,     \* jmethodIDs, blocks of the heap
  Null, NoMethod,     \* the null pointer; a word that is no jmethodID
  MaxLoads            \* bound: CompiledMethodLoad events

\* What the constants must satisfy.
CompileInfoAssumption ==
  /\ Null \notin Addrs /\ NoMethod \notin Methods
  /\ MaxLoads \in Nat /\ IsFiniteSet(Addrs) /\ Cardinality(Addrs) >= MaxLoads

VARIABLES
  compiles_info,  \* the entry of every method (an absent one reads as Null)
  method,         \* method[a]: the field method of the record at a
  live,           \* the blocks that were allocated and not deleted
  own,            \* history: methods with a finished or running load
  inlined,        \* history: methods some record listed as inlined
  callback,       \* the running CompiledMethodLoad
  reader,         \* the running fillMethodInfo
  loads           \* how many events were delivered

vars == <<compiles_info, method, live, own, inlined, callback, reader, loads>>

Idle == [pc |-> "idle"]
Callbacks ==
  {Idle} \cup [pc : {"new"}, m : Methods, inl : SUBSET Methods]
         \cup [pc : {"inline"}, m : Methods, inl : SUBSET Methods, info : Addrs]
Readers ==
  {Idle} \cup [pc : {"deref"}, m : Methods, info : Addrs, freed : BOOLEAN]
         \cup [pc : {"filled"}, m : Methods, compiled : {FALSE}]
         \cup [pc : {"filled"}, m : Methods, compiled : {TRUE}, inlined : BOOLEAN, freed : BOOLEAN]

TypeOK ==
  /\ compiles_info \in [Methods -> Addrs \cup {Null}]
  /\ method \in [Addrs -> Methods \cup {NoMethod}]
  /\ live \in SUBSET Addrs /\ own \in SUBSET Methods /\ inlined \in SUBSET Methods
  /\ callback \in Callbacks /\ reader \in Readers
  /\ loads \in 0 .. MaxLoads

Init ==
  /\ compiles_info = [m \in Methods |-> Null]
  /\ method = [a \in Addrs |-> NoMethod]
  /\ live = {} /\ own = {} /\ inlined = {}
  /\ callback = Idle /\ reader = Idle /\ loads = 0

-------------------------------------------------------------------------------
\* A reader that holds a pointer to a now reads freed memory.
Freed(a) ==
  reader' = IF reader.pc = "deref" /\ reader.info = a
              THEN [reader EXCEPT !.freed = TRUE] ELSE reader

\* Mutant: the entry's record is deleted whoever it belongs to.
CompiledMethodLoadDeletesAny(m, inl) ==
  /\ callback = Idle /\ loads < MaxLoads
  /\ loads' = loads + 1 /\ own' = own \cup {m}
  /\ LET info == compiles_info[m] IN
       IF info # Null
         THEN live' = live \ {info} /\ Freed(info)
         ELSE UNCHANGED <<live, reader>>
  /\ callback' = [pc |-> "new", m |-> m, inl |-> inl]
  /\ UNCHANGED <<compiles_info, method, inlined>>

(***************************************************************************)
(* CompiledMethodLoad for m, whose record lists the methods inl as         *)
(* inlined: the old record is deleted if it is m's own (a dangling entry   *)
(* is followed to find out), ...                                           *)
(***************************************************************************)
CompiledMethodLoad(m, inl) ==
  /\ callback = Idle /\ loads < MaxLoads
  /\ loads' = loads + 1 /\ own' = own \cup {m}
  /\ LET info == compiles_info[m] IN
       IF info # Null /\ method[info] = m
         THEN live' = live \ {info} /\ Freed(info)
         ELSE UNCHANGED <<live, reader>>
  /\ callback' = [pc |-> "new", m |-> m, inl |-> inl]
  /\ UNCHANGED <<compiles_info, method, inlined>>

\* ... a new one is stored at any block that is free, ...
NewCompileInfo(a) ==
  /\ callback.pc = "new" /\ a \notin live
  /\ live' = live \cup {a}
  /\ method' = [method EXCEPT ![a] = callback.m]
  /\ compiles_info' = [compiles_info EXCEPT ![callback.m] = a]
  /\ callback' = [pc |-> "inline", m |-> callback.m, inl |-> callback.inl, info |-> a]
  /\ UNCHANGED <<own, inlined, reader, loads>>

\* ... and every method of the inline records is made to point to it.
InlineInfo(x) ==
  /\ callback.pc = "inline" /\ x \in callback.inl
  /\ compiles_info' = [compiles_info EXCEPT ![x] = callback.info]
  /\ inlined' = inlined \cup ({x} \ {callback.m})
  /\ callback' = [callback EXCEPT !.inl = @ \ {x}]
  /\ UNCHANGED <<method, live, own, reader, loads>>

CompiledMethodLoadReturns ==
  /\ callback.pc = "inline" /\ callback.inl = {}
  /\ callback' = Idle
  /\ UNCHANGED <<compiles_info, method, live, own, inlined, reader, loads>>

\* The heap: something else writes to a freed block.
Overwrite(a) ==
  /\ a \notin live /\ method[a] # NoMethod
  /\ method' = [method EXCEPT ![a] = NoMethod]
  /\ UNCHANGED <<compiles_info, live, own, inlined, callback, reader, loads>>

(***************************************************************************)
(* fillMethodInfo: the entry is read, and then the record it points to.    *)
(***************************************************************************)
fillMethodInfo(m) ==
  /\ reader.pc # "deref"
  /\ LET info == compiles_info[m] IN
       reader' = IF info = Null
                   THEN [pc |-> "filled", m |-> m, compiled |-> FALSE]
                   ELSE [pc |-> "deref", m |-> m, info |-> info,
                         freed |-> callback.pc = "new" /\ info \notin live]
  /\ UNCHANGED <<compiles_info, method, live, own, inlined, callback, loads>>

\* Mutant: the comparison is the wrong way round.
set_inlined_swapped ==
  /\ reader.pc = "deref"
  /\ reader' = [pc |-> "filled", m |-> reader.m, compiled |-> TRUE,
                inlined |-> method[reader.info] = reader.m, freed |-> reader.freed]
  /\ UNCHANGED <<compiles_info, method, live, own, inlined, callback, loads>>

set_inlined ==
  /\ reader.pc = "deref"
  /\ reader' = [pc |-> "filled", m |-> reader.m, compiled |-> TRUE,
                inlined |-> method[reader.info] # reader.m, freed |-> reader.freed]
  /\ UNCHANGED <<compiles_info, method, live, own, inlined, callback, loads>>

Next ==
  \/ \E m \in Methods, inl \in SUBSET Methods : CompiledMethodLoad(m, inl)
  \/ \E a \in Addrs : NewCompileInfo(a) \/ Overwrite(a)
  \/ \E m \in Methods : InlineInfo(m) \/ fillMethodInfo(m)
  \/ CompiledMethodLoadReturns \/ set_inlined

Spec == Init /\ [][Next]_vars

-------------------------------------------------------------------------------
(***************************************************************************)
(* The delete of CompiledMethodLoad never frees a block twice, although it *)
(* decides by reading a record that may be gone: an entry whose record     *)
(* says "mine" points to an allocated record, except while the callback is *)
(* between its delete and its store.                                       *)
(***************************************************************************)
NoDoubleFree ==
  \A m \in Methods :
    (/\ compiles_info[m] # Null /\ method[compiles_info[m]] = m
     /\ ~(callback.pc = "new" /\ callback.m = m))
       => compiles_info[m] \in live

(***************************************************************************)
(* A record leaks (is allocated while its method's entry points elsewhere, *)
(* so that no callback will ever delete it) only if its method was inlined *)
(* into another one.                                                       *)
(***************************************************************************)
LeakNeedsInlining ==
  \A a \in live : compiles_info[method[a]] # a => method[a] \in inlined

(***************************************************************************)
(* What fillMethodInfo reports: a method shown as compiled and not inlined *)
(* was compiled itself, one shown as inlined was inlined into another, and *)
(* the only wrong answer is an "inlined" read from a record that a         *)
(* recompilation deleted under the reader.                                 *)
(***************************************************************************)
ReportSound ==
  (reader.pc = "filled" /\ reader.compiled) =>
    IF reader.inlined THEN reader.m \in inlined \/ reader.freed ELSE reader.m \in own
===============================================================================
