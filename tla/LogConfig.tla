------------------------------- MODULE LogConfig ------------------------------
(***************************************************************************)
(* How easylogging is configured: a Configurations list that the program   *)
(* fills level by level, the logger's own list that configure() bases on   *)
(* it, and the TypedConfigurations built from that, which is what is read  *)
(* when a message is logged.                                               *)
(*                                                                         *)
(* A list has one entry per level and type, in order of first insertion;   *)
(* setting Level::Global sets every level too.  Five of the nine types are *)
(* kept: Enabled stands for the types that are only converted              *)
(* (ToStandardOutput, MaxLogFileSize, LogFlushThreshold), and              *)
(* MillisecondsWidth for the two that build stores at Level::Global        *)
(* (PerformanceTracking).                                                  *)
(***************************************************************************)
EXTENDS Naturals, Sequences, SequencesExt, Functions

CONSTANTS
  LevelOrder,   \* the levels after Global, in the order of their numbers
  Types,        \* the configuration types in use
  Files,        \* log files the program names, the default one among them
  Openable,     \* those newFileStream can open
  DefaultFile,  \* kDefaultLogFile
  MaxOps        \* bound: calls in a behaviour

\* What the constants must satisfy.
LogConfigAssumption ==
  /\ Types \subseteq {"Enabled", "ToFile", "Format", "MillisecondsWidth", "Filename"}
  /\ LevelOrder \in Seq(STRING) /\ "Debug" \in Range(LevelOrder) /\ "Global" \notin Range(LevelOrder)
  /\ DefaultFile \in Files \cap Openable /\ MaxOps \in Nat

Global == "Global"
Levels == {Global} \cup Range(LevelOrder)

\* The strings the program sets, per type; those of Enabled and ToFile include
\* one that getBool does not take for true.
ValuesOf(t) ==
  CASE t \in {"Enabled", "ToFile"} -> {"true", "no"}
    [] t = "Format" -> {"plain", "debug"}
    [] t = "MillisecondsWidth" -> {"3", "6"}
    [] t = "Filename" -> Files

Default(t) ==
  CASE t \in {"Enabled", "ToFile"} -> "true"
    [] t = "Format" -> "plain"
    [] t = "MillisecondsWidth" -> "3"
    [] t = "Filename" -> DefaultFile

\* The order in which the default values are set; Format comes last.
TypeOrder == <<"Enabled", "Filename", "ToFile", "MillisecondsWidth", "Format">>

VARIABLES
  conf,     \* the program's Configurations
  mine,     \* the logger's m_configurations
  typed,    \* its m_typedConfigurations: a map from levels for every type
  streams,  \* logStreamsReference: FALSE for a file that could not be opened
  ops       \* how many calls were made

vars == <<conf, mine, typed, streams, ops>>

-------------------------------------------------------------------------------
(***************************************************************************)
(* Configurations                                                          *)
(***************************************************************************)
Is(c, l, t) == c.level = l /\ c.type = t

\* RegistryWithPred::get
Has(list, l, t) == \E i \in DOMAIN list : Is(list[i], l, t)
Get(list, l, t) == (CHOOSE c \in Range(list) : Is(c, l, t)).value

\* Replaces the value of the entry, or appends one.
Put(list, l, t, v) ==
  IF Has(list, l, t)
    THEN [i \in DOMAIN list |-> IF Is(list[i], l, t) THEN [list[i] EXCEPT !.value = v] ELSE list[i]]
    ELSE Append(list, [level |-> l, type |-> t, value |-> v])

PutAll(list, t, v) == FoldLeft(LAMBDA s, l : Put(s, l, t, v), list, LevelOrder)

unsafeSet(list, l, t, v) ==
  IF l = Global THEN PutAll(Put(list, l, t, v), t, v) ELSE Put(list, l, t, v)

unsafeSetIfNotExist(list, l, t, v) == IF Has(list, l, t) THEN list ELSE unsafeSet(list, l, t, v)

setGlobally(list, t, v, includeGlobalLevel) ==
  PutAll(IF includeGlobalLevel THEN unsafeSet(list, Global, t, v) ELSE list, t, v)

\* Only Debug's default format differs from Global's here.
setToDefault(list) ==
  LET all == FoldLeft(LAMBDA s, t : IF t \in Types THEN setGlobally(s, t, Default(t), TRUE) ELSE s,
                      list, TypeOrder)
  IN  IF "Format" \in Types THEN unsafeSet(all, "Debug", "Format", "debug") ELSE all

setRemainingToDefault(list) ==
  LET all == FoldLeft(LAMBDA s, t : IF t \in Types THEN unsafeSetIfNotExist(s, Global, t, Default(t)) ELSE s,
                      list, TypeOrder)
  IN  IF "Format" \in Types THEN unsafeSetIfNotExist(all, "Debug", "Format", "debug") ELSE all

\* Every entry of the base is set in turn.
setFromBase(list, base) ==
  FoldLeft(LAMBDA s, c : unsafeSet(s, c.level, c.type, c.value), list, base)

-------------------------------------------------------------------------------
(***************************************************************************)
(* TypedConfigurations                                                     *)
(***************************************************************************)
\* getBool, and a LogFormat, which is resolved for its level.
Convert(t, l, v) ==
  CASE t \in {"Enabled", "ToFile"} -> v = "true"
    [] t = "Format" -> [level |-> l, userFormat |-> v, format |-> <<l, v>>]
    [] OTHER -> v

With(map, k, v) == [x \in DOMAIN map \cup {k} |-> IF x = k THEN v ELSE map[x]]

\* The first value goes to Global; one that equals Global's is not stored; the
\* assignment of a LogFormat leaves the old format in place.
setValue(map, t, l, v) ==
  IF DOMAIN map = {} THEN With(map, Global, v)
  ELSE IF Global \in DOMAIN map /\ map[Global] = v THEN map
  ELSE IF t = "Format" /\ l \in DOMAIN map THEN With(map, l, [v EXCEPT !.format = map[l].format])
  ELSE With(map, l, v)

\* Mutant: every type is stored at Global.
LevelOfAll(c) == Global

LevelOf(c) == IF c.type = "MillisecondsWidth" THEN Global ELSE c.level

\* The first loop of build.
BuildTypes(list) ==
  FoldLeft(LAMBDA m, c :
             IF c.type = "Filename" THEN m
             ELSE [m EXCEPT ![c.type] = setValue(@, c.type, LevelOf(c), Convert(c.type, c.level, c.value))],
           [t \in Types \cup {"ToFile", "Filename"} |-> << >>], list)

\* A file is opened once and its stream shared, the null one included; a null
\* stream sets ToFile of the level to false.
Inserted(map, k, v) == IF k \in DOMAIN map THEN map ELSE With(map, k, v)

insertFile(b, c) ==
  LET l == IF DOMAIN b.typed["Filename"] = {} THEN Global ELSE c.level
      known == Inserted(b.streams, c.value, c.value \in Openable)
      maps == [b.typed EXCEPT !["Filename"] = Inserted(@, l, c.value)]
  IN  [typed |-> IF known[c.value] THEN maps
                 ELSE [maps EXCEPT !["ToFile"] = setValue(@, "ToFile", l, FALSE)],
       streams |-> known]

build(list, refs) ==
  FoldLeft(LAMBDA b, c : IF c.type = "Filename" THEN insertFile(b, c) ELSE b,
           [typed |-> BuildTypes(list), streams |-> refs], list)

\* getConfigByVal, getConfigByRef
Lookup(map, l) == IF l \in DOMAIN map THEN map[l] ELSE map[Global]

-------------------------------------------------------------------------------
TypeOK ==
  /\ \A list \in {conf, mine} : \A i \in DOMAIN list :
       /\ list[i].level \in Levels /\ list[i].type \in Types /\ list[i].value \in ValuesOf(list[i].type)
       /\ \A j \in DOMAIN list : Is(list[j], list[i].level, list[i].type) => i = j
  /\ \A t \in DOMAIN typed : DOMAIN typed[t] \subseteq Levels
  /\ streams \in [DOMAIN streams -> BOOLEAN] /\ DOMAIN streams \subseteq Files
  /\ ops \in 0 .. MaxOps

\* A logger is constructed with the default configurations (RegisteredLoggers).
Init ==
  /\ conf = << >> /\ ops = 0
  /\ mine = setToDefault(<< >>)
  /\ typed = build(mine, << >>).typed
  /\ streams = build(mine, << >>).streams

Call == ops < MaxOps /\ ops' = ops + 1

Set(l, t, v) == Call /\ conf' = unsafeSet(conf, l, t, v) /\ UNCHANGED <<mine, typed, streams>>

SetGlobally(t, v) == Call /\ conf' = setGlobally(conf, t, v, FALSE) /\ UNCHANGED <<mine, typed, streams>>

Clear == Call /\ conf' = << >> /\ UNCHANGED <<mine, typed, streams>>

SetToDefault == Call /\ conf' = setToDefault(conf) /\ UNCHANGED <<mine, typed, streams>>

SetRemainingToDefault ==
  Call /\ conf' = setRemainingToDefault(conf) /\ UNCHANGED <<mine, typed, streams>>

ConfigureWith(list) ==
  /\ Call
  /\ mine' = list
  /\ typed' = build(list, streams).typed /\ streams' = build(list, streams).streams
  /\ UNCHANGED conf

\* Logger::configure(conf), Loggers::reconfigureLogger, reconfigureAllLoggers
Configure == ConfigureWith(setFromBase(mine, conf))

\* A single configuration is set in the logger's own list, and it is rebuilt.
Reconfigure(l, t, v) == ConfigureWith(unsafeSet(mine, l, t, v))

Next ==
  \/ \E t \in Types : \E v \in ValuesOf(t) :
       SetGlobally(t, v) \/ \E l \in Levels : Set(l, t, v) \/ Reconfigure(l, t, v)
  \/ Clear \/ SetToDefault \/ SetRemainingToDefault \/ Configure

Spec == Init /\ [][Next]_vars

-------------------------------------------------------------------------------
Reads(l, t) == Lookup(typed[t], l)
Written(l, t) == Convert(t, l, Get(mine, l, t))

\* What is read when a message is logged is what the logger's list says of the
\* level, although the maps are filled in list order, leave out what equals
\* Global's value, and take the first value they see for Global's.  ToFile may
\* be off instead, where the file of the level, or the one of Global, could not
\* be opened; and the one width in use is the last in the list, whatever its level.
TypedReadsConfigured ==
  /\ \A l \in Range(LevelOrder), t \in Types \ {"MillisecondsWidth"} :
       \/ Reads(l, t) = Written(l, t)
       \/ t = "ToFile" /\ ~Reads(l, t) /\ \E k \in {l, Global} : ~streams[Reads(k, "Filename")]
  /\ \A i \in DOMAIN mine :
       mine[i].type = "MillisecondsWidth" /\ (\A j \in DOMAIN mine : j > i => mine[j].type # "MillisecondsWidth")
         => Reads(Global, "MillisecondsWidth") = mine[i].value
===============================================================================
