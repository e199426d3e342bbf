------------------------------- MODULE VRegistry -------------------------------
(***************************************************************************)
(* Verbose logging in easylogging: VRegistry, which decides whether VLOG(n)*)
(* in a source file is on, and the command line that fills it.             *)
(*                                                                         *)
(* Strings are sequences of characters, except that a file extension is    *)
(* one character ("-inl.h" ends in ".h" and is two).                       *)
(***************************************************************************)
EXTENDS Integers, Sequences, SequencesExt, FiniteSets, TLC

CONSTANTS
  Chars,      \* all characters, in the order of their codes
  Pieces,     \* what the program composes module lists of
  Digits,     \* digits in it, with their values
  SourceFiles,\* __FILE__ of the files that log
  Commands,   \* command lines: sequences of [key, value], value None without "="
  FlagSets,   \* the sets of these flags a program may set
  None,
  MaxText     \* bound: pieces typed in a behaviour

\* What the constants must satisfy.
VRegistryAssumption ==
  /\ DOMAIN Digits \subseteq Range(Chars)
  /\ Range(Digits) \subseteq 0..9 /\ MaxText \in Nat

VARIABLES
  text,     \* the module list the program has composed so far
  typed,    \* pieces typed
  level,    \* m_level
  modules,  \* m_modules, a map
  flags     \* the flags VRegistry reads

vars == <<text, typed, level, modules, flags>>

FlagNames == {"DisableVModules", "DisableVModulesExtensions", "AllowVerboseIfModuleNotSpecified"}
Empty == [k \in {} |-> 0]

-------------------------------------------------------------------------------
(***************************************************************************)
(* setModules.                                                             *)
(***************************************************************************)
Extensions == << <<".h">>, <<".c">>, <<".cpp">>, <<".cc">>, <<".cxx">>, <<".-inl", ".h">>,
               <<".hxx">>, <<".hpp">>, <<".hh">> >>

Without(s, sfx) == IF IsSuffix(sfx, s) THEN SubSeq(s, 1, Len(s) - Len(sfx)) ELSE s

\* addSuffix: the previous suffix goes, this one is not doubled.
addSuffix(s, sfx, prev) == Without(Without(s, prev), sfx) \o sfx

\* The names insert registers, one per suffix, each made from the one before.
Names(s) ==
  IF "DisableVModulesExtensions" \in flags THEN {s}
  ELSE LET n[k \in 1..Len(Extensions)] ==
             IF k = 1 THEN addSuffix(s, Extensions[1], <<>>)
             ELSE addSuffix(n[k - 1], Extensions[k], Extensions[k - 1])
       IN {n[k] : k \in 1..Len(Extensions)}

\* std::map::insert keeps what is there.
insert(m, s, l) == m @@ [k \in Names(s) |-> l]

\* At a comma and at the end of the list: without a level the name stays and
\* the next one is appended to it; without a name the level stays.
Close(p) ==
  IF p.ss = <<>> \/ p.level = -1 THEN p
  ELSE [p EXCEPT !.map = insert(@, p.ss, p.level), !.ss = <<>>, !.level = -1]

Step(p, c) ==
  CASE c = "=" -> [p EXCEPT !.isMod = FALSE]
    [] c = "," -> [Close(p) EXCEPT !.isMod = TRUE]
    [] p.isMod -> [p EXCEPT !.ss = Append(@, c)]
    [] c \in DOMAIN Digits -> [p EXCEPT !.level = Digits[c]]
    [] OTHER -> p

setModules(list, m) ==
  Close(FoldLeft(Step, [isMod |-> TRUE, ss |-> <<>>, level |-> -1, map |-> m], list)).map

-------------------------------------------------------------------------------
(***************************************************************************)
(* allowed.                                                                *)
(***************************************************************************)
\* Mutant: a star matches one character or none.
wildCardMatchOnce(s, p) ==
  LET m[i \in 1..Len(s) + 1, j \in 1..Len(p) + 1] ==
        IF j > Len(p) THEN i > Len(s)
        ELSE CASE p[j] = "?" -> i <= Len(s) /\ m[i + 1, j + 1]
               [] p[j] = "*" -> m[i, j + 1] \/ (i <= Len(s) /\ m[i + 1, j + 1])
               [] OTHER -> i <= Len(s) /\ s[i] = p[j] /\ m[i + 1, j + 1]
  IN m[1, 1]

\* Str::wildCardMatch, from character i of the file and j of the pattern on.
wildCardMatch(s, p) ==
  LET m[i \in 1..Len(s) + 1, j \in 1..Len(p) + 1] ==
        IF j > Len(p) THEN i > Len(s)
        ELSE CASE p[j] = "?" -> i <= Len(s) /\ m[i + 1, j + 1]
               [] p[j] = "*" -> m[i, j + 1] \/ (i <= Len(s) /\ m[i + 1, j])
               [] OTHER -> i <= Len(s) /\ s[i] = p[j] /\ m[i + 1, j + 1]
  IN m[1, 1]

Code(c) == CHOOSE k \in DOMAIN Chars : Chars[k] = c
Before(s, t) ==
  \E k \in 1..Len(s) + 1 :
    /\ SubSeq(s, 1, k - 1) = SubSeq(t, 1, k - 1)
    /\ Len(t) >= k /\ (Len(s) >= k => Code(s[k]) < Code(t[k]))

\* The entries that match.
Matching(file) == {k \in DOMAIN modules : wildCardMatch(file, k)}

\* The first entry that matches, in the order of the keys of the map, decides.
allowed(v, file) ==
  IF modules = Empty THEN v <= level
  ELSE IF Matching(file) = {} THEN "AllowVerboseIfModuleNotSpecified" \in flags
  ELSE v <= modules[CHOOSE k \in Matching(file) : \A n \in Matching(file) \ {k} : Before(k, n)]

-------------------------------------------------------------------------------
(***************************************************************************)
(* The program.                                                            *)
(***************************************************************************)
Init ==
  /\ text = <<>> /\ typed = 0 /\ level = 0 /\ modules = Empty
  /\ flags \in FlagSets

Type(s) ==
  /\ typed < MaxText /\ typed' = typed + 1 /\ text' = text \o s
  /\ UNCHANGED <<level, modules, flags>>

vModulesEnabled == "DisableVModules" \notin flags

\* Loggers::setVModules, with the list composed.
SetVModules ==
  /\ vModulesEnabled /\ text # <<>>
  /\ modules' = setModules(text, modules) /\ text' = <<>>
  /\ UNCHANGED <<typed, level, flags>>

clearModules == modules' = Empty /\ UNCHANGED <<text, typed, level, flags>>

Clamped(n) == IF n < 0 THEN 0 ELSE IF n > 9 THEN 9 ELSE n

\* CommandLineArgs::setArgs: the first value of a key counts.
Has(args, key) == \E k \in DOMAIN args : args[k].key = key /\ args[k].value = None
Valued(args, key) == {k \in DOMAIN args : args[k].key = key /\ args[k].value # None}
Value(args, key) == args[CHOOSE k \in Valued(args, key) : \A j \in Valued(args, key) : k <= j].value

\* VRegistry::setFromArgs: the first of these that applies, and no other.
Verbose(args) == \E key \in {"-v", "--verbose", "-V", "--VERBOSE"} : Has(args, key)
Keys(args) ==
  SelectSeq(<<"--v", "--V", "-vmodule", "-VMODULE">>,
            LAMBDA key : Valued(args, key) # {} /\ (key \in {"--v", "--V"} \/ vModulesEnabled))

setFromArgs(args) ==
  /\ IF Verbose(args) THEN level' = 9 /\ UNCHANGED modules
     ELSE IF Keys(args) = <<>> THEN UNCHANGED <<level, modules>>
     ELSE LET value == Value(args, Head(Keys(args))) IN
          IF Head(Keys(args)) \in {"--v", "--V"}
          THEN level' = Clamped(value) /\ UNCHANGED modules
          ELSE modules' = setModules(value, modules) /\ UNCHANGED level
  /\ UNCHANGED <<text, typed, flags>>

Next ==
  \/ \E s \in Pieces : Type(s)
  \/ SetVModules \/ clearModules
  \/ \E args \in Commands : setFromArgs(args)

Spec == Init /\ [][Next]_vars

-------------------------------------------------------------------------------
(***************************************************************************)
(* Properties.                                                             *)
(***************************************************************************)

\* The level and the levels of all modules are in the accepted range, whatever
\* the command line and the lists say.
TypeOK ==
  /\ level \in 0..9 /\ flags \subseteq FlagNames /\ typed \in 0..MaxText
  /\ \A k \in DOMAIN modules : k # <<>> /\ modules[k] \in 0..9

\* The fields of a list, and the well-formed ones: a name, "=", one digit.
Fields(list) ==
  FoldLeft(LAMBDA fs, c : IF c = "," THEN Append(fs, <<>>)
                          ELSE Append(Front(fs), Append(Last(fs), c)), << <<>> >>, list)
NameOf(f) == SubSeq(f, 1, Len(f) - 2)
WellFormed(f) ==
  /\ Len(f) > 2 /\ f[Len(f) - 1] = "=" /\ f[Len(f)] \in DOMAIN Digits
  /\ "=" \notin Range(NameOf(f))

\* What a module name stands for: with the suffix it has, the names with the
\* suffixes before that one appended and those after it in its place.
Meant(s) ==
  LET own == {k \in DOMAIN Extensions : IsSuffix(Extensions[k], s)}
      at == IF own = {} THEN Len(Extensions) + 1 ELSE CHOOSE k \in own : TRUE
  IN IF "DisableVModulesExtensions" \in flags THEN {s}
     ELSE {s \o Extensions[k] : k \in 1..at - 1}
            \cup {Without(s, Extensions[at]) \o Extensions[k] : k \in at..Len(Extensions)}

\* A well-formed list gives every module it names the level of the first field
\* that names it, under all its extensions, and nothing else.
ListRead ==
  LET fs == Fields(text) IN
  (\A k \in DOMAIN fs : WellFormed(fs[k])) =>
    LET got == setModules(text, Empty)
        Naming(n) == {k \in DOMAIN fs : n \in Meant(NameOf(fs[k]))}
    IN /\ DOMAIN got = UNION {Meant(NameOf(fs[k])) : k \in DOMAIN fs}
       /\ \A n \in DOMAIN got :
            got[n] = Digits[Last(fs[CHOOSE k \in Naming(n) : \A j \in Naming(n) : k <= j])]

\* A pattern matches a file exactly when its characters can be laid along the
\* file: the positions reached after each pattern character include the end.
Reach(s, p) ==
  FoldLeft(LAMBDA at, c :
             CASE c = "*" -> {j \in 0..Len(s) : \E i \in at : i <= j}
               [] c = "?" -> {i + 1 : i \in at \ {Len(s)}}
               [] OTHER -> {i + 1 : i \in {i \in at \ {Len(s)} : s[i + 1] = c}}, {0}, p)
MatchExact == \A f \in SourceFiles : wildCardMatch(f, text) <=> Len(f) \in Reach(f, text)

\* VLOG is decided by a module that matches the file, by the flag when modules
\* are set and none matches, and only without modules by the level; and a lower
\* verbosity is on wherever a higher one is.
Decided ==
  \A f \in SourceFiles :
    LET levels == {modules[k] : k \in {k \in DOMAIN modules : Len(f) \in Reach(f, k)}}
        on == {v \in Range(Digits) : allowed(v, f)}
    IN
    \A v \in Range(Digits) :
      /\ v \in on =>
           IF modules = Empty THEN v <= level
           ELSE (\E l \in levels : v <= l)
                  \/ (levels = {} /\ "AllowVerboseIfModuleNotSpecified" \in flags)
      /\ (levels # {} /\ \A l \in levels : v <= l) => v \in on
      /\ v \in on => \A w \in Range(Digits) : w <= v => w \in on
===============================================================================
