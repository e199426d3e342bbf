------------------------------ MODULE ConfParser ------------------------------
(***************************************************************************)
(* Reading a global configuration file: Loggers::configureFromGlobal cuts  *)
(* it into sections, one per logger, and parses each with                  *)
(* Configurations::Parser, which remembers the level of the last header.   *)
(* What a single line looks like is in ConfLine; here a line is its kind.  *)
(***************************************************************************)
EXTENDS Naturals, Sequences, FiniteSets, FiniteSetsExt, SequencesExt

CONSTANTS
  Lines,      \* the lines a file may contain
  None,
  MaxLines    \* bound: the length of the file

(***************************************************************************)
(* A line is a comment, empty, a level header ("* INFO:", of a known level *)
(* or not), "*" alone, an assignment (of a known type or not), the head    *)
(* of a section ("-- name"), or anything else.                             *)
(***************************************************************************)
Kinds == {"comment", "empty", "level", "star", "config", "logger", "other"}

\* What the constants must satisfy.
ConfParserAssumption ==
  /\ MaxLines \in Nat
  /\ None \notin {"default", "net", "x", "no!"}
  /\ \A x \in Lines :
       /\ x.kind \in Kinds
       /\ x.kind = "level" => x.level \in {"Global", "Info", "Unknown"}
       /\ x.kind = "config" => x.type \in {"Enabled", "Format", "Unknown"}
       /\ x.kind = "logger" => x.name \in {"default", "net", "x", "no!"}

VARIABLES
  file,     \* history: the lines read so far
  ss,       \* the lines of the current section
  logger,   \* the logger it is for
  applied,  \* history: the sections parsed, with the values they set
  eof       \* the file was read to its end

vars == <<file, ss, logger, applied, eof>>

-------------------------------------------------------------------------------
(***************************************************************************)
(* Parser::parseLine on the parser's state p: the level of the last header, *)
(* the values set, and the line's result.                                  *)
(***************************************************************************)
\* Mutant: an unknown header leaves the level as it is.
parseLineKeepsLevel(p, x) ==
  CASE x.kind = "level" -> [p EXCEPT !.level = IF x.level = "Unknown" THEN @ ELSE x.level, !.result = TRUE]
    [] x.kind \in {"comment", "empty", "star"} -> [p EXCEPT !.result = TRUE]
    [] x.kind = "config" /\ p.level # "Unknown" /\ x.type # "Unknown" ->
         [p EXCEPT !.sets = Append(@, [level |-> p.level, type |-> x.type]), !.result = TRUE]
    [] OTHER -> [p EXCEPT !.result = FALSE]

parseLine(p, x) ==
  CASE x.kind \in {"comment", "empty", "star"} -> [p EXCEPT !.result = TRUE]
    [] x.kind = "level" -> [p EXCEPT !.level = x.level, !.result = TRUE]
    [] x.kind = "config" /\ p.level # "Unknown" /\ x.type # "Unknown" ->
         [p EXCEPT !.sets = Append(@, [level |-> p.level, type |-> x.type]), !.result = TRUE]
    [] OTHER -> [p EXCEPT !.result = FALSE]

\* parseFromText, parseFromFile: the result is the last line's.
parseFromText(lines) ==
  FoldLeft(parseLine, [level |-> "Unknown", sets |-> << >>, result |-> FALSE], lines)

\* Loggers::getLogger registers a logger, but none for an invalid id.
getLogger(name) == IF name = "no!" THEN None ELSE name

\* The lambda configure, which is called for a section with lines and logger.
configure ==
  IF ss = << >> \/ logger = None THEN applied
  ELSE Append(applied, [logger |-> logger, lines |-> ss, parsed |-> parseFromText(ss)])

-------------------------------------------------------------------------------
TypeOK ==
  /\ file \in Seq(Lines) /\ Len(file) <= MaxLines
  /\ ss \in Seq(Lines)
  /\ logger \in {None, "default", "net", "x"}
  /\ \A i \in DOMAIN applied : applied[i].logger # None /\ applied[i].lines # << >>
  /\ eof \in BOOLEAN

Init == file = << >> /\ ss = << >> /\ logger = None /\ applied = << >> /\ eof = FALSE

\* The section before is parsed.  A name of a single character is taken for no
\* name, and the logger stays.
StartSection(x) ==
  /\ applied' = configure
  /\ ss' = << >>
  /\ logger' = IF x.name = "x" THEN logger ELSE getLogger(x.name)

ReadLine(x) ==
  /\ ~eof /\ Len(file) < MaxLines
  /\ file' = Append(file, x)
  /\ CASE x.kind = "comment" -> UNCHANGED <<ss, logger, applied>>
       [] x.kind = "logger" -> StartSection(x)
       [] OTHER -> ss' = Append(ss, x) /\ UNCHANGED <<logger, applied>>
  /\ UNCHANGED eof

EndOfFile ==
  /\ ~eof /\ eof' = TRUE
  /\ applied' = configure
  /\ UNCHANGED <<file, ss, logger>>

Next == EndOfFile \/ \E x \in Lines : ReadLine(x)

Spec == Init /\ [][Next]_vars

-------------------------------------------------------------------------------
(***************************************************************************)
(* What the file says, read off as a whole: the section of a line is       *)
(* headed by the last head before it with a usable name.                   *)
(***************************************************************************)
HeadsBefore(i) == {h \in 1 .. (i - 1) : file[h].kind = "logger" /\ file[h].name # "x"}
OwnerOf(i) == IF HeadsBefore(i) = {} THEN None ELSE getLogger(file[Max(HeadsBefore(i))].name)

\* The line is in the same section as a level header before it.
SectionStart(i) == Max({0} \cup {h \in 1 .. (i - 1) : file[h].kind = "logger"})
LevelAt(i) ==
  LET headers == {h \in SectionStart(i) + 1 .. (i - 1) : file[h].kind = "level"}
  IN  IF headers = {} THEN "Unknown" ELSE file[Max(headers)].level

\* What line i sets, and what the file sets for g.
SetAt(i) ==
  IF file[i].kind = "config" /\ file[i].type # "Unknown" /\ LevelAt(i) # "Unknown"
  THEN <<[level |-> LevelAt(i), type |-> file[i].type]>> ELSE << >>
Wanted(g) == FlattenSeq([i \in DOMAIN file |-> IF OwnerOf(i) = g THEN SetAt(i) ELSE << >>])

SetFor(g) == FlattenSeq([i \in DOMAIN applied |-> IF applied[i].logger = g THEN applied[i].parsed.sets ELSE << >>])

\* Once the file is read, every logger has been given the assignments of its
\* sections, each at the level of the last header before it in the section,
\* in the order of the file, and no others.
FileApplied == eof => \A g \in {"default", "net", "x"} : SetFor(g) = Wanted(g)
===============================================================================
