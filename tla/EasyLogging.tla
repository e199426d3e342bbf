------------------------------- MODULE EasyLogging -----------------------------
(***************************************************************************)
(* The parts of easylogging that share no state with each other, but for   *)
(* flags, the one m_flags of the library's storage.  A behaviour is one of *)
(* the part that its first state chooses; the variables of the others keep *)
(* the value NoValue.                                                      *)
(***************************************************************************)
CONSTANTS
  NoValue,
  Every, AfterN, Times, kMaxLogPerCounter, MaxHits,                     \* HitCounters
  LevelOrder, Types, ConfiguredFiles, Openable, DefaultFile, MaxOps,    \* LogConfig
  MaxLen,                                                               \* ConfLine
  FileLines, MaxLines,                                                  \* ConfParser
  Ids, DefaultId, BadIds, LogLevels, LogFiles, Confs, DefaultConf, LoggingFlags, MaxCalls,
                                                                        \* Logging
  CharOrder, Pieces, Digits, SourceFiles, Commands, VerboseFlags, MaxText,
                                                                        \* VRegistry
  Symbols, Messages, Values, Custom, MaxUserFormat,                     \* LogFormat
  BuffSize, Literals, Years, Hours, Microseconds, Widths, MaxDateFormat,
                                                                        \* DateTime
  Units, Ratios, Word, Steps, MaxTime, MaxReports                       \* PerformanceTracker

VARIABLES
  part, flags,
  counters, hitCounts, hits, logged,                                        \* HitCounters
  conf, mine, maps, streams, ops,                                           \* LogConfig
  line,                                                                     \* ConfLine
  file, ss, logger, applied, eof,                                           \* ConfParser
  loggers, unflushed, stream, files, full, stack, calls, aborted, dangling, \* Logging
  text, typed, level, modules,                                              \* VRegistry
  userFormat,                                                               \* LogFormat
  format, time, width,                                                      \* DateTime
  now, elapsed, sets, tracking, tracker, reports                            \* PerformanceTracker

hitVars     == <<counters, hitCounts, hits, logged>>
configVars  == <<conf, mine, maps, streams, ops>>
parserVars  == <<file, ss, logger, applied, eof>>
loggingVars == <<loggers, unflushed, stream, files, full, stack, calls, aborted, dangling>>
verboseVars == <<text, typed, level, modules>>
dateVars    == <<format, time, width>>
trackerVars == <<now, elapsed, sets, tracking, tracker, reports>>
vars == <<part, flags, hitVars, configVars, line, parserVars, loggingVars, verboseVars,
          userFormat, dateVars, trackerVars>>

-------------------------------------------------------------------------------
HC == INSTANCE HitCounters WITH After <- AfterN

LC == INSTANCE LogConfig WITH Files <- ConfiguredFiles, typed <- maps

CL == INSTANCE ConfLine

CP == INSTANCE ConfParser WITH Lines <- FileLines, None <- NoValue

LG == INSTANCE Logging WITH Levels <- LogLevels, Default <- DefaultId, Files <- LogFiles,
                            FlagSets <- LoggingFlags, None <- NoValue

VR == INSTANCE VRegistry WITH Chars <- CharOrder, FlagSets <- VerboseFlags, None <- NoValue

LF == INSTANCE LogFormat WITH MaxFormat <- MaxUserFormat

DT == INSTANCE DateTime WITH MaxFormat <- MaxDateFormat

PT == INSTANCE PerformanceTracker WITH conf <- tracking

ASSUME EasyLoggingAssumption ==
  HC!HitCountersAssumption /\ LC!LogConfigAssumption /\ CL!ConfLineAssumption
    /\ CP!ConfParserAssumption /\ LG!LoggingAssumption /\ VR!VRegistryAssumption
    /\ LF!LogFormatAssumption /\ DT!DateTimeAssumption /\ PT!PerformanceTrackerAssumption

-------------------------------------------------------------------------------
Unused(v) == v = NoValue

Flagged == {"Logging", "VRegistry", "PerformanceTracker"}

Init ==
  /\ part \in {"HitCounters", "LogConfig", "ConfLine", "ConfParser", "LogFormat", "DateTime"} \cup Flagged
  /\ IF part = "HitCounters" THEN HC!Init
     ELSE Unused(counters) /\ Unused(hitCounts) /\ Unused(hits) /\ Unused(logged)
  /\ IF part = "LogConfig" THEN LC!Init
     ELSE Unused(conf) /\ Unused(mine) /\ Unused(maps) /\ Unused(streams) /\ Unused(ops)
  /\ IF part = "ConfLine" THEN CL!Init
     ELSE Unused(line)
  /\ IF part = "ConfParser" THEN CP!Init
     ELSE Unused(file) /\ Unused(ss) /\ Unused(logger) /\ Unused(applied) /\ Unused(eof)
  /\ IF part = "Logging" THEN LG!Init
     ELSE /\ Unused(loggers) /\ Unused(unflushed) /\ Unused(stream) /\ Unused(files) /\ Unused(full)
          /\ Unused(stack) /\ Unused(calls) /\ Unused(aborted) /\ Unused(dangling)
  /\ IF part = "VRegistry" THEN VR!Init
     ELSE Unused(text) /\ Unused(typed) /\ Unused(level) /\ Unused(modules)
  /\ IF part = "LogFormat" THEN LF!Init
     ELSE Unused(userFormat)
  /\ IF part = "DateTime" THEN DT!Init
     ELSE Unused(format) /\ Unused(time) /\ Unused(width)
  /\ IF part = "PerformanceTracker" THEN PT!Init
     ELSE /\ Unused(now) /\ Unused(elapsed) /\ Unused(sets) /\ Unused(tracking) /\ Unused(tracker)
          /\ Unused(reports)
  /\ part \notin Flagged => Unused(flags)

Next ==
  \/ /\ part = "HitCounters" /\ HC!Next
     /\ UNCHANGED <<part, flags, configVars, line, parserVars, loggingVars, verboseVars,
                    userFormat, dateVars, trackerVars>>
  \/ /\ part = "LogConfig" /\ LC!Next
     /\ UNCHANGED <<part, flags, hitVars, line, parserVars, loggingVars, verboseVars,
                    userFormat, dateVars, trackerVars>>
  \/ /\ part = "ConfLine" /\ CL!Next
     /\ UNCHANGED <<part, flags, hitVars, configVars, parserVars, loggingVars,
                    verboseVars, userFormat, dateVars, trackerVars>>
  \/ /\ part = "ConfParser" /\ CP!Next
     /\ UNCHANGED <<part, flags, hitVars, configVars, line, loggingVars, verboseVars,
                    userFormat, dateVars, trackerVars>>
  \/ /\ part = "Logging" /\ LG!Next
     /\ UNCHANGED <<part, hitVars, configVars, line, parserVars, verboseVars, userFormat,
                    dateVars, trackerVars>>
  \/ /\ part = "VRegistry" /\ VR!Next
     /\ UNCHANGED <<part, hitVars, configVars, line, parserVars, loggingVars, userFormat,
                    dateVars, trackerVars>>
  \/ /\ part = "LogFormat" /\ LF!Next
     /\ UNCHANGED <<part, flags, hitVars, configVars, line, parserVars, loggingVars,
                    verboseVars, dateVars, trackerVars>>
  \/ /\ part = "DateTime" /\ DT!Next
     /\ UNCHANGED <<part, flags, hitVars, configVars, line, parserVars, loggingVars,
                    verboseVars, userFormat, trackerVars>>
  \/ /\ part = "PerformanceTracker" /\ PT!Next
     /\ UNCHANGED <<part, hitVars, configVars, line, parserVars, loggingVars,
                    verboseVars, userFormat, dateVars>>

Spec == Init /\ [][Next]_vars

-------------------------------------------------------------------------------
(***************************************************************************)
(* The properties, each stated in its part's module; those that a part's   *)
(* deepest property rests on, its types among them, are checked with it.   *)
(***************************************************************************)
\* A LOG_EVERY_N statement has logged once for every n hits, LOG_AFTER_N all but
\* the first n, LOG_N_TIMES just these.
EveryNth == part = "HitCounters" => HC!TypeOK /\ HC!AfterAndTimes /\ HC!EveryNth

\* What is read when a message is logged is what was configured.
TypedReadsConfigured == part = "LogConfig" => LC!TypeOK /\ LC!TypedReadsConfigured

\* A comment starts at the first ## outside quotes, and what is in quotes at the
\* start of a value is the value.
CommentStripped == part = "ConfLine" => CL!QuotesStripped /\ CL!CommentStripped

\* Every logger gets the assignments of its sections at their levels.
FileApplied == part = "ConfParser" => CP!TypeOK /\ CP!FileApplied

\* Fewer entries of a logger and level wait in the buffer than the logger's
\* threshold.
PendingBounded == part = "Logging" => LG!TypeOK /\ LG!PendingBounded

\* No entry vanishes unless a buffer could not be written, and an entry has the
\* text of one statement, or none with several loggers.
NothingVanishes == part = "Logging" => LG!EntriesWhole /\ LG!NothingVanishes

\* VLOG is decided by a matching module, by the flag or by the level; a wild card
\* matches exactly the files it describes, and a well-formed list means what it
\* says.
Decided == part = "VRegistry" => VR!TypeOK /\ VR!ListRead /\ VR!MatchExact /\ VR!Decided

\* Every message comes out as its format says.
BuiltAsWritten == part = "LogFormat" => LF!BuiltAsWritten

\* The date is cut off at the end of the buffer and nowhere else.
CutAtEnd == part = "DateTime" => DT!CutAtEnd

\* A time is exact unless the clock was set back, shown in the largest unit it
\* has more than one of, and reported as configured at construction.
TimesExact == part = "PerformanceTracker" => PT!AsConstructed /\ PT!UnitShown /\ PT!TimesExact
===============================================================================
