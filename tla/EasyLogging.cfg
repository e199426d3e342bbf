CONSTANTS
  NoValue = NoValue
  Every = {0, 2, 3}
  AfterN = {2}
  Times = {3}
  kMaxLogPerCounter = 5
  MaxHits = 8
  LevelOrder <- MCLevelOrder
  Types = {"Enabled", "ToFile", "Format", "MillisecondsWidth", "Filename"}
  ConfiguredFiles = {"franky.log", "bad.log"}
  Openable = {"franky.log"}
  DefaultFile = "franky.log"
  MaxOps = 3
  MaxLen = 7
  FileLines <- MCLines
  MaxLines = 5
  Ids = {"default", "net", "b#d"}
  DefaultId = "default"
  BadIds = {"b#d"}
  LogLevels = {"Debug", "Warning", "Fatal"}
  LogFiles = {"log", "other"}
  Confs <- MCConfs
  DefaultConf <- Held
  LoggingFlags <- MCLoggingFlags
  MaxCalls = 3
  CharOrder <- MCChars
  Pieces <- MCPieces
  Digits <- MCDigits
  SourceFiles <- MCSourceFiles
  Commands <- MCCommands
  VerboseFlags <- MCVerboseFlags
  MaxText = 5
  Symbols <- MCSymbols
  Messages <- MCMessages
  Values <- MCValues
  Custom <- MCCustom
  MaxUserFormat = 5
  BuffSize = 7
  Literals = {":"}
  Years = {1999, 2026}
  Hours = {0, 12, 23}
  Microseconds = {0, 7008, 123456}
  Widths = {0, 1, 3, 4, 6, 7}
  MaxDateFormat = 3
  Units = {1, 2}
  Ratios <- MCRatios
  Word = 64
  Steps <- MCSteps
  MaxTime = 7
  MaxReports = 2
SPECIFICATION Spec
INVARIANTS
  EveryNth
  
  
  FileApplied
  
  
  Decided
  BuiltAsWritten
  
  TimesExact
CHECK_DEADLOCK FALSE
