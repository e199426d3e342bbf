-------------------------------- MODULE Logging -------------------------------
(***************************************************************************)
(* One LOG statement from its construction to the disk: Writer, Logger,    *)
(* LogDispatcher and the log files of easylogging, in the build the agent  *)
(* uses (no mutexes, no asynchronous logging: the statements of a process  *)
(* follow one another).                                                    *)
(*                                                                         *)
(* A Writer lives for one statement.  It looks its logger up, streams the  *)
(* text into the logger's own stream, and is dispatched and the stream     *)
(* cleared when it is destroyed; the library opens further Writers inside  *)
(* one (for a missing logger, for a fatal message), so they form a stack.  *)
(* Loggers and levels that name the same file share one stream with one    *)
(* buffer.                                                                 *)
(***************************************************************************)
EXTENDS Naturals, Sequences, SequencesExt, FiniteSets, Functions

CONSTANTS
  Ids,          \* logger ids a program uses
  Default,      \* kDefaultLoggerId
  BadIds,       \* ids with a symbol kValidLoggerIdSymbols does not have
  Levels,       \* levels messages are logged at: "Debug", "Warning", ...
  Files,        \* log files
  Confs,        \* configurations a logger may get, see ConfType
  DefaultConf,  \* the one a new logger gets
  FlagSets,     \* the sets of LoggingFlags the program may set
  None,         \* no logger, or no file to write to
  MaxCalls      \* bound: calls in a behaviour

\* A configuration as read, the same for every level but for what is enabled:
\* the file (None: TO_FILE is off or there is no stream), the flush threshold
\* and the size at which the file rolls (0: never); and whether the list has a
\* MaxLogFileSize, and a file name at Level::Global.
ConfType ==
  [on : SUBSET Levels, file : Files \cup {None}, threshold : Nat, max : Nat,
   sized : BOOLEAN, named : BOOLEAN]

\* What the constants must satisfy.
LoggingAssumption ==
  /\ Default \in Ids \ BadIds /\ {"Debug", "Warning"} \subseteq Levels
  /\ DefaultConf \in Confs /\ Confs \subseteq ConfType
  /\ None \notin Files \cup Ids /\ MaxCalls \in Nat

VARIABLES
  loggers,    \* the registered loggers and their configurations
  unflushed,  \* m_unflushedCount of each
  stream,     \* m_stream of each: the texts written to it
  files,      \* each log file with the fstream that is open on it
  flags,      \* m_flags
  full,       \* whether the disk is full
  stack,      \* the Writers alive, the innermost last
  calls,      \* how many calls the program made
  aborted,    \* abort() was called
  dangling    \* the registry has a logger that was deleted

vars == <<loggers, unflushed, stream, files, flags, full, stack, calls, aborted, dangling>>

\* A process that looks up a deleted logger is not followed any further.
Idle == stack = <<>> /\ ~aborted /\ ~dangling
Top == Last(stack)
WithTop(w) == Append(Front(stack), w)

-------------------------------------------------------------------------------
(***************************************************************************)
(* Files.  disk and buf hold entries; past counts those rolled away,       *)
(* written those ever handed to the stream; lost: a buffer could not be    *)
(* written.                                                                *)
(***************************************************************************)
NewFile == [disk |-> <<>>, buf |-> <<>>, failed |-> FALSE, past |-> 0, written |-> 0,
            lost |-> FALSE]

Synced(f) == [f EXCEPT !.disk = @ \o f.buf, !.buf = <<>>]
Dropped(f) == [f EXCEPT !.buf = <<>>, !.lost = TRUE]
Failed(f) == [f EXCEPT !.failed = TRUE]

\* fstream::flush: on a full disk the buffer stays or is lost, and the stream
\* fails; a stream that has failed may or may not try.
Flush(f) ==
  IF f.buf = <<>> THEN {f}
  ELSE IF f.failed THEN {f, IF full THEN Dropped(f) ELSE Synced(f)}
  ELSE IF full THEN {Failed(f), Failed(Dropped(f))} ELSE {Synced(f)}

\* Mutant: the file is truncated while entries are still in the buffer.
RollUnflushed(f) ==
  {[f EXCEPT !.disk = <<>>, !.buf = <<>>, !.past = @ + Len(f.disk), !.failed = b] : b \in BOOLEAN}

\* unsafeValidateFileRolling, the part that rolls: close, pre-roll-out
\* callback, open again.  Opening may fail.
Roll(f) ==
  LET closed == IF f.buf = <<>> THEN f ELSE IF full THEN Dropped(f) ELSE Synced(f)
      gone == [closed EXCEPT !.disk = <<>>, !.past = @ + Len(closed.disk)]
  IN {[gone EXCEPT !.failed = FALSE], Failed(gone)}

\* unsafeValidateFileRolling: getSizeOfFile writes the buffer out, because it
\* seeks; a failed stream tells position -1, which is a very large size.
ValidateFileRolling(f, max) ==
  UNION {IF max # 0 /\ (g.failed \/ Len(g.disk) >= max) THEN Roll(g) ELSE {g} : g \in Flush(f)}

-------------------------------------------------------------------------------
(***************************************************************************)
(* Loggers.                                                                *)
(***************************************************************************)
Registered == DOMAIN loggers
Counts == [l \in Levels |-> 0]
Blank == <<>>

\* Entries of logger i that its counts no longer stand for.
Orphaned(f, i) ==
  [f EXCEPT !.buf = [k \in DOMAIN @ |-> IF @[k].id = i THEN [@[k] EXCEPT !.id = None] ELSE @[k]]]

\* TypedConfigurations::build rolls the files with a size limit.
Build(conf, fs) ==
  IF conf.file = None \/ ~conf.sized THEN {fs}
  ELSE {[fs EXCEPT ![conf.file] = f] : f \in ValidateFileRolling(fs[conf.file], conf.max)}

\* registerNew: v is what the map f has for i from now on.
RegisterNew(f, i, v) == [k \in DOMAIN f \cup {i} |-> IF k = i THEN v ELSE f[k]]

\* RegisteredLoggers::get: a new Logger gets the default configurations.
Creates(i) == i \notin Registered /\ i \notin BadIds
Create(i) ==
  /\ loggers' = RegisterNew(loggers, i, DefaultConf)
  /\ unflushed' = RegisterNew(unflushed, i, Counts)
  /\ stream' = RegisterNew(stream, i, Blank)
  /\ files' \in Build(DefaultConf, files)

Init ==
  /\ loggers = [i \in {Default} |-> DefaultConf]
  /\ unflushed = [i \in {Default} |-> Counts]
  /\ stream = [i \in {Default} |-> Blank]
  /\ files = [f \in Files |-> NewFile]
  /\ flags \in FlagSets
  /\ full = FALSE /\ stack = <<>> /\ calls = 0 /\ aborted = FALSE /\ dangling = FALSE

-------------------------------------------------------------------------------
(***************************************************************************)
(* Writer.  at is m_logger; msg the text that MultiLoggerSupport carries   *)
(* from the first logger dispatched (first) to the next; pc is what comes  *)
(* next.                                                                   *)
(***************************************************************************)
Writer(ids, level, text) ==
  [todo |-> ids, level |-> level, text |-> text, at |-> None, proceed |-> FALSE,
   first |-> TRUE, msg |-> Blank, pc |-> "look"]

Notice(level) == Writer(<<Default>>, level, "notice")

\* LOG and CLOG: without MultiLoggerSupport the first id is the only one.
Log(ids, level) ==
  /\ Idle /\ calls < MaxCalls
  /\ calls' = calls + 1
  /\ stack' = <<Writer(IF "MultiLoggerSupport" \in flags THEN ids ELSE <<Head(ids)>>,
                       level, "said")>>
  /\ UNCHANGED <<loggers, unflushed, stream, files, flags, full, aborted, dangling>>

\* initializeLogger, then the statement's << operators, which the first logger
\* alone gets and only if it proceeds.  m_loggingLevel has no initial value.
Proceeds(w, i) ==
  {go \in BOOLEAN : "HierarchicalLogging" \notin flags => go = (w.level \in loggers[i].on)}

Says(w, i, go) ==
  IF ~go THEN stream[i]
  ELSE IF w.pc = "look" THEN Append(stream[i], w.text)
  ELSE IF w.first THEN stream[i] ELSE stream[i] \o w.msg

Take(w) ==
  LET i == Head(w.todo) IN
  \E go \in Proceeds(w, i) :
    LET said == Says(w, i, go) IN
    /\ stack' = WithTop([w EXCEPT !.at = i, !.proceed = go, !.pc = "out",
                           !.first = @ /\ ~go, !.msg = IF go /\ w.first THEN said ELSE @])
    /\ stream' = [stream EXCEPT ![i] = said]

Missing(w) == Head(w.todo) \notin Registered

InitializeLogger ==
  /\ stack # <<>> /\ ~aborted /\ Top.pc \in {"look", "next"}
  /\ \/ ~Missing(Top) /\ Take(Top) /\ UNCHANGED <<loggers, unflushed, files>>
     \/ /\ Missing(Top) /\ "CreateLoggerAutomatically" \in flags /\ Creates(Head(Top.todo))
        /\ Create(Head(Top.todo)) /\ UNCHANGED stack
     \/ /\ Missing(Top)
        /\ "CreateLoggerAutomatically" \notin flags \/ Head(Top.todo) \in BadIds
        /\ stack' = Append(WithTop([Top EXCEPT !.at = None, !.proceed = FALSE, !.pc = "out"]),
                           Notice("Debug"))
        /\ UNCHANGED <<loggers, unflushed, stream, files>>
  /\ UNCHANGED <<flags, full, calls, aborted, dangling>>

\* The rest of processDispatch: the next logger of the statement, or its end.
Leave(w) ==
  LET rest == Tail(w.todo) IN
  IF rest = <<>> THEN Front(stack) ELSE WithTop([w EXCEPT !.todo = rest, !.pc = "next"])

ClearStream(i) == stream' = [stream EXCEPT ![i] = Blank]

Skip ==
  /\ stack # <<>> /\ Top.pc = "out" /\ ~Top.proceed
  /\ stack' = Leave(Top)
  /\ IF Top.at = None THEN UNCHANGED stream ELSE ClearStream(Top.at)
  /\ UNCHANGED <<loggers, unflushed, files, flags, full, calls, aborted, dangling>>

\* DefaultLogDispatchCallback::dispatch for an entry of logger i with threshold
\* n: what the file and the count may be afterwards.  ImmediateFlush does not
\* count; every flush resets the count, whether it succeeded or not.
Write(f, entry, count, n) ==
  LET held == [f EXCEPT !.buf = Append(@, entry), !.written = @ + 1] IN
  IF f.failed THEN {<<f, count>>}
  ELSE IF "ImmediateFlush" \in flags \/ count + 1 >= n
  THEN {<<g, 0>> : g \in Flush(held)}
  ELSE {<<held, count + 1>>}

\* LogDispatcher::dispatch with the default callback.
ToFile(i, l, text) ==
  LET c == loggers[i]
      checked == IF "StrictLogFileSizeCheck" \in flags
                 THEN ValidateFileRolling(files[c.file], c.max) ELSE {files[c.file]}
  IN IF c.file = None THEN UNCHANGED <<files, unflushed>>
     ELSE \E f \in checked :
          \E r \in Write(f, [id |-> i, level |-> l, text |-> text], unflushed[i][l], c.threshold) :
            /\ files' = [files EXCEPT ![c.file] = r[1]]
            /\ unflushed' = [unflushed EXCEPT ![i][l] = r[2]]

\* triggerDispatch: a fatal message aborts, after a warning of its own.
Fatal(w) == w.level = "Fatal" /\ "DisableApplicationAbortOnFatalLog" \notin flags

TriggerDispatch ==
  /\ stack # <<>> /\ Top.pc = "out" /\ Top.proceed
  /\ ToFile(Top.at, Top.level, stream[Top.at])
  /\ ClearStream(Top.at)
  /\ stack' = IF Fatal(Top)
              THEN Append(WithTop([Top EXCEPT !.pc = "abort"]), Notice("Warning"))
              ELSE Leave([Top EXCEPT !.proceed = FALSE])
  /\ UNCHANGED <<loggers, flags, full, calls, aborted, dangling>>

Abort ==
  /\ stack # <<>> /\ Top.pc = "abort" /\ ~aborted
  /\ aborted' = TRUE
  /\ UNCHANGED <<loggers, unflushed, stream, files, flags, full, stack, calls, dangling>>

-------------------------------------------------------------------------------
(***************************************************************************)
(* Between statements: what else a program may call, and the disk.         *)
(***************************************************************************)
Call == Idle /\ calls < MaxCalls /\ calls' = calls + 1
                                 /\ UNCHANGED <<flags, full, stack, aborted>>

\* Mutant: the old files are not flushed.
ConfigureUnflushed(i, conf) ==
  /\ Call /\ i \in Registered
  /\ loggers' = [loggers EXCEPT ![i] = conf]
  /\ unflushed' = [unflushed EXCEPT ![i] = Counts]
  /\ files' \in Build(conf, files)
  /\ UNCHANGED <<stream, dangling>>

\* Logger::configure: the counts restart; the old files are flushed if the list
\* has a file at Level::Global; the new ones are rolled if they are too long.
Configure(i, conf) ==
  LET old == loggers[i]
      Restarted(fs) == IF old.named /\ old.file # None
                       THEN {[fs EXCEPT ![old.file] = f] : f \in Flush(fs[old.file])}
                       ELSE {[f \in Files |-> Orphaned(fs[f], i)]}
  IN
  /\ Call /\ i \in Registered
  /\ loggers' = [loggers EXCEPT ![i] = conf]
  /\ unflushed' = [unflushed EXCEPT ![i] = Counts]
  /\ files' \in UNION {Build(conf, fs) : fs \in Restarted(files)}
  /\ UNCHANGED <<stream, dangling>>

\* RegisteredLoggers::get from Loggers::getLogger.
GetLogger(i) == Call /\ Creates(i) /\ Create(i) /\ UNCHANGED dangling

\* RegisteredLoggers::remove.  Registry::unregister deletes the logger and then
\* looks for the entry to erase by the id it was given, a reference into the
\* deleted logger: the entry is erased, or it stays.  The streams stay in the
\* reference map.
Unregister(i) ==
  /\ Call /\ i \in Registered \ {Default}
  /\ dangling' \in BOOLEAN
  /\ loggers' = Restrict(loggers, Registered \ {i})
  /\ unflushed' = Restrict(unflushed, Registered \ {i})
  /\ stream' = Restrict(stream, Registered \ {i})
  /\ files' = [f \in Files |-> Orphaned(files[f], i)]

\* RegisteredLoggers::flushAll does not know the counts.
FlushAll ==
  /\ Call
  /\ files' \in {g \in [Files -> UNION {Flush(files[f]) : f \in Files}] :
                   \A f \in Files : g[f] \in Flush(files[f])}
  /\ UNCHANGED <<loggers, unflushed, stream, dangling>>

\* Helpers::validateFileRolling.
CheckRolling(i) ==
  /\ Call /\ i \in Registered /\ loggers[i].file # None
  /\ \E g \in ValidateFileRolling(files[loggers[i].file], loggers[i].max) :
       files' = [files EXCEPT ![loggers[i].file] = g]
  /\ UNCHANGED <<loggers, unflushed, stream, dangling>>

\* The stream's own buffer runs full.
Spill(f) ==
  /\ Idle /\ files[f].buf # <<>>
  /\ files' \in {[files EXCEPT ![f] = g] : g \in Flush(files[f])}
  /\ UNCHANGED <<loggers, unflushed, stream, flags, full, stack, calls, aborted, dangling>>

DiskFills ==
  /\ ~aborted /\ full' = ~full
  /\ UNCHANGED <<loggers, unflushed, stream, files, flags, stack, calls, aborted, dangling>>

Statements == UNION {[1..n -> Ids] : n \in 1..2}

Next ==
  \/ \E ids \in Statements, l \in Levels : Log(ids, l)
  \/ InitializeLogger \/ Skip \/ TriggerDispatch \/ Abort
  \/ \E i \in Ids, conf \in Confs : Configure(i, conf)
  \/ \E i \in Ids : GetLogger(i) \/ Unregister(i) \/ CheckRolling(i)
  \/ FlushAll \/ DiskFills
  \/ \E f \in Files : Spill(f)

Spec == Init /\ [][Next]_vars

-------------------------------------------------------------------------------
(***************************************************************************)
(* Properties.                                                             *)
(***************************************************************************)
Texts == {Blank, <<"said">>, <<"notice">>}
Entries == [id : Ids \cup {None}, level : Levels, text : Seq({"said", "notice"})]

\* Every logger has its counts and its stream, the default logger is always
\* registered, and between statements every logger's stream is empty: a text
\* never waits in it for the next statement.
TypeOK ==
  /\ Default \in Registered /\ Registered \subseteq Ids \ BadIds
  /\ loggers \in [Registered -> Confs]
  /\ unflushed \in [Registered -> [Levels -> Nat]]
  /\ DOMAIN stream = Registered
  /\ \A f \in Files : /\ Range(files[f].disk) \cup Range(files[f].buf) \subseteq Entries
                      /\ DOMAIN files[f] = DOMAIN NewFile
  /\ flags \in FlagSets /\ full \in BOOLEAN /\ calls \in 0..MaxCalls /\ aborted \in BOOLEAN /\ dangling \in BOOLEAN
  /\ stack = <<>> => \A i \in Registered : stream[i] = Blank

\* An entry has the text of one statement.  It is blank only with
\* MultiLoggerSupport.
EntriesWhole ==
  \A f \in Files : \A e \in Range(files[f].disk) \cup Range(files[f].buf) :
    e.text \in Texts /\ (e.text = Blank => "MultiLoggerSupport" \in flags)

\* As long as the stream of a logger has not failed, fewer of its entries of
\* one level wait in the buffer than its threshold, whatever was configured,
\* rolled, flushed and logged to the same file by others in between.
PendingBounded ==
  \A f \in Files, i \in Registered, l \in Levels :
    loggers[i].file = f /\ ~files[f].failed
      => LET waiting == Cardinality({k \in DOMAIN files[f].buf :
                                        files[f].buf[k].id = i /\ files[f].buf[k].level = l})
         IN waiting <= unflushed[i][l] /\ (waiting > 0 => waiting < loggers[i].threshold)

\* An entry that the stream took is in the file, in the buffer or in a file
\* rolled away, unless a buffer could not be written: rolling, reconfiguring
\* and removing loggers lose nothing.
NothingVanishes ==
  \A f \in Files :
    ~files[f].lost => files[f].written = files[f].past + Len(files[f].disk) + Len(files[f].buf)
===============================================================================
