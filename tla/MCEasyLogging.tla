------------------------------ MODULE MCEasyLogging ----------------------------
(***************************************************************************)
(* An instance of EasyLogging for TLC.                                     *)
(***************************************************************************)
EXTENDS EasyLogging, Integers, Sequences

\* LogConfig: two of the seven levels, Debug, whose default format is its own, and
\* Info.
MCLevelOrder == <<"Debug", "Info">>

MCLines ==
  {[kind |-> k] : k \in {"comment", "empty", "star", "other"}}
    \cup {[kind |-> "level", level |-> l] : l \in {"Global", "Unknown"}}
    \cup {[kind |-> "config", type |-> t] : t \in {"Enabled", "Unknown"}}
    \cup {[kind |-> "logger", name |-> n] : n \in {"default", "net", "x", "no!"}}

Held == [on |-> LogLevels, file |-> "log", threshold |-> 2, max |-> 0,
         sized |-> FALSE, named |-> TRUE]
Rolled == [on |-> {"Warning", "Fatal"}, file |-> "log", threshold |-> 0, max |-> 1,
           sized |-> TRUE, named |-> TRUE]
Elsewhere == [Held EXCEPT !.file = "other", !.threshold = 3, !.named = FALSE]
Off == [Held EXCEPT !.on = {}, !.file = NoValue]
MCConfs == {Held, Rolled, Elsewhere, Off}
MCLoggingFlags ==
  {{}, {"MultiLoggerSupport", "StrictLogFileSizeCheck", "DisableApplicationAbortOnFatalLog"},
   {"CreateLoggerAutomatically", "HierarchicalLogging", "ImmediateFlush"},
   {"CreateLoggerAutomatically", "MultiLoggerSupport"}}

MCChars == <<"*", ",", ".-inl", ".c", ".cc", ".cpp", ".cxx", ".h", ".hh", ".hpp", ".hxx",
             "1", "5", "=", "?", "a", "b">>
MCPieces == {<<"*">>, <<",">>, <<"a", ".c">>, <<"=", "5">>, <<"=", "1">>, <<"?">>}
MCDigits == [c \in {"1", "5"} |-> IF c = "1" THEN 1 ELSE 5]
MCSourceFiles == {<<"a", ".c">>, <<"b", "a", "a">>, <<>>}
MCVerboseFlags ==
  {{"AllowVerboseIfModuleNotSpecified"}, {"DisableVModulesExtensions"}, {"DisableVModules"}}
Flag(k) == [key |-> k, value |-> NoValue]
Is(k, v) == [key |-> k, value |-> v]
MCCommands ==
  {<<Flag("-v"), Is("--v", 3)>>, <<Is("--v", -2), Is("--v", 7)>>,
   <<Is("--V", 12), Is("-vmodule", <<"a", "=", "1">>)>>,
   <<Is("-vmodule", <<"a", ",", "b", "=", "5">>), Is("-VMODULE", <<"*", "=", "1">>)>>}

MCSymbols == {"%level", "%logger", "%user", "%func", "%msg", "%datetime", "%ip", "%", "{", "}"}
MCValues == [c \in {"%level", "%logger", "%user", "%func", "%datetime", "%ip"} |-> <<"value">>]
MCMessages == {<<"%">>, <<"%", "%func">>, <<"%msg", "%func">>, <<"%datetime">>, <<"%ip">>}
MCCustom == <<"%ip">>

MCRatios == <<2, 2, 3>>
MCSteps == {-2, 0, 1, 3}
===============================================================================
