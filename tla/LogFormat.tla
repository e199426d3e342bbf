------------------------------- MODULE LogFormat -------------------------------
(***************************************************************************)
(* How easylogging turns a user's format into a log line: LogFormat parses *)
(* it and resolves what does not change, the logger puts its id in, and    *)
(* DefaultLogBuilder substitutes the rest for every message.               *)
(*                                                                         *)
(* Every substitution searches the line that the earlier ones left, so     *)
(* what they insert is searched again.  A line is a sequence of symbols: a *)
(* specifier is one, "%" alone is the escape character.                    *)
(***************************************************************************)
EXTENDS Naturals, Sequences, SequencesExt, FiniteSets, TLC

CONSTANTS
  Symbols,    \* what a user writes formats of
  Messages,   \* messages logged, with the symbols in them
  Values,     \* what the build substitutes for the other specifiers
  Custom,     \* the custom format specifiers installed, in order
  MaxFormat   \* bound: symbols in a format

\* Those conditionalAddFlag is called for; the others that DefaultLogBuilder
\* substitutes are treated as "%func" is.
Flagged == {"%level", "%logger", "%user", "%func", "%msg"}
Specifiers == Flagged \cup {"%datetime"}

\* What the constants must satisfy.
LogFormatAssumption ==
  /\ DOMAIN Values = (Specifiers \ {"%msg"}) \cup Range(Custom)
  /\ Range(Custom) \cap Specifiers = {} /\ MaxFormat \in Nat

VARIABLE userFormat   \* m_userFormat

-------------------------------------------------------------------------------
(***************************************************************************)
(* Substitution.                                                           *)
(***************************************************************************)
At(s, spec) == {k \in DOMAIN s : s[k] = spec}
Escaped(s, k) == k > 1 /\ s[k - 1] = "%"
Free(s, spec) == {k \in At(s, spec) : ~Escaped(s, k)}
Least(ks) == CHOOSE k \in ks : \A j \in ks : k <= j

\* s without the symbols at the positions ks.
Erase(s, ks) == [k \in 1..Len(s) - Cardinality(ks) |->
                  LET left == CHOOSE j \in DOMAIN s \ ks :
                                Cardinality({i \in DOMAIN s \ ks : i <= j}) = k
                  IN s[left]]

\* Str::replaceFirstWithEscape: escapes go until the first specifier that is
\* not escaped, which is replaced.
replaceFirstWithEscape(s, spec, value) ==
  LET first == IF Free(s, spec) = {} THEN Len(s) + 1 ELSE Least(Free(s, spec))
      escapes == {k - 1 : k \in {k \in At(s, spec) : k < first}}
      head == SubSeq(s, 1, first - 1)
  IN Erase(head, escapes) \o (IF first > Len(s) THEN <<>> ELSE value \o SubSeq(s, first + 1, Len(s)))

-------------------------------------------------------------------------------
(***************************************************************************)
(* LogFormat::parseFromFormat.                                             *)
(***************************************************************************)
\* conditionalAddFlag: the flag is set if a specifier is not escaped; escapes
\* after that one are removed here, those before it when it is replaced.
conditionalAddFlag(s, spec) ==
  IF Free(s, spec) = {} THEN s
  ELSE Erase(s, {k - 1 : k \in {k \in At(s, spec) : k > Least(Free(s, spec)) /\ Escaped(s, k)}})

\* The first "%datetime" that is not escaped.  If all are, the loop tests the
\* character at position npos - 1, two before the text; that is a byte of a
\* length or a size, which is zero.
\* updateDateFormat: the braces after it and what is in them are cut out.
updateDateFormat(s) ==
  IF Free(s, "%datetime") = {} THEN s
  ELSE LET k == Least(Free(s, "%datetime"))
           ends == {j \in DOMAIN s : j > k /\ s[j] = "}"}
           end == IF ends = {} THEN Len(s) ELSE Least(ends)
       IN IF k < Len(s) /\ s[k + 1] = "{" THEN SubSeq(s, 1, k) \o SubSeq(s, end + 1, Len(s)) ELSE s

FlagOrder == <<"%level", "%logger", "%func", "%user", "%msg">>
FlagsOf(s) == {spec \in Specifiers : Free(s, spec) # {}}

\* updateFormatSpec, then resolveLoggerFormatSpec: the level and the logger's id
\* are substituted whether their flags are set or not.
Resolve(s, spec, value, always) ==
  IF always \/ spec \in FlagsOf(userFormat) THEN replaceFirstWithEscape(s, spec, value) ELSE s

m_format ==
  LET parsed == updateDateFormat(FoldLeft(conditionalAddFlag, userFormat, FlagOrder))
      level == Resolve(parsed, "%level", Values["%level"], TRUE)
      user == Resolve(level, "%user", Values["%user"], FALSE)
  IN Resolve(user, "%logger", Values["%logger"], TRUE)

\* Mutant: the message is substituted before the function name.
buildMessageFirst(message) ==
  LET msg == Resolve(m_format, "%msg", message, FALSE)
      date == Resolve(msg, "%datetime", Values["%datetime"], FALSE)
      func == Resolve(date, "%func", Values["%func"], FALSE)
  IN FoldLeft(LAMBDA s, c : replaceFirstWithEscape(s, c, Values[c]), func, Custom)

\* DefaultLogBuilder::build: the custom specifiers come after the message.
build(message) ==
  LET date == Resolve(m_format, "%datetime", Values["%datetime"], FALSE)
      func == Resolve(date, "%func", Values["%func"], FALSE)
      msg == Resolve(func, "%msg", message, FALSE)
  IN FoldLeft(LAMBDA s, c : replaceFirstWithEscape(s, c, Values[c]), msg, Custom)

-------------------------------------------------------------------------------
Init == userFormat = <<>>

Write(c) == Len(userFormat) < MaxFormat /\ userFormat' = Append(userFormat, c)

Next == \E c \in Symbols : Write(c)

Spec == Init /\ [][Next]_userFormat

-------------------------------------------------------------------------------
(***************************************************************************)
(* Properties.                                                             *)
(***************************************************************************)

\* The line, read off the format symbol by symbol: the first free occurrence of
\* each specifier is its value, further ones stay as written, and an escape
\* before a specifier is dropped exactly when that specifier is substituted
\* somewhere (or always is).
Cut == updateDateFormat(userFormat)
Unescapes(spec) == spec \in FlagsOf(userFormat) \cup {"%level", "%logger"} \cup Range(Custom)
Shown(k, message) ==
  LET c == Cut[k] IN
  IF c \in Specifiers \cup Range(Custom) /\ k \in Free(Cut, c) /\ k = Least(Free(Cut, c))
  THEN IF c = "%msg" THEN message ELSE Values[c]
  ELSE IF c = "%" /\ k < Len(Cut) /\ Cut[k + 1] \in Specifiers \cup Range(Custom)
            /\ Unescapes(Cut[k + 1])
            /\ (Cut[k + 1] \in Flagged \/ \A j \in Free(Cut, Cut[k + 1]) : k < j)
  THEN <<>> ELSE <<c>>

Line(message) == FlattenSeq([k \in DOMAIN Cut |-> Shown(k, message)])

\* A specifier in the braces of the date sets its flag before the braces go, and
\* then an escape of it behind them is lost.
DateIsPlain ==
  \A k \in At(userFormat, "{") :
    \A j \in k..Len(userFormat) : userFormat[j] = "}" \/ userFormat[j] \notin Flagged
                                    \/ \E i \in k..j : userFormat[i] = "}"

\* Every message comes out as the format says: no substitution disturbs
\* another, and specifiers and escapes inside the message are left alone.  With
\* custom specifiers, which are searched for in the message too, it must have
\* none and not end in an escape.
Undisturbed(message) ==
  Custom # <<>> => /\ Range(message) \cap Range(Custom) = {}
                   /\ message = <<>> \/ Last(message) # "%"

BuiltAsWritten ==
  DateIsPlain => \A message \in Messages :
                   Undisturbed(message) => build(message) = Line(message)
===============================================================================
