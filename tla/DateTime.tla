-------------------------------- MODULE DateTime -------------------------------
(***************************************************************************)
(* The date and time of a log line: DateTime::parseFormat writes them into *)
(* a buffer of fixed size, number by number.                               *)
(*                                                                         *)
(* A format is a sequence of specifiers and literal characters; numbers    *)
(* are written digit by digit, a name as one character.                    *)
(***************************************************************************)
EXTENDS Naturals, Sequences, SequencesExt, TLC

CONSTANTS
  BuffSize,   \* kBuffSize: 30 in the code
  Literals,   \* characters copied from a format
  Years, Hours, Microseconds, Widths,   \* times and configured widths
  MaxFormat   \* bound: items in a format

\* What the constants must satisfy.
DateTimeAssumption ==
  /\ BuffSize \in Nat \ {0} /\ MaxFormat \in Nat
  /\ Years \subseteq Nat /\ Hours \subseteq 0..23 /\ Widths \subseteq Nat
  /\ Microseconds \subseteq Nat /\ \A m \in Microseconds : m < 1000000

\* Those with a two-digit number, %d %M %m %s, are written as "%H" is, and the
\* names of days and months as "%F" is.
Specifiers == {"%y", "%Y", "%h", "%H", "%g", "%F", "%%", "%?"}

VARIABLES
  format,   \* the user's format
  time,     \* the year, hour and microsecond
  width     \* the configured milliseconds width

vars == <<format, time, width>>

-------------------------------------------------------------------------------
\* MillisecondsWidth::init.
m_width == IF width \in 1..6 THEN width ELSE 3
m_offset == CASE m_width = 4 -> 100 [] m_width = 5 -> 10 [] m_width = 6 -> 1 [] OTHER -> 1000

\* convertAndAddToBuff up to the call of addToBuff: the last len digits of n,
\* padded with zeros; localBuff has room for eight.
LocalDigits == 8
convert(n, len) ==
  LET digits[k \in 0..LocalDigits] ==   \* the text after k digits, and what is left of n
        IF k = 0 THEN [text |-> <<>>, rest |-> n]
        ELSE LET d == digits[k - 1] IN
             IF k > len THEN d
             ELSE [text |-> <<d.rest % 10>> \o d.text, rest |-> d.rest \div 10]
  IN digits[LocalDigits].text

\* Mutant: the end of the buffer is not tested.
addToBuffUnbounded(text, buf) == buf \o text

\* addToBuff: as much of the text as the buffer has room for.
addToBuff(text, buf) ==
  LET room == BuffSize - Len(buf) IN buf \o SubSeq(text, 1, IF Len(text) < room THEN Len(text) ELSE room)

\* parseFormat, one item of the format.
Item(c) ==
  CASE c = "%y" -> convert(time.year, 2)
    [] c = "%Y" -> convert(time.year, 4)
    [] c = "%h" -> convert(time.hour % 12, 2)
    [] c = "%H" -> convert(time.hour, 2)
    [] c = "%g" -> convert(time.usec \div m_offset, m_width)
    [] c = "%F" -> IF time.hour >= 12 THEN <<"P", "M">> ELSE <<"A", "M">>
    [] c = "%%" -> <<"%">>
    [] c = "%?" -> <<>>
    [] OTHER -> <<c>>

parseFormat == FoldLeft(LAMBDA buf, c : addToBuff(Item(c), buf), <<>>, format)

-------------------------------------------------------------------------------
Init ==
  /\ format = <<>> /\ width \in Widths
  /\ time \in [year : Years, hour : Hours, usec : Microseconds]

Write(c) ==
  /\ Len(format) < MaxFormat /\ format' = Append(format, c)
  /\ UNCHANGED <<time, width>>

Next == \E c \in Specifiers \cup Literals : Write(c)

Spec == Init /\ [][Next]_vars

-------------------------------------------------------------------------------
(***************************************************************************)
(* Properties.                                                             *)
(***************************************************************************)

\* What an item stands for: a number is its last digits in decimal.
Decimal(n, len) == [k \in 1..len |-> (n \div 10 ^ (len - k)) % 10]
Meant(c) ==
  CASE c = "%y" -> Decimal(time.year, 2)
    [] c = "%Y" -> Decimal(time.year, 4)
    [] c = "%h" -> Decimal(time.hour % 12, 2)
    [] c = "%H" -> Decimal(time.hour, 2)
    [] c = "%g" -> Decimal(time.usec \div m_offset, m_width)
    [] c = "%F" -> IF time.hour < 12 THEN <<"A", "M">> ELSE <<"P", "M">>
    [] c = "%%" -> <<"%">>
    [] c = "%?" -> <<>>
    [] OTHER -> <<c>>

\* The buffer holds the text the format stands for, cut off at its size and
\* nowhere else, and nothing is written past its end.
CutAtEnd ==
  LET text == FlattenSeq([k \in DOMAIN format |-> Meant(format[k])]) IN
  parseFormat = SubSeq(text, 1, IF Len(text) < BuffSize THEN Len(text) ELSE BuffSize)
===============================================================================
