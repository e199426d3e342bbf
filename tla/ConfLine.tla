------------------------------- MODULE ConfLine -------------------------------
(***************************************************************************)
(* How one line of an easylogging configuration is taken apart             *)
(* (Configurations::Parser): comments are cut off, quotes around the value *)
(* are stripped.  A line is typed character by character; positions count  *)
(* from 0, as in the code.                                                 *)
(***************************************************************************)
EXTENDS Naturals, Sequences, FiniteSetsExt

CONSTANT MaxLen   \* bound: the length of a line

\* What the constants must satisfy.
ConfLineAssumption == MaxLen \in Nat

Quote == "quote"
Slash == "backslash"
Hash  == "##"         \* kConfigurationComment, as one character
Chars == {Quote, Slash, Hash, "a"}

VARIABLE line

npos == MaxLen + 10

\* std::string: at, find, substr, erase.
At(s, i) == s[i + 1]
find(s, c, from) ==
  LET found == {i \in from .. (Len(s) - 1) : At(s, i) = c}
  IN  IF found = {} THEN npos ELSE Min(found)
substr(s, from, count) == SubSeq(s, from + 1, Min({from + count, Len(s)}))
erase(s, i) == substr(s, 0, i) \o substr(s, i + 1, Len(s))

\* npos + 1 is 0.
After(i) == IF i = npos THEN 0 ELSE i + 1

\* The closing quote for ignoreComments: a quote after a backslash is passed
\* over, with the character behind it.
ClosingQuote(s) ==
  LET next[i \in 0 .. (npos + 2)] ==
        LET e == find(s, Quote, i)
        IN  IF e # npos /\ At(s, e - 1) = Slash THEN next[e + 2] ELSE e
  IN  IF find(s, Quote, 0) = npos THEN npos ELSE next[find(s, Quote, 0) + 1]

\* Mutant: quotes are not looked at.
ignoreCommentsAnywhere(s) ==
  IF find(s, Hash, 0) = npos THEN s ELSE substr(s, 0, find(s, Hash, 0))

ignoreComments(s) ==
  LET first == find(s, Hash, 0)
      at == IF first < ClosingQuote(s) THEN find(s, Hash, After(ClosingQuote(s))) ELSE first
  IN  IF first = npos THEN s ELSE substr(s, 0, at)

\* The loop of parseLine that removes the backslashes: the value and where it
\* takes the quotes to end.
Unescape(s, start) ==
  LET next[n \in 0 .. MaxLen] ==
        IF n = 0 THEN [value |-> s, e |-> find(s, Quote, start + 1)]
        ELSE LET r == next[n - 1]
             IN  IF r.e # npos /\ At(r.value, r.e - 1) = Slash
                   THEN LET v == erase(r.value, r.e - 1) IN [value |-> v, e |-> find(v, Quote, r.e + 2)]
                   ELSE r
  IN  next[MaxLen]

\* The value of parseLine: the text from the opening quote on, of the length
\* the closing quote's position gives.
stripQuotes(s) ==
  LET start == find(s, Quote, 0)
      r == Unescape(s, start)
  IN  IF start = npos THEN s
      ELSE IF r.e = npos \/ start + 1 = r.e THEN r.value
      ELSE substr(r.value, start + 1, r.e - 1)

-------------------------------------------------------------------------------
Init == line = << >>

Type(c) == Len(line) < MaxLen /\ line' = Append(line, c)

Next == \E c \in Chars : Type(c)

Spec == Init /\ [][Next]_line

-------------------------------------------------------------------------------
Plain(s) == \A i \in DOMAIN s : s[i] # Slash
Quoted(s, i) == \E a, b \in 0 .. (Len(s) - 1) : a = find(s, Quote, 0) /\ b = find(s, Quote, a + 1) /\ a < i /\ i < b

\* A comment starts at the first ## that is not inside the quotes, on a line
\* without backslashes whose quotes do not follow a ## (there the code takes
\* the ## before the quotes for part of them).
CommentStripped ==
  (Plain(line) /\ ~(find(line, Hash, 0) < find(line, Quote, 0) /\ ClosingQuote(line) # npos)) =>
    LET marks == {i \in 0 .. (Len(line) - 1) : At(line, i) = Hash /\ ~Quoted(line, i)}
    IN  ignoreComments(line) = IF marks = {} THEN line ELSE substr(line, 0, Min(marks))

\* Whatever is put in quotes at the start of a value and has no quote or
\* backslash in it is the value; "" stays as it is.
QuotesStripped ==
  \A i \in 2 .. Len(line) :
    (/\ Plain(line) /\ line[1] = Quote /\ line[i] = Quote
     /\ \A j \in 2 .. (i - 1) : line[j] # Quote)
       => stripQuotes(line) = IF i = 2 THEN line ELSE SubSeq(line, 2, i - 1)
===============================================================================
