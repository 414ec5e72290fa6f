----------------------------- MODULE StringOps -----------------------------
(***************************************************************************)
(* What the functions of StringCore (src/Core/String.h) compute, on        *)
(* sequences of characters.  Offsets count from 0 and -1 means not found,  *)
(* as in the code; texts have no NUL inside.                               *)
(***************************************************************************)
EXTENDS Integers, Sequences, Functions

CONSTANTS Chars,   \* the characters of texts
          Spaces   \* those of them that are white space

First(S) == IF S = {} THEN -1 ELSE CHOOSE i \in S : \A j \in S : i <= j
Last_(S) == IF S = {} THEN -1 ELSE CHOOSE i \in S : \A j \in S : i >= j

\* strncmp of the characters from i on with those of find: equal.
SameAt(text, find, i) ==
  Len(find) <= Len(text) - i /\ SubSeq(text, i + 1, i + Len(find)) = find

\* A negative start counts from the end, a negative length means the rest.
SubString(text, start, length) ==
  LET from == IF start < 0 THEN Len(text) + start ELSE start
  IN SubSeq(text, from + 1, from + IF length < 0 THEN Len(text) - from ELSE length)

Printed(text) == {i \in 0 .. Len(text) - 1 : text[i + 1] \notin Spaces}
LTrim(text) == IF Printed(text) = {} THEN <<>> ELSE SubSeq(text, First(Printed(text)) + 1, Len(text))
RTrim(text) == SubSeq(text, 1, Last_(Printed(text)) + 1)
Trim(text) == RTrim(LTrim(text))

\* The mutant stops before the last place where find fits.
IndexOf_Short(text, find, start) ==
  IF find = <<>> THEN -1
  ELSE First({i \in start .. Len(text) - Len(find) - 1 : SameAt(text, find, i)})

IndexOf(text, find, start) ==
  IF find = <<>> THEN -1
  ELSE First({i \in start .. Len(text) - Len(find) : SameAt(text, find, i)})

LastIndexOf(text, find, start) ==
  IF find = <<>> THEN -1
  ELSE Last_({i \in 0 .. IF start < 0 THEN Len(text) - 1 ELSE start : SameAt(text, find, i)})

IndexOfAny(text, chars, start) == First({i \in start .. Len(text) - 1 : text[i + 1] \in chars})
LastIndexOfAny(text, chars, start) ==
  Last_({i \in 0 .. IF start < 0 THEN Len(text) - 1 ELSE start : text[i + 1] \in chars})

StartsWith(text, find) == SameAt(text, find, 0)
EndsWith(text, find) == Len(find) <= Len(text) /\ SameAt(text, find, Len(text) - Len(find))

\* ReplaceAppend: occurrences from left to right, "max" of them (all when it is
\* not positive: the count is compared after it was raised), the rest as it is.
ReplaceAppend(input, find, replace, max) ==
  LET rest[n \in 0 .. Len(input)] ==  \* for the last n characters
        [left \in -1 .. Len(input) |->
           LET i == Len(input) - n
           IN IF n = 0 THEN <<>>
              ELSE IF left = 0 THEN SubSeq(input, i + 1, Len(input))
              ELSE IF SameAt(input, find, i)
                   THEN replace \o rest[n - Len(find)][IF left < 0 THEN left ELSE left - 1]
                   ELSE <<input[i + 1]>> \o rest[n - 1][left]]
  IN IF find = <<>> THEN input
     ELSE rest[Len(input)][IF max <= 0 \/ max > Len(input) THEN -1 ELSE max]

\* Replace leaves what is before start alone.
Replace(text, find, replace, max, start) ==
  SubSeq(text, 1, start) \o ReplaceAppend(SubSeq(text, start + 1, Len(text)), find, replace, max)

\* Split scans once: a separator ends a part, the end of the text the last one.
Split(text, separators, includeEmpty) ==
  LET add(s, p) == IF includeEmpty \/ p # <<>> THEN Append(s.parts, p) ELSE s.parts
      scan[n \in 0 .. Len(text)] ==
        IF n = 0 THEN [parts |-> <<>>, part |-> <<>>]
        ELSE LET s == scan[n - 1] IN
             IF text[n] \in separators THEN [parts |-> add(s, s.part), part |-> <<>>]
             ELSE [s EXCEPT !.part = Append(@, text[n])]
  IN add(scan[Len(text)], scan[Len(text)].part)

Join(parts, separator) ==
  LET joined[n \in 0 .. Len(parts)] ==
        IF n = 0 THEN <<>>
        ELSE joined[n - 1] \o (IF n > 1 THEN separator ELSE <<>>) \o parts[n]
  IN joined[Len(parts)]

----------------------------------------------------------------------------
\* The functions agree with one another and with what they are for, for a text,
\* a string to find and one to put in its place.
OpsAgree(text, find, replace) ==
  LET occurrences == {i \in 0 .. Len(text) : find # <<>> /\ SameAt(text, find, i)}
      any == Range(find)
      parts == Split(text, any, TRUE)
  IN /\ occurrences = {i \in 0 .. Len(text) : IndexOf(text, find, i) = i}
     /\ \A i \in 0 .. Len(text) :
          /\ IndexOf(text, find, i) = First({o \in occurrences : o >= i})
          /\ LastIndexOf(text, find, i) = Last_({o \in occurrences : o <= i})
     /\ LastIndexOf(text, find, -1) = Last_(occurrences)
     /\ find # <<>> => /\ StartsWith(text, find) = (0 \in occurrences)
                       /\ EndsWith(text, find) = (Len(text) - Len(find) \in occurrences)
     \* Trim takes white space from the ends, all of it and nothing else.
     /\ Trim(text) = LTrim(RTrim(text))
     /\ \A i \in {1, Len(Trim(text))} \cap DOMAIN Trim(text) : Trim(text)[i] \notin Spaces
     /\ Trim(text) = <<>> => Range(text) \subseteq Spaces
     \* Split and Join undo one another; no part has a separator in it.
     /\ Len(find) = 1 => Join(parts, find) = text
     /\ \A i \in DOMAIN parts : Range(parts[i]) \cap any = {}
     /\ Split(text, any, FALSE) = SelectSeq(parts, LAMBDA p : p # <<>>)
     \* One replacement is made at the first occurrence; replacing something by
     \* itself changes nothing, and what shares no character with the replacement
     \* is gone from the text.
     /\ Replace(text, find, find, -1, 0) = text
     /\ Replace(text, find, replace, 1, 0) =
          (IF occurrences = {} THEN text
           ELSE LET i == First(occurrences)
                IN SubString(text, 0, i) \o replace \o SubString(text, i + Len(find), -1))
     /\ (Len(find) = 1 /\ any \cap Range(replace) = {}) =>
          IndexOf(Replace(text, find, replace, -1, 0), find, 0) = -1
=============================================================================
