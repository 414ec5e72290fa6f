------------------------------ MODULE Encoding ------------------------------
(***************************************************************************)
(* Encoding (src/Core/Encoding.h): UTF-8, UTF-16 and UTF-32, one unit at a *)
(* time.  A decoder keeps what it has of a character between two units;    *)
(* the pairs the code has no encoder of its own for go through UTF-32.     *)
(* Units and code points are numbers; a text ends before its NUL.          *)
(*                                                                         *)
(* The decoders check nothing: after the first byte of a character they    *)
(* take what follows for the rest of it.                                   *)
(***************************************************************************)
EXTENDS Integers, Sequences, SequencesExt

\* Encoding<char, char32_t>: bytes that begin no character are skipped.
Idle8 == [pending |-> 0, count |-> 0, out |-> <<>>]
Process8(s, in) ==
  LET Begin(bits, n) == [s EXCEPT !.pending = in % bits, !.count = n]
      more == s.pending * 64 + (in % 64)
  IN IF s.count = 0
     THEN CASE in < 128 -> [s EXCEPT !.out = Append(@, in)]
            [] in \div 32 = 6 -> Begin(32, 1)
            [] in \div 16 = 14 -> Begin(16, 2)
            [] in \div 8 = 30 -> Begin(8, 3)
            [] OTHER -> s
     ELSE [pending |-> more, count |-> s.count - 1,
           out |-> IF s.count = 1 THEN Append(s.out, more) ELSE s.out]

\* Encoding<char16_t, char32_t>
Idle16 == [pending |-> 0, out |-> <<>>]
Process16(s, in) ==
  CASE in \in 55296 .. 56319 -> [s EXCEPT !.pending = in]
    [] in \in 56320 .. 57343 ->
         [pending |-> 0, out |-> Append(s.out, 65536 + (s.pending % 1024) * 1024 + (in % 1024))]
    [] OTHER -> [pending |-> 0, out |-> Append(s.out, in)]

\* Encoding<char32_t, char16_t>
To16(in) ==
  IF in >= 65536
  THEN <<55296 + (((in - 65536) \div 1024) % 1024), 56320 + ((in - 65536) % 1024)>>
  ELSE <<in>>


\* Encoding<char32_t, char>
To8(in) ==
  LET Tail6(n) == 128 + ((in \div 64^n) % 64)
  IN CASE in < 128 -> <<in>>
       [] in >= 128 /\ in < 2048 -> <<192 + ((in \div 64) % 32), Tail6(0)>>
       [] in >= 2048 /\ in < 65536 -> <<224 + ((in \div 4096) % 16), Tail6(1), Tail6(0)>>
       [] OTHER -> <<240 + ((in \div 262144) % 8), Tail6(2), Tail6(1), Tail6(0)>>

\* Encode, from and to each form.
Decode8(text) == FoldLeft(Process8, Idle8, text)
Decode16(text) == FoldLeft(Process16, Idle16, text)
Encode8(text) == FlattenSeq([i \in DOMAIN text |-> To8(text[i])])
Encode16(text) == FlattenSeq([i \in DOMAIN text |-> To16(text[i])])
Encode8To16(text) == Encode16(Decode8(text).out)
Encode16To8(text) == Encode8(Decode16(text).out)

----------------------------------------------------------------------------
\* A text comes back as it was through each form and from one form through the
\* other, the units fit their types, a decoder has nothing left at the end of a
\* whole text, and bytes before a text that begin no character do no harm.
EncodingExact(text) ==
  LET utf8 == Encode8(text)
      utf16 == Encode16(text)
  IN /\ Decode8(utf8) = [Decode8(utf8) EXCEPT !.count = 0, !.out = text]
     /\ Decode16(utf16) = [pending |-> 0, out |-> text]
     /\ Encode8To16(utf8) = utf16 /\ Encode16To8(utf16) = utf8
     /\ ToSet(utf8) \subseteq 1 .. 255 /\ ToSet(utf16) \subseteq 1 .. 65535
     /\ \A stray \in {128, 191, 248, 255} : Decode8(<<stray>> \o utf8).out = text
=============================================================================
