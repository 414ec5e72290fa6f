--------------------------- MODULE StringBuilder ---------------------------
(***************************************************************************)
(* StringBuilder (src/Core/StringBuilder.h): characters in a short buffer  *)
(* of the object, later in a block on the heap.  m_iCapacity is the size   *)
(* of the short buffer for ever: Reserve does not store the new capacity,  *)
(* so it decides from the old one, and past it reallocates on every call,  *)
(* to a larger or a smaller block.                                         *)
(*                                                                         *)
(* SyncLength is called after a terminator was written, within its own     *)
(* assertion, which compares with m_iCapacity too.  malloc does not fail.  *)
(* ReplaceAppend and Format append what they make (for ReplaceAppend see   *)
(* StringOps).                                                             *)
(***************************************************************************)
EXTENDS Integers, Sequences, Functions

CONSTANTS Texts,     \* texts to append, their characters not NUL
          NUL, JUNK, \* the terminator, a byte nobody wrote
          Short,     \* size of m_shortBuffer
          CharSizes, \* the sizes of a character, in bytes
          MaxLength  \* bound on the characters in the builder

VARIABLES mem,    \* the characters at m_pMem, as many as the block has
          length, \* m_iLength
          heap,   \* m_pMem is a block of the heap
          built   \* what the last Finish or Detach gave the caller: the text, and
                  \* whether it was copied as wide characters, or freed

vars == <<mem, length, heap, built>>

Capacity == Short
Junk(n) == [i \in 1 .. n |-> JUNK]
Text == SubSeq(mem, 1, length)

\* The capacity doubled until it holds n characters.
Doubled(n) ==
  LET size[k \in 0 .. n] ==
        IF k = 0 THEN Capacity
        ELSE IF size[k - 1] >= n THEN size[k - 1] ELSE 2 * size[k - 1]
  IN  size[n]

\* Reserve: the size of the block after n more characters.
Room(n) == IF length + n <= Capacity THEN Len(mem) ELSE Doubled(length + n)

\* Reserve and the write of text into what it returns.  A byte behind the
\* characters is as good as unwritten.
Appended(text) ==
  /\ length' = length + Len(text)
  /\ heap' = (heap \/ length' > Capacity)
  /\ mem' = [i \in 1 .. Room(Len(text)) |->
       IF i > length' THEN JUNK
       ELSE IF i > length THEN text[i - length]
       ELSE mem[i]]

\* A character, several of them, or a text.
AppendText(text) ==
  /\ length + Len(text) < MaxLength
  /\ Appended(text)
  /\ UNCHANGED built

\* GetBuffer, a text and a terminator written into it, SyncLength.
GetBuffer(n, text) ==
  /\ Len(text) < n /\ n < MaxLength /\ Len(text) <= Capacity
  /\ length' = Len(text)
  /\ heap' = (heap \/ n > Capacity)
  /\ mem' = text \o Junk((IF n <= Capacity THEN Len(mem) ELSE Doubled(n)) - Len(text))
  /\ UNCHANGED built

\* Clear and Truncate keep the block.
Truncate(n) ==
  /\ n < length
  /\ length' = n
  /\ mem' = SubSeq(mem, 1, n) \o Junk(Len(mem) - n)
  /\ UNCHANGED <<heap, built>>

\* The mutant keeps the block and forgets that it has it.
Reset_Kept == length' = 0 /\ heap' = FALSE /\ mem' = Junk(Len(mem))

\* Reset frees the block and returns to the short buffer, whose old bytes nobody
\* reads.
Reset == length' = 0 /\ heap' = FALSE /\ mem' = Junk(Short)

\* Finish appends a terminator unless there is one and returns what is before it.
\* The terminator counts from then on: what is appended later is behind it.
Terminated == length > 0 /\ mem[length] = NUL
Finish ==
  /\ IF Terminated THEN UNCHANGED <<mem, length, heap>> ELSE Appended(<<NUL>>)
  /\ built' = [text |-> SubSeq(mem', 1, length' - 1), wide |-> FALSE, freed |-> FALSE]

\* Detach finishes, which may need a block, and gives away what there is.  A block
\* it gives was freed by Reset; of the short buffer it copies a byte for each character.
Detach(size) ==
  LET text == IF Terminated THEN SubSeq(Text, 1, length - 1) ELSE Text
      freed == heap \/ (~Terminated /\ length + 1 > Capacity)
      copied == IF freed THEN 0 ELSE (Len(text) + 1) \div size
  IN  /\ built' = [text |-> [i \in 1 .. Len(text) |-> IF i <= copied THEN text[i] ELSE JUNK],
                   wide |-> size > 1, freed |-> freed]
      /\ Reset

Init ==
  /\ mem = Junk(Short) /\ length = 0 /\ heap = FALSE
  /\ built = [text |-> <<>>, wide |-> FALSE, freed |-> FALSE]

Next ==
  \/ \E text \in Texts : AppendText(text) \/ \E n \in 1 .. MaxLength : GetBuffer(n, text)
  \/ \E n \in 0 .. MaxLength : Truncate(n)
  \/ Reset /\ UNCHANGED built
  \/ Finish \/ \E size \in CharSizes : Detach(size)

Spec == Init /\ [][Next]_vars
----------------------------------------------------------------------------
TypeOK ==
  /\ length \in 0 .. MaxLength /\ heap \in BOOLEAN
  /\ Text \in Seq((UNION {Range(t) : t \in Texts}) \cup {NUL})

\* The characters are in the block, which has at least the capacity the builder
\* believes it has, and none of them is lost; what Finish gave is whole, and what
\* Detach gave unless it was in a block or of wide characters.
CharactersKept ==
  /\ length <= Len(mem) /\ Capacity <= Len(mem)
  /\ ~heap => Len(mem) = Short
  /\ JUNK \notin Range(Text)
  /\ built.wide \/ built.freed \/ JUNK \notin Range(built.text)
=============================================================================
