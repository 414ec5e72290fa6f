---------------------------- MODULE MemoryStream ----------------------------
(***************************************************************************)
(* Stream/MemoryStream.h and the parts of Stream/Stream.h built on it: a   *)
(* file in a block of memory.  m_allocated is the size the block had when  *)
(* the stream was opened; Write does not update it when it reallocates.    *)
(* Where a call leaves the block too small, never returns or reads outside *)
(* of it, the stream is "lost": what happens to it then is undefined.      *)
(***************************************************************************)
EXTENDS Integers, Sequences, FiniteSets

CONSTANTS
  Streams,   \* the MemoryStream objects
  Bytes,     \* what is written
  Texts,     \* the writes of the caller to each stream
  Seeks,     \* the positions it seeks
  JUNK,      \* memory that was not written
  FirstSize, \* 4096 in the code, the size of the block of Create
  Prefilled, \* what each stream was opened with in the initial state
  MaxLength, \* bound: the length of each stream
  MaxCalls   \* bound: calls other than Read and Seek

VARIABLES
  mem,    \* the members of each stream and the block at m_p
  owner,  \* whether m_p is open, and m_owned; or that the stream is lost
  calls   \* how many calls were made, without Read and Seek

vars == <<mem, owner, calls>>

NoBlock == [i \in {} |-> JUNK]
Closed == [block |-> NoBlock, allocated |-> 0, length |-> 0, pos |-> 0]
Block(s, n) == [i \in 0 .. n - 1 |-> IF i < Len(s) THEN s[i + 1] ELSE JUNK]
Opened(s, size) == [block |-> Block(s, size), allocated |-> size, length |-> Len(s), pos |-> 0]

Size(m) == Cardinality(DOMAIN m.block)
Contents(m) == [i \in 1 .. m.length |-> m.block[i - 1]]
IsOpen(s) == owner[s] \in {"lent", "owned"}

\* m_allocated doubled, and again until n bytes fit
Doubled(m, n) ==
  LET size[k \in 0 .. n] ==
        IF k = 0 THEN 2 * m.allocated
        ELSE IF size[k - 1] >= n THEN size[k - 1] ELSE 2 * size[k - 1]
  IN  size[n]

\* realloc to a size that need not be larger than the one before
Grown(m, n) ==
  IF n <= m.allocated THEN m
  ELSE [m EXCEPT !.block = [i \in 0 .. Doubled(m, n) - 1 |-> IF i < Size(m) THEN m.block[i] ELSE JUNK]]

\* mutant: m_length is where the write ended
Written_Length(m, t) ==
  LET g == Grown(m, m.pos + Len(t))
  IN  [g EXCEPT !.pos = @ + Len(t), !.length = m.pos + Len(t),
                !.block = [i \in DOMAIN g.block |->
                             IF i \in m.pos .. m.pos + Len(t) - 1 THEN t[i - m.pos + 1] ELSE @[i]]]

Written(m, t) ==
  LET g == Grown(m, m.pos + Len(t))
      end == m.pos + Len(t)
  IN  [g EXCEPT !.pos = end, !.length = IF end > @ THEN end ELSE @,
                !.block = [i \in DOMAIN g.block |->
                             IF i \in m.pos .. end - 1 THEN t[i - m.pos + 1] ELSE @[i]]]

\* what Read copies out: less than n bytes at the end
Got(m, n) ==
  LET cb == IF m.pos + n >= m.length THEN m.length - m.pos ELSE n
  IN  [i \in 1 .. cb |-> m.block[m.pos + i - 1]]

----------------------------------------------------------------------------
\* Whether Write of n bytes leaves a block that holds m_length bytes.  Doubling a
\* first size of 0 never ends, and the size that is asked for need not be as large
\* as the block was.
Keeps(m, n) ==
  LET end == m.pos + n
  IN  end > m.allocated => m.allocated > 0 /\ Doubled(m, end) >= m.length
InBounds(s, n) == owner[s] = "owned" => mem[s].pos + n <= MaxLength[s]

Set(s, m) == mem' = [mem EXCEPT ![s] = m]
Put(s, m, o) == Set(s, m) /\ owner' = [owner EXCEPT ![s] = o]
Lose(s) == Put(s, Closed, "lost")

Create(s) == owner[s] = "closed" /\ Put(s, Opened(<<>>, FirstSize), "owned")
\* Open of the caller's memory, and Init, which copies it
Open(s, b, how) == owner[s] = "closed" /\ Len(b) <= MaxLength[s] /\ Put(s, Opened(b, Len(b)), how)
\* Close, the destructor and CloseAndDetach
Close(s) == IsOpen(s) /\ Put(s, Closed, "closed")

\* past the end the number of bytes that are left is below 0, which is a large one;
\* so it is when Copy or ReadFrom begin with a Read there
Read(s, n) ==
  /\ IsOpen(s)
  /\ IF mem[s].pos <= mem[s].length
     THEN Put(s, [mem[s] EXCEPT !.pos = @ + Len(Got(mem[s], n))], owner[s])
     ELSE Lose(s)
\* a stream that does not own its memory refuses
Write(s, t) ==
  /\ owner[s] = "owned" /\ InBounds(s, Len(t))
  /\ IF Keeps(mem[s], Len(t)) THEN Put(s, Written(mem[s], t), owner[s]) ELSE Lose(s)
\* SEEK_SET, SEEK_CUR and SEEK_END to a position that is not below 0
Seek(s, p) == IsOpen(s) /\ Put(s, [mem[s] EXCEPT !.pos = p], owner[s])
\* a Write of nothing, and m_length is where it ended
Truncate(s) ==
  /\ owner[s] = "owned" /\ InBounds(s, 0)
  /\ IF mem[s].pos > 0 /\ mem[s].allocated = 0 THEN Lose(s)
     ELSE Put(s, [Written(mem[s], <<>>) EXCEPT !.length = mem[s].pos], owner[s])

\* the block changes hands and m_allocated becomes the length; the destination
\* owns the block whether the source did or not
MoveFrom(d, s) ==
  /\ d # s /\ IsOpen(s) /\ owner[d] # "lost" /\ mem[s].length <= MaxLength[d]
  /\ mem' = [mem EXCEPT ![d] = [mem[s] EXCEPT !.allocated = mem[s].length, !.pos = 0],
                        ![s] = Closed]
  /\ owner' = [owner EXCEPT ![d] = "owned", ![s] = "closed"]

\* One turn of Stream::Copy, of n bytes: what was read, and memory nobody wrote when
\* less was left, is written.
Padded(m, n) == LET got == Got(m, n) IN [i \in 1 .. n |-> IF i <= Len(got) THEN got[i] ELSE JUNK]
Copy(d, s, n) ==
  LET t == Padded(mem[s], n)
      u == [mem[s] EXCEPT !.pos = @ + Len(Got(mem[s], n))]
      puts(m, o) == mem' = [mem EXCEPT ![d] = m, ![s] = u] /\ owner' = [owner EXCEPT ![d] = o]
  IN  /\ d # s /\ IsOpen(d) /\ IsOpen(s) /\ mem[s].pos <= mem[s].length /\ InBounds(d, n)
      /\ \/ owner[d] = "lent" /\ puts(mem[d], "lent")
         \/ owner[d] = "owned" /\ Keeps(mem[d], n) /\ puts(Written(mem[d], t), "owned")
         \/ owner[d] = "owned" /\ ~Keeps(mem[d], n) /\ puts(Closed, "lost")

\* WriteTo: the length as a value, then the whole block
WriteTo(s, d) ==
  LET m == Written(mem[d], <<mem[s].length>>)
  IN  /\ d # s /\ IsOpen(s) /\ owner[d] = "owned" /\ InBounds(d, 1 + mem[s].length)
      /\ IF Keeps(mem[d], 1) /\ Keeps(m, mem[s].length)
         THEN Put(d, Written(m, Contents(mem[s])), owner[d]) ELSE Lose(d)

\* ReadFrom: a length and so many bytes; nothing is opened when less are left
ReadFrom(d, s) ==
  LET len == mem[s].block[mem[s].pos]
      at == mem[s].pos + 1
  IN  /\ d # s /\ owner[d] = "closed" /\ IsOpen(s) /\ at <= mem[s].length
      /\ \/ /\ len \in 0 .. mem[s].length - at /\ len <= MaxLength[d]
            /\ mem' = [mem EXCEPT ![d] = Opened(Got([mem[s] EXCEPT !.pos = at], len), len), ![s].pos = at + len]
            /\ owner' = [owner EXCEPT ![d] = "owned"]
         \/ len \notin 0 .. mem[s].length - at /\ Put(s, [mem[s] EXCEPT !.pos = mem[s].length], owner[s])

\* where no length is left the code uses one that nobody set: if it is 0 a stream is
\* opened, and if not nothing happens
ReadNothing(d, s) ==
  /\ d # s /\ owner[d] = "closed" /\ IsOpen(s) /\ mem[s].pos = mem[s].length
  /\ Put(d, Opened(<<>>, 0), "owned")

Init ==
  /\ mem = [s \in Streams |-> IF Prefilled[s] = <<>> THEN Opened(<<>>, FirstSize)
                                ELSE Opened(Prefilled[s], Len(Prefilled[s]))]
  /\ owner = [s \in Streams |-> "owned"] /\ calls = 0
Look(s) ==
  \/ \E n \in {1, mem[s].length + 1} : Read(s, n)
  \/ \E p \in Seeks[s] : Seek(s, p)
Change(s) ==
  \/ Create(s) \/ Close(s) \/ Truncate(s)
  \/ \E b \in Texts[s] : Write(s, b) \/ \E how \in {"owned", "lent"} : Open(s, b, how)
  \/ \E d \in Streams :
       \/ MoveFrom(d, s) \/ WriteTo(s, d) \/ ReadFrom(d, s) \/ ReadNothing(d, s)
       \/ \E n \in 1 .. mem[s].length + 1 - mem[s].pos : Copy(d, s, n)
Next ==
  \E s \in Streams :
    \/ Look(s) /\ UNCHANGED calls
    \/ calls < MaxCalls /\ calls' = calls + 1 /\ Change(s)

----------------------------------------------------------------------------
\* Every value is in its range.
TypeOK ==
  /\ calls \in 0 .. MaxCalls
  /\ \A s \in Streams :
       /\ owner[s] \in {"closed", "lent", "owned", "lost"}
       /\ mem[s].length \in 0 .. MaxLength[s] /\ mem[s].pos \in 0 .. MaxLength[s] + 1

\* The block is as large as the contents and as m_allocated say.
Sound == \A s \in Streams : mem[s].length <= Size(mem[s]) /\ mem[s].allocated <= Size(mem[s])

File == INSTANCE ByteFile WITH
  bytes <- [s \in Streams |-> Contents(mem[s])],
  pos <- [s \in Streams |-> mem[s].pos],
  first <- [s \in Streams |-> mem[s].allocated]

\* The stream is a sequence of bytes with a position, and is lost only by the calls
\* that the file names.
ImplementsFile == File!Spec
=============================================================================
