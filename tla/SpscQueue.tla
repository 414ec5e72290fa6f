------------------------------ MODULE SpscQueue ------------------------------
(***************************************************************************)
(* Threading/SpscQueue.h: a ring of m_iCapacity cells for one writer and   *)
(* one reader, empty when the two positions are equal, full when the       *)
(* writer's is just behind the reader's.  Each thread alone stores its own *)
(* position; one action is one look at the other's, or one use of a cell.  *)
(***************************************************************************)
EXTENDS Integers, Sequences

CONSTANTS
  Values,    \* the elements
  NONE,      \* no element
  SpscSizes, \* the values of m_iCapacity, at least 1
  MaxWrites  \* bound: writes

VARIABLES
  ring,    \* m_pMem
  wpos,    \* m_pWritePos
  rpos,    \* m_pReadPos
  wcall,   \* the call of the writer: where it is, its value, wasEmpty
  rcall,   \* the call of the reader: where it is, its place, the value it has
  writes   \* how many writes began

vars == <<ring, wpos, rpos, wcall, rcall, writes>>

Capacity == Len(ring)
\* cell p is ring[p + 1]
AdvancePtr(p) == IF p + 1 = Capacity THEN 0 ELSE p + 1
WriterIdle == [at |-> "idle", val |-> NONE, must |-> FALSE, wasEmpty |-> FALSE]
ReaderIdle == [at |-> "idle", place |-> 0, val |-> NONE]
Fresh(n) == [i \in 1 .. n |-> NONE]
----------------------------------------------------------------------------
(* The writer: MustWrite and TryWrite *)

CallWrite(v, must) ==
  /\ wcall.at = "idle" /\ writes < MaxWrites
  /\ wcall' = [at |-> "full", val |-> v, must |-> must, wasEmpty |-> FALSE]
  /\ writes' = writes + 1
  /\ UNCHANGED <<ring, wpos, rpos, rcall>>

IsLikelyFull == AdvancePtr(wpos) = rpos

\* the load of m_pReadPos; a MustWrite that finds the ring full asserts
FindRoom ==
  /\ wcall.at = "full"
  /\ wcall' = IF IsLikelyFull THEN WriterIdle
              ELSE [wcall EXCEPT !.at = IF wcall.must THEN "empty" ELSE "store"]
  /\ UNCHANGED <<ring, wpos, rpos, rcall, writes>>

\* bool wasEmpty = IsLikelyEmpty()
LookEmpty ==
  /\ wcall.at = "empty"
  /\ wcall' = [wcall EXCEPT !.at = "store", !.wasEmpty = (wpos = rpos)]
  /\ UNCHANGED <<ring, wpos, rpos, rcall, writes>>

Store ==
  /\ wcall.at = "store"
  /\ ring' = [ring EXCEPT ![wpos + 1] = wcall.val]
  /\ wcall' = [wcall EXCEPT !.at = "publish"]
  /\ UNCHANGED <<wpos, rpos, rcall, writes>>

Publish ==
  /\ wcall.at = "publish"
  /\ wpos' = AdvancePtr(wpos)
  /\ wcall' = WriterIdle
  /\ UNCHANGED <<ring, rpos, rcall, writes>>
----------------------------------------------------------------------------
(* The reader: Read, also in a loop as RemoveAll, and Peek *)

IsLikelyEmpty == rpos = wpos

GetLikelyCount == IF wpos < rpos THEN wpos - rpos + Capacity ELSE wpos - rpos

\* a Read that finds the ring empty returns false at once
CallRead ==
  /\ rcall.at = "idle" /\ ~IsLikelyEmpty
  /\ rcall' = [at |-> "copy", place |-> rpos, val |-> NONE]
  /\ UNCHANGED <<ring, wpos, rpos, wcall, writes>>

\* mutant: m_pReadPos is set before the element is copied
Copy_Late ==
  /\ rcall.at = "copy"
  /\ rpos' = AdvancePtr(rpos)
  /\ rcall' = [rcall EXCEPT !.at = "free"]
  /\ UNCHANGED <<ring, wpos, wcall, writes>>

Copy ==
  /\ rcall.at = "copy"
  /\ rcall' = [rcall EXCEPT !.at = "free", !.val = ring[rcall.place + 1]]
  /\ UNCHANGED <<ring, wpos, rpos, wcall, writes>>

FreeCell ==
  /\ rcall.at = "free"
  /\ rpos' = AdvancePtr(rpos)
  /\ rcall' = [rcall EXCEPT !.at = "done"]
  /\ UNCHANGED <<ring, wpos, wcall, writes>>

\* Read returns true
Return ==
  /\ rcall.at = "done"
  /\ rcall' = ReaderIdle
  /\ UNCHANGED <<ring, wpos, rpos, wcall, writes>>

CallPeek(offset) ==
  /\ rcall.at = "idle" /\ offset < GetLikelyCount
  /\ rcall' = [at |-> "peek", val |-> NONE,
               place |-> IF rpos + offset >= Capacity THEN rpos + offset - Capacity ELSE rpos + offset]
  /\ UNCHANGED <<ring, wpos, rpos, wcall, writes>>

Peek ==
  /\ rcall.at = "peek"
  /\ rcall' = ReaderIdle
  /\ UNCHANGED <<ring, wpos, rpos, wcall, writes>>

\* Reset, with no call running: RemoveAll, and a new block for another capacity
Reset(n) ==
  /\ wcall.at = "idle" /\ rcall.at = "idle"
  /\ ring' = IF n = Capacity THEN ring ELSE Fresh(n)
  /\ wpos' = 0 /\ rpos' = 0 /\ UNCHANGED <<wcall, rcall, writes>>
----------------------------------------------------------------------------
Init ==
  /\ \E n \in SpscSizes : ring = Fresh(n)
  /\ wpos = 0 /\ rpos = 0
  /\ wcall = WriterIdle /\ rcall = ReaderIdle /\ writes = 0

WriterStep == FindRoom \/ LookEmpty \/ Store \/ Publish
ReaderStep == Copy \/ FreeCell \/ Return \/ Peek

Next ==
  \/ \E v \in Values, must \in BOOLEAN : CallWrite(v, must)
  \/ WriterStep \/ CallRead \/ ReaderStep
  \/ \E offset \in 0 .. Capacity : CallPeek(offset)
  \/ \E n \in SpscSizes : Reset(n)
----------------------------------------------------------------------------
\* Every value is in its range.
TypeOK ==
  /\ Capacity \in SpscSizes /\ \A i \in 1 .. Capacity : ring[i] \in Values \cup {NONE}
  /\ {wpos, rpos, rcall.place} \subseteq 0 .. Capacity - 1
  /\ wcall.at \in {"idle", "full", "empty", "store", "publish"}
  /\ rcall.at \in {"idle", "copy", "free", "peek", "done"}

\* The reader never looks at the cell the writer is storing in, and what it
\* looks at has been stored.
CellExclusive ==
  rcall.at \in {"copy", "peek"} =>
    /\ wcall.at = "store" => wpos # rcall.place
    /\ ring[rcall.place + 1] # NONE

\* An answer that the queue was empty is still right when the element is
\* published; the opposite answer may be out of date by then.
EmptyIsTrue == wcall.at = "publish" /\ wcall.wasEmpty => IsLikelyEmpty

Queued ==
  [i \in 1 .. GetLikelyCount |->
     ring[(IF rpos + i - 1 >= Capacity THEN rpos + i - 1 - Capacity ELSE rpos + i - 1) + 1]]

Fifo == INSTANCE BoundedFifo WITH
  Threads <- {"reader"}, None <- NONE, Limits <- {n - 1 : n \in SpscSizes},
  limit <- Capacity - 1, items <- Queued,
  hand <- [t \in {"reader"} |-> IF rcall.at = "done" THEN rcall.val ELSE NONE]

\* The ring is a FIFO of m_iCapacity - 1 elements.
ImplementsFifo == Fifo!ASpec
=============================================================================
