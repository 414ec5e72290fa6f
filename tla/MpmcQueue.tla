------------------------------ MODULE MpmcQueue ------------------------------
(***************************************************************************)
(* Threading/MpmcQueue.h: a bounded ring of cells shared by any number of  *)
(* writing and reading threads.  A thread claims a position by a compare   *)
(* and swap on m_iEnqueuePos or m_iDequeuePos and hands the cell over by   *)
(* storing the cell's own sequence number.                                 *)
(*                                                                         *)
(* One action is one atomic access of the code (the loads, the compare and *)
(* swap, the element copy, the releasing store), so every interleaving of  *)
(* those accesses is a behaviour.  Positions and sequence numbers are      *)
(* uint32_t in the code: here they are the naturals they count, and every  *)
(* comparison the code makes is made on them modulo Word.                  *)
(***************************************************************************)
EXTENDS Integers, Sequences, FiniteSets

CONSTANTS
  Threads,     \* threads calling TryWrite and Read
  Values,      \* the elements of type T
  None,        \* contents of a cell or a variable never written
  Capacities,  \* the capacities Reset may be called with
  Word,        \* 2^32 in the code: positions wrap at this value
  MaxLag,      \* bound: claims of others while a thread holds a stale position
  MaxPos       \* bound: writes started since the last Reset

Half == Word \div 2

(***************************************************************************)
(* Reset asserts iCapacity # 1.  That capacities are powers of two makes   *)
(* "position & mask" the remainder by the capacity, before and after the   *)
(* wrap.  A thread would have to sleep through about 2^31 operations of    *)
(* the others for MaxLag to be reached with the code's Word.               *)
(***************************************************************************)
ASSUME CapacityAssumption == Capacities \subseteq (Nat \ {1})
ASSUME WordAssumption ==
  /\ Word \in Nat /\ Half \in Nat /\ Word = 2 * Half
  /\ MaxLag \in Nat
  /\ \A c \in Capacities : MaxLag + c < Half
ASSUME ValueAssumption == None \notin Values

VARIABLES
  cap,      \* m_iCapacity; 0 when m_pCells is null
  enq,      \* m_iEnqueuePos
  deq,      \* m_iDequeuePos
  seq,      \* m_pCells[i].m_iSequence
  val,      \* m_pCells[i].m_Value
  pc,       \* where each thread is in TryWrite or Read
  pos,      \* iPos of each thread
  arg,      \* the argument of TryWrite, then the element Read copies out
  claimed   \* history: the elements in the order their positions were claimed

vars == <<cap, enq, deq, seq, val, pc, pos, arg, claimed>>
cells == <<seq, val>>

\* mutant: the words compared without the cast of their difference
SignedDiff_NoWrap(a, b) == (a % Word) - (b % Word)

\* (int32_t)(a - b) on two uint32_t words
SignedDiff(a, b) ==
  LET d == (a - b) % Word IN IF d < Half THEN d ELSE d - Word

\* a == b on two uint32_t words, the comparison of TrySet
SameWord(a, b) == (a - b) % Word = 0

\* &m_pCells[iPos & m_iMask]
Cell(p) == p % cap

WritePcs == {"w_load", "w_seq", "w_cas", "w_store", "w_publish"}
ReadPcs  == {"r_load", "r_seq", "r_cas", "r_copy", "r_free"}

\* a call that has loaded iPos and has not claimed a position yet
Trying(t) == pc[t] \in {"w_seq", "w_cas", "r_seq", "r_cas"}
WriterIn(t, p) == pc[t] \in {"w_store", "w_publish"} /\ pos[t] = p
ReaderIn(t, p) == pc[t] \in {"r_copy", "r_free"} /\ pos[t] = p

Goto(t, label) == pc' = [pc EXCEPT ![t] = label]
-----------------------------------------------------------------------------
(* TryWrite *)

\* The call; a queue with no cells returns false at once and is not a step.
CallTryWrite(t, v) ==
  /\ pc[t] = "idle" /\ cap # 0
  /\ enq + Cardinality({u \in Threads : pc[u] \in {"w_load", "w_seq", "w_cas"}})
       < MaxPos
  /\ arg' = [arg EXCEPT ![t] = v]
  /\ Goto(t, "w_load")
  /\ UNCHANGED <<cap, enq, deq, seq, val, pos, claimed>>

\* iPos = m_iEnqueuePos.Get(), on entry and after losing the race for a slot
WriteLoad(t) ==
  /\ pc[t] = "w_load"
  /\ pos' = [pos EXCEPT ![t] = enq]
  /\ Goto(t, "w_seq")
  /\ UNCHANGED <<cap, enq, deq, seq, val, arg, claimed>>

\* mutant: a lost race is retried without reading the position again
WriteSeq_NoReload(t) ==
  /\ pc[t] = "w_seq"
  /\ LET dif == SignedDiff(seq[Cell(pos[t])], pos[t])
     IN  Goto(t, IF dif = 0 THEN "w_cas" ELSE IF dif < 0 THEN "idle" ELSE "w_seq")
  /\ UNCHANGED <<cap, enq, deq, seq, val, pos, arg, claimed>>

\* iSeq = pCell->m_iSequence.Get() and the three-way branch on iDif
WriteSeq(t) ==
  /\ pc[t] = "w_seq"
  /\ LET dif == SignedDiff(seq[Cell(pos[t])], pos[t])
     IN  Goto(t, IF dif = 0 THEN "w_cas" ELSE IF dif < 0 THEN "idle" ELSE "w_load")
  /\ UNCHANGED <<cap, enq, deq, seq, val, pos, arg, claimed>>

\* No thread is left further behind than MaxLag by one more claim of a
\* position: claims of a write age the writers, claims of a read the readers.
WriteLagOK ==
  \A u \in Threads : pc[u] \in {"w_seq", "w_cas"} => enq + 1 - pos[u] <= MaxLag
ReadLagOK ==
  \A u \in Threads : pc[u] \in {"r_seq", "r_cas"} => deq + 1 - pos[u] <= MaxLag

\* mutant: the position is stored without the comparison
WriteCas_PlainSet(t) ==
  /\ pc[t] = "w_cas" /\ WriteLagOK
  /\ enq' = pos[t] + 1
  /\ claimed' = [n \in 1 .. pos[t] + 1 |->
                   IF n = pos[t] + 1 THEN arg[t] ELSE claimed[n]]
  /\ Goto(t, "w_store")
  /\ UNCHANGED <<cap, deq, seq, val, pos, arg>>

\* m_iEnqueuePos.TrySet(iPos + 1, iPos).  A failed TrySet loops with iPos
\* unchanged: only the "lost the race" branch loads it again.
WriteCas(t) ==
  /\ pc[t] = "w_cas"
  /\ IF SameWord(enq, pos[t])
     THEN /\ WriteLagOK
          /\ enq' = enq + 1
          /\ claimed' = Append(claimed, arg[t])
          /\ Goto(t, "w_store")
     ELSE /\ Goto(t, "w_seq")
          /\ UNCHANGED <<enq, claimed>>
  /\ UNCHANGED <<cap, deq, seq, val, pos, arg>>

\* Constructor(&pCell->m_Value, t)
WriteStore(t) ==
  /\ pc[t] = "w_store"
  /\ val' = [val EXCEPT ![Cell(pos[t])] = arg[t]]
  /\ Goto(t, "w_publish")
  /\ UNCHANGED <<cap, enq, deq, seq, pos, arg, claimed>>

\* pCell->m_iSequence.Set(iPos + 1); return true
WritePublish(t) ==
  /\ pc[t] = "w_publish"
  /\ seq' = [seq EXCEPT ![Cell(pos[t])] = pos[t] + 1]
  /\ Goto(t, "idle")
  /\ UNCHANGED <<cap, enq, deq, val, pos, arg, claimed>>
-----------------------------------------------------------------------------
(* Read *)

CallRead(t) ==
  /\ pc[t] = "idle" /\ cap # 0
  /\ Goto(t, "r_load")
  /\ UNCHANGED <<cap, enq, deq, seq, val, pos, arg, claimed>>

ReadLoad(t) ==
  /\ pc[t] = "r_load"
  /\ pos' = [pos EXCEPT ![t] = deq]
  /\ Goto(t, "r_seq")
  /\ UNCHANGED <<cap, enq, deq, seq, val, arg, claimed>>

ReadSeq(t) ==
  /\ pc[t] = "r_seq"
  /\ LET dif == SignedDiff(seq[Cell(pos[t])], pos[t] + 1)
     IN  Goto(t, IF dif = 0 THEN "r_cas" ELSE IF dif < 0 THEN "idle" ELSE "r_load")
  /\ UNCHANGED <<cap, enq, deq, seq, val, pos, arg, claimed>>

\* mutant: the cell is freed for the next lap before it is copied out
ReadCas_FreeEarly(t) ==
  /\ pc[t] = "r_cas" /\ ReadLagOK /\ SameWord(deq, pos[t])
  /\ deq' = deq + 1
  /\ seq' = [seq EXCEPT ![Cell(pos[t])] = pos[t] + cap]
  /\ Goto(t, "r_copy")
  /\ UNCHANGED <<cap, enq, val, pos, arg, claimed>>

\* m_iDequeuePos.TrySet(iPos + 1, iPos)
ReadCas(t) ==
  /\ pc[t] = "r_cas"
  /\ IF SameWord(deq, pos[t])
     THEN /\ ReadLagOK
          /\ deq' = deq + 1
          /\ Goto(t, "r_copy")
     ELSE /\ Goto(t, "r_seq")
          /\ UNCHANGED deq
  /\ UNCHANGED <<cap, enq, seq, val, pos, arg, claimed>>

\* memcpy(&Value, &pCell->m_Value, sizeof(T))
ReadCopy(t) ==
  /\ pc[t] = "r_copy"
  /\ arg' = [arg EXCEPT ![t] = val[Cell(pos[t])]]
  /\ Goto(t, "r_free")
  /\ UNCHANGED <<cap, enq, deq, seq, val, pos, claimed>>

\* pCell->m_iSequence.Set(iPos + m_iCapacity); return true
ReadFree(t) ==
  /\ pc[t] = "r_free"
  /\ seq' = [seq EXCEPT ![Cell(pos[t])] = pos[t] + cap]
  /\ Goto(t, "idle")
  /\ UNCHANGED <<cap, enq, deq, val, pos, arg, claimed>>
-----------------------------------------------------------------------------
\* mutant: the loop over the cells runs one too far
Fresh_OffByOne(c) ==
  /\ cap' = c /\ enq' = 0 /\ deq' = 0
  /\ seq' = [i \in 0 .. c |-> i]
  /\ val' = [i \in 0 .. c - 1 |-> None]
  /\ claimed' = <<>>

(***************************************************************************)
(* Reset: drops the elements (RemoveAll), frees the cells and starts again *)
(* at position 0.  Not thread safe, so no call is in progress; capacity 0  *)
(* leaves a queue with no cells.                                           *)
(***************************************************************************)
Fresh(c) ==
  /\ cap' = c /\ enq' = 0 /\ deq' = 0
  /\ seq' = [i \in 0 .. c - 1 |-> i]
  /\ val' = [i \in 0 .. c - 1 |-> None]
  /\ claimed' = <<>>

Reset(c) ==
  /\ \A t \in Threads : pc[t] = "idle"
  /\ Fresh(c)
  /\ UNCHANGED <<pc, pos, arg>>

Init ==
  /\ cap \in Capacities /\ enq = 0 /\ deq = 0
  /\ seq = [i \in 0 .. cap - 1 |-> i]
  /\ val = [i \in 0 .. cap - 1 |-> None]
  /\ pc = [t \in Threads |-> "idle"]
  /\ pos = [t \in Threads |-> 0]
  /\ arg = [t \in Threads |-> None]
  /\ claimed = <<>>

\* the steps a call makes once it has started
Step(t) ==
  \/ WriteLoad(t) \/ WriteSeq(t) \/ WriteCas(t) \/ WriteStore(t) \/ WritePublish(t)
  \/ ReadLoad(t) \/ ReadSeq(t) \/ ReadCas(t) \/ ReadCopy(t) \/ ReadFree(t)

Next ==
  \/ \E t \in Threads, v \in Values : CallTryWrite(t, v)
  \/ \E t \in Threads : CallRead(t)
  \/ \E t \in Threads : Step(t)
  \/ \E c \in Capacities : Reset(c)

Spec == Init /\ [][Next]_vars

\* Threads are scheduled by the operating system: none stays runnable for
\* ever without running.  Nobody is obliged to start a call.
FairSpec == Spec /\ \A t \in Threads : WF_vars(Step(t))
-----------------------------------------------------------------------------
(* Properties *)

Typed ==
  /\ cap \in Capacities /\ enq \in Nat /\ deq \in Nat
  /\ seq \in [0 .. cap - 1 -> Nat]
  /\ val \in [0 .. cap - 1 -> Values \union {None}]
  /\ pc \in [Threads -> {"idle"} \union WritePcs \union ReadPcs]
  /\ pos \in [Threads -> Nat]
  /\ arg \in [Threads -> Values \union {None}]
  /\ claimed \in Seq(Values)

\* Every value is in its range, and no call is ahead of the others: the position
\* it holds is one the shared positions have come to, and one they have gone past
\* when it claimed it (they are set back by Reset only).
TypeOK ==
  /\ Typed
  /\ \A t \in Threads :
       /\ pc[t] \in {"w_seq", "w_cas"} => pos[t] <= enq
       /\ pc[t] \in {"w_store", "w_publish"} => pos[t] < enq
       /\ pc[t] \in {"r_seq", "r_cas"} => pos[t] <= deq
       /\ pc[t] \in {"r_copy", "r_free"} => pos[t] < deq

\* No unread element is overwritten: the positions claimed for writing and
\* not yet for reading are never more than the cells, and reads never pass
\* writes (the two compare and swaps of TryWrite and Read).
NeverOverrun == deq <= enq /\ enq <= deq + cap

\* between the claim of a position and the hand-over of its cell
InCell(t) == pc[t] \in {"w_store", "w_publish", "r_copy", "r_free"}

\* The element of a cell is touched by one thread at a time: Constructor in
\* TryWrite and memcpy in Read are plain accesses, ordered only by m_iSequence.
CellExclusive ==
  \A t, u \in Threads :
    t # u /\ InCell(t) /\ InCell(u) => Cell(pos[t]) # Cell(pos[u])

\* Read hands out, for the position it claimed, the element written for that
\* same position: with NeverOverrun, elements leave once and in the order in
\* which TryWrite claimed them, whichever threads run in between.
FifoOrder ==
  \A t \in Threads : pc[t] = "r_free" => arg[t] = claimed[pos[t] + 1]

\* "Queue is full" is answered only when the queue is at its limit: TryWrite's
\* position is the current one and the element written one lap earlier is
\* still unread or still being copied out.  "Queue is empty" likewise: the
\* element Read would take is not claimed, or its writer has not published.
HonestRefusals ==
  [][\A t \in Threads :
       /\ pc[t] = "w_seq" /\ pc'[t] = "idle" =>
            /\ pos[t] = enq
            /\ deq <= enq - cap \/ \E u \in Threads : ReaderIn(u, enq - cap)
       /\ pc[t] = "r_seq" /\ pc'[t] = "idle" =>
            /\ pos[t] = deq
            /\ deq = enq \/ \E u \in Threads : WriterIn(u, deq)]_vars

(***************************************************************************)
(* The inductive invariant behind the four above.  At any moment the cells *)
(* are, for each position p of the lap about to be written, in one of the  *)
(* states the sequence numbers encode: free for p, still being read for    *)
(* p - cap, holding the element of p - cap, still being written for        *)
(* p - cap.  The guarantees of a thread rest on its own place in the code. *)
(***************************************************************************)
Calls ==
  \A t \in Threads :
    /\ pc[t] # "idle" => cap # 0
    /\ pc[t] \in WritePcs => arg[t] \in Values

WriterOK(t) ==
  /\ pc[t] \in {"w_seq", "w_cas"} => pos[t] <= enq /\ enq - pos[t] <= MaxLag
  /\ pc[t] = "w_cas" /\ pos[t] = enq => seq[Cell(pos[t])] = pos[t]
  /\ pc[t] \in {"w_store", "w_publish"} =>
       /\ deq <= pos[t] /\ pos[t] < enq
       /\ seq[Cell(pos[t])] = pos[t]
       /\ arg[t] = claimed[pos[t] + 1]
  /\ pc[t] = "w_publish" => val[Cell(pos[t])] = arg[t]

ReaderOK(t) ==
  /\ pc[t] \in {"r_seq", "r_cas"} => pos[t] <= deq /\ deq - pos[t] <= MaxLag
  /\ pc[t] = "r_cas" /\ pos[t] = deq => seq[Cell(pos[t])] = pos[t] + 1
  /\ pc[t] \in {"r_copy", "r_free"} =>
       /\ enq - cap <= pos[t] /\ pos[t] < deq
       /\ seq[Cell(pos[t])] = pos[t] + 1
       /\ val[Cell(pos[t])] = claimed[pos[t] + 1]
  /\ pc[t] = "r_free" => arg[t] = claimed[pos[t] + 1]

OnePerPosition ==
  \A t, u \in Threads : t # u /\ InCell(t) /\ InCell(u) => pos[t] # pos[u]

CellOK(p) ==
  IF p < deq + cap
  THEN \/ seq[Cell(p)] = p
       \/ \E t \in Threads : ReaderIn(t, p - cap)
  ELSE \/ /\ seq[Cell(p)] = p - cap + 1
          /\ val[Cell(p)] = claimed[p - cap + 1]
       \/ \E t \in Threads : WriterIn(t, p - cap)

\* The cells, the threads and the history agree: what each sequence number
\* tells a thread about its cell is true (the hand-over protocol of
\* TryWrite and Read).
HandOver ==
  /\ Len(claimed) = enq
  /\ NeverOverrun /\ Calls /\ OnePerPosition
  /\ \A t \in Threads : WriterOK(t) /\ ReaderOK(t)
  /\ \A p \in enq .. enq + cap - 1 : CellOK(p)

\* the elements claimed for writing and not for reading, and what readers hold
Fifo ==
  INSTANCE BoundedFifo WITH
    Limits <- Capacities, limit <- cap,
    items <- SubSeq(claimed, deq + 1, enq),
    hand <- [t \in Threads |-> CASE pc[t] = "r_copy" -> val[Cell(pos[t])]
                                  [] pc[t] = "r_free" -> arg[t]
                                  [] OTHER -> None]

\* The queue is a FIFO queue: claiming a position is Put or Take in one step,
\* and what a reader copies out is the element that was the oldest when it
\* claimed its position, left alone by the writers until the cell is freed.
ImplementsFifo == Fifo!ASpec

\* A call of TryWrite or Read returns unless the others keep winning the race
\* for ever: here only MaxPos positions are ever claimed.  In particular the
\* retry after a failed TrySet, which does not read the position again, is
\* released by the thread that won it.
CallsReturn == \A t \in Threads : pc[t] # "idle" ~> pc[t] = "idle"
=============================================================================
