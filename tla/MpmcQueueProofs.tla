--------------------------- MODULE MpmcQueueProofs ---------------------------
(***************************************************************************)
(* Proofs about MpmcQueue, for any threads, values, capacities, word size  *)
(* and number of writes that meet the module's assumptions.                *)
(***************************************************************************)
EXTENDS MpmcQueue, SequenceTheorems, TLAPS

-----------------------------------------------------------------------------
(* Arithmetic of the ring *)

\* Division with remainder.
LEMMA DivMod ==
  ASSUME NEW C \in Nat \ {0}, NEW p \in Nat
  PROVE  /\ p % C \in 0 .. C - 1 /\ p \div C \in Nat
         /\ p = C * (p \div C) + (p % C)
  OBVIOUS

\* Multiples of C are at least C apart.
LEMMA MulLt ==
  ASSUME NEW C \in Nat \ {0}, NEW a \in Int, NEW b \in Int, a < b
  PROVE  C * a + C <= C * b
<1>1. PICK k \in Nat : b = a + 1 + k
  <2>1. b - a - 1 \in Nat /\ b = a + 1 + (b - a - 1)
    OBVIOUS
  <2> QED BY <2>1
<1>2. C * (a + 1 + k) = C * a + C + C * k
  OBVIOUS
<1>3. C * k \in Nat
  OBVIOUS
<1> QED BY <1>1, <1>2, <1>3

\* Positions less than a lap apart are in different cells.
LEMMA ModInj ==
  ASSUME NEW C \in Nat \ {0}, NEW p \in Nat, NEW q \in Nat, p < q, q - p < C
  PROVE  p % C # q % C
<1> SUFFICES ASSUME p % C = q % C PROVE FALSE
  OBVIOUS
<1> DEFINE a == p \div C
           b == q \div C
<1>1. p = C * a + (p % C) /\ q = C * b + (q % C) /\ a \in Nat /\ b \in Nat
  BY DivMod
<1>2. C * a \in Int /\ C * b \in Int
  BY <1>1
<1>3. C * b - C * a = q - p
  BY <1>1, <1>2
<1>4. CASE a < b
  BY <1>4, <1>3, <1>2, MulLt, <1>1
<1>5. CASE b < a
  BY <1>5, <1>3, <1>2, MulLt, <1>1
<1>6. CASE a = b
  BY <1>6, <1>3, <1>2, <1>1
<1> QED BY <1>4, <1>5, <1>6, <1>1

\* Positions a whole lap apart are in the same cell.
LEMMA ModAdd ==
  ASSUME NEW C \in Nat \ {0}, NEW p \in Nat
  PROVE  (p + C) % C = p % C
<1> DEFINE a == p \div C
           b == (p + C) \div C
<1>1. /\ p = C * a + (p % C) /\ a \in Nat /\ p % C \in 0 .. C - 1
      /\ p + C = C * b + ((p + C) % C) /\ b \in Nat /\ (p + C) % C \in 0 .. C - 1
  BY DivMod, p + C \in Nat
<1>2. C * (a + 1) = C * a + C /\ C * a \in Int /\ C * b \in Int
  BY <1>1
<1>3. CASE b < a + 1
  BY <1>1, <1>2, <1>3, MulLt, a + 1 \in Int
<1>4. CASE a + 1 < b
  BY <1>1, <1>2, <1>4, MulLt, a + 1 \in Int
<1>5. CASE b = a + 1
  BY <1>1, <1>2, <1>5
<1> QED BY <1>1, <1>3, <1>4, <1>5

\* Two words that are equal and count numbers less than Word apart count the
\* same number.
LEMMA WordExact ==
  ASSUME NEW a \in Int, NEW b \in Int, a - b < Word, b - a < Word,
         (a - b) % Word = 0, Word # 0
  PROVE  a = b
<1>1. Word \in Nat
  BY WordAssumption
<1> QED BY <1>1

\* The signed difference of two words is 0 only for words that are equal.
LEMMA SignedDiffZero ==
  ASSUME NEW a \in Int, NEW b \in Int, Word # 0, SignedDiff(a, b) = 0
  PROVE  (a - b) % Word = 0
<1>1. Word \in Nat
  BY WordAssumption
<1> QED BY <1>1 DEF SignedDiff
-----------------------------------------------------------------------------
(* Types *)

\* Storing a value of the right type keeps a function's type.
LEMMA ExceptType ==
  ASSUME NEW S, NEW R, NEW f \in [S -> R], NEW x, NEW y \in R
  PROVE  [f EXCEPT ![x] = y] \in [S -> R]
  OBVIOUS

\* A position's cell is one of the queue's.
LEMMA CellType ==
  ASSUME NEW p \in Nat, cap \in Nat, cap # 0
  PROVE  Cell(p) \in 0 .. cap - 1
  BY DivMod DEF Cell

\* A thread writes only a value it was called with, and only a queue with cells
\* is written or read.
TypeInv == Typed /\ Calls

\* The types hold in the initial states.
LEMMA TypeInit == Init => TypeInv
  BY CapacityAssumption DEF Init, TypeInv, Typed, Calls, WritePcs

\* Every action keeps the types.
LEMMA TypeStep == TypeInv /\ [Next]_vars => TypeInv'
<1> SUFFICES ASSUME TypeInv, [Next]_vars PROVE TypeInv'
  OBVIOUS
<1> USE CapacityAssumption DEF TypeInv, Typed, Calls, WritePcs, ReadPcs, Goto
<1>1. ASSUME NEW t \in Threads, NEW v \in Values, CallTryWrite(t, v)
      PROVE  TypeInv'
  BY <1>1 DEF CallTryWrite
<1>2. ASSUME NEW t \in Threads, CallRead(t) PROVE TypeInv'
  BY <1>2 DEF CallRead
<1>3. ASSUME NEW t \in Threads, WriteLoad(t) PROVE TypeInv'
  BY <1>3 DEF WriteLoad
<1>4. ASSUME NEW t \in Threads, WriteSeq(t) PROVE TypeInv'
  BY <1>4 DEF WriteSeq
<1>5. ASSUME NEW t \in Threads, WriteCas(t) PROVE TypeInv'
  <2>1. claimed' \in Seq(Values) /\ enq' \in Nat
    <3>1. arg[t] \in Values /\ enq + 1 \in Nat
      BY <1>5 DEF WriteCas
    <3>2. Append(claimed, arg[t]) \in Seq(Values)
      BY <3>1
    <3> QED BY <1>5, <3>1, <3>2 DEF WriteCas
  <2>2. pc' \in [Threads -> {"idle"} \union WritePcs \union ReadPcs]
    BY <1>5 DEF WriteCas
  <2>3. UNCHANGED <<cap, deq, seq, val, pos, arg>>
    BY <1>5 DEF WriteCas
  <2>4. \A u \in Threads : /\ pc[u] = "idle" => pc'[u] = "idle"
                           /\ pc'[u] \in WritePcs => pc[u] \in WritePcs
    BY <1>5 DEF WriteCas
  <2> QED BY <2>1, <2>2, <2>3, <2>4
<1>6. ASSUME NEW t \in Threads, WriteStore(t) PROVE TypeInv'
  BY <1>6 DEF WriteStore
<1>7. ASSUME NEW t \in Threads, WritePublish(t) PROVE TypeInv'
  <2>1. seq' \in [0 .. cap - 1 -> Nat]
    <3>1. pos[t] + 1 \in Nat
      OBVIOUS
    <3> QED BY <1>7, <3>1, ExceptType DEF WritePublish
  <2> QED BY <1>7, <2>1 DEF WritePublish
<1>8. ASSUME NEW t \in Threads, ReadLoad(t) PROVE TypeInv'
  BY <1>8 DEF ReadLoad
<1>9. ASSUME NEW t \in Threads, ReadSeq(t) PROVE TypeInv'
  BY <1>9 DEF ReadSeq
<1>10. ASSUME NEW t \in Threads, ReadCas(t) PROVE TypeInv'
  <2>1. deq' \in Nat /\ UNCHANGED <<cap, enq, seq, val, pos, arg, claimed>>
    BY <1>10 DEF ReadCas
  <2>2. /\ pc' \in [Threads -> {"idle"} \union WritePcs \union ReadPcs]
        /\ \A u \in Threads : /\ pc[u] = "idle" => pc'[u] = "idle"
                              /\ pc'[u] \in WritePcs => pc[u] \in WritePcs
    BY <1>10 DEF ReadCas
  <2> QED BY <2>1, <2>2
<1>11. ASSUME NEW t \in Threads, ReadCopy(t) PROVE TypeInv'
  <2>1. Cell(pos[t]) \in 0 .. cap - 1
    BY <1>11, CellType DEF ReadCopy
  <2> QED BY <1>11, <2>1 DEF ReadCopy
<1>12. ASSUME NEW t \in Threads, ReadFree(t) PROVE TypeInv'
  <2>1. seq' \in [0 .. cap - 1 -> Nat]
    <3>1. pos[t] + cap \in Nat
      OBVIOUS
    <3> QED BY <1>12, <3>1, ExceptType DEF ReadFree
  <2> QED BY <1>12, <2>1 DEF ReadFree
<1>13. ASSUME NEW c \in Capacities, Reset(c) PROVE TypeInv'
  BY <1>13 DEF Reset, Fresh
<1>14. CASE UNCHANGED vars
  BY <1>14 DEF vars
<1> QED
  BY <1>1, <1>2, <1>3, <1>4, <1>5, <1>6, <1>7, <1>8, <1>9, <1>10, <1>11,
     <1>12, <1>13, <1>14 DEF Next, Step

-----------------------------------------------------------------------------
(* What the sequence numbers of the cells say *)

FullInv == Typed /\ HandOver

\* A queue with cells has at least two, and fewer than half the words.
LEMMA RingSize ==
  ASSUME Typed, cap # 0
  PROVE  /\ cap \in Nat \ {0} /\ cap >= 2 /\ MaxLag \in Nat
         /\ Half \in Nat /\ Word = 2 * Half /\ MaxLag + cap < Half
  BY CapacityAssumption, WordAssumption DEF Typed

\* Positions less than a lap apart are in different cells of the queue,
\* positions a lap apart in the same one.
LEMMA CellInj ==
  ASSUME Typed, cap # 0, NEW p \in Nat, NEW q \in Nat,
         p # q, p - q < cap, q - p < cap
  PROVE  Cell(p) # Cell(q)
<1>1. CASE p < q
  BY <1>1, ModInj, RingSize DEF Cell
<1>2. CASE q < p
  BY <1>2, ModInj, RingSize DEF Cell
<1> QED BY <1>1, <1>2

\* A position and the one a lap ahead share a cell.
LEMMA CellLap ==
  ASSUME Typed, cap # 0, NEW p \in Nat
  PROVE  Cell(p + cap) = Cell(p)
  BY ModAdd, RingSize DEF Cell

\* The cell of the next position to write is free, or still belongs to the
\* previous lap.
LEMMA NextToWrite ==
  ASSUME FullInv, cap # 0
  PROVE  /\ seq[Cell(enq)] \in {enq, enq - cap + 1, enq - cap}
         /\ seq[Cell(enq)] = enq =>
              /\ enq < deq + cap
              /\ \A u \in Threads : ~ReaderIn(u, enq - cap)
<1> USE DEF FullInv, HandOver
<1>1. enq \in Nat /\ deq \in Nat /\ cap >= 2 /\ cap \in Nat /\ deq <= enq
  BY RingSize DEF Typed, NeverOverrun
<1>2. ASSUME NEW u \in Threads, ReaderIn(u, enq - cap)
      PROVE  seq[Cell(enq)] = enq - cap + 1
  <2>1. pos[u] = enq - cap /\ pos[u] \in Nat /\ seq[Cell(pos[u])] = pos[u] + 1
    BY <1>2 DEF ReaderIn, ReaderOK, Typed
  <2>2. Cell(enq) = Cell(pos[u])
    BY <2>1, <1>1, CellLap, pos[u] + cap = enq
  <2> QED BY <2>1, <2>2
<1>3. ASSUME NEW u \in Threads, WriterIn(u, enq - cap)
      PROVE  seq[Cell(enq)] = enq - cap
  <2>1. pos[u] = enq - cap /\ pos[u] \in Nat /\ seq[Cell(pos[u])] = pos[u]
    BY <1>3 DEF WriterIn, WriterOK, Typed
  <2>2. Cell(enq) = Cell(pos[u])
    BY <2>1, <1>1, CellLap, pos[u] + cap = enq
  <2> QED BY <2>1, <2>2
<1>4. enq \in enq .. enq + cap - 1
  BY <1>1
<1>5. CASE enq < deq + cap
  BY <1>1, <1>2, <1>4, <1>5 DEF CellOK
<1>6. CASE ~(enq < deq + cap)
  BY <1>1, <1>3, <1>4, <1>6 DEF CellOK
<1> QED BY <1>5, <1>6

\* The cell of the next position to read is readable only when its element has
\* been stored and its writer has left.
LEMMA NextToRead ==
  ASSUME FullInv, cap # 0
  PROVE  /\ seq[Cell(deq)] \in {deq + 1, deq, deq - cap + 1, deq - cap}
         /\ seq[Cell(deq)] = deq + 1 =>
              /\ deq < enq
              /\ val[Cell(deq)] = claimed[deq + 1]
              /\ \A u \in Threads : ~WriterIn(u, deq)
<1> USE DEF FullInv, HandOver
<1>1. /\ enq \in Nat /\ deq \in Nat /\ cap >= 2 /\ cap \in Nat /\ deq <= enq
      /\ enq <= deq + cap
  BY RingSize DEF Typed, NeverOverrun
<1>2. CASE deq = enq
  <2>1. \A u \in Threads : ~WriterIn(u, deq)
    BY <1>1, <1>2 DEF WriterIn, WriterOK
  <2> QED BY <1>1, <1>2, NextToWrite, <2>1
<1>3. CASE deq # enq
  <2>1. ASSUME NEW u \in Threads, WriterIn(u, deq)
        PROVE  seq[Cell(deq)] = deq
    BY <2>1 DEF WriterIn, WriterOK
  <2>2. PICK p \in enq .. enq + cap - 1 : p = deq + cap
    BY <1>1, <1>3
  <2>3. \/ seq[Cell(p)] = p - cap + 1 /\ val[Cell(p)] = claimed[p - cap + 1]
        \/ \E u \in Threads : WriterIn(u, p - cap)
    BY <2>2, <1>1 DEF CellOK
  <2>4. Cell(p) = Cell(deq) /\ p - cap = deq /\ p - cap + 1 = deq + 1
    BY <1>1, <2>2, CellLap
  <2>5. \/ seq[Cell(deq)] = deq + 1 /\ val[Cell(deq)] = claimed[deq + 1]
        \/ \E u \in Threads : WriterIn(u, deq)
    BY <2>3, <2>4
  <2> QED BY <2>1, <2>5, <1>1, <1>3
<1> QED BY <1>2, <1>3
-----------------------------------------------------------------------------
(* Cells are touched by one thread at a time *)

\* A thread inside a cell holds a position of the last lap.
LEMMA InCellWindow ==
  ASSUME FullInv, NEW t \in Threads, InCell(t)
  PROVE  /\ cap # 0 /\ cap \in Nat /\ enq \in Nat /\ deq \in Nat
         /\ pos[t] \in Nat /\ enq - cap <= pos[t] /\ pos[t] < enq
<1> USE DEF FullInv, HandOver, InCell
<1>1. cap # 0 /\ pos[t] \in Nat
  BY DEF Calls, Typed
<1>2. cap \in Nat /\ enq \in Nat /\ deq \in Nat /\ deq <= enq /\ enq <= deq + cap
  BY <1>1, RingSize DEF Typed, NeverOverrun
<1>3. CASE pc[t] \in {"w_store", "w_publish"}
  BY <1>1, <1>2, <1>3 DEF WriterOK
<1>4. CASE pc[t] \in {"r_copy", "r_free"}
  BY <1>1, <1>2, <1>4 DEF ReaderOK
<1> QED BY <1>1, <1>2, <1>3, <1>4

\* Two threads inside cells are in different ones.
LEMMA Apart ==
  ASSUME FullInv, NEW t \in Threads, NEW u \in Threads, t # u, InCell(t), InCell(u)
  PROVE  Cell(pos[t]) # Cell(pos[u])
<1>1. pos[t] # pos[u]
  BY DEF FullInv, HandOver, OnePerPosition
<1>2. /\ pos[t] \in Nat /\ pos[u] \in Nat /\ cap # 0
      /\ pos[t] - pos[u] < cap /\ pos[u] - pos[t] < cap
  BY InCellWindow
<1> QED BY <1>1, <1>2, CellInj DEF FullInv

\* A thread inside the cell of a position less than a lap away is inside it
\* for that position.
LEMMA SamePosition ==
  ASSUME FullInv, NEW t \in Threads, InCell(t),
         NEW p \in enq - cap .. enq - 1, p >= 0, Cell(p) = Cell(pos[t])
  PROVE  p = pos[t]
<1>1. /\ pos[t] \in Nat /\ p \in Nat /\ cap # 0 /\ p - pos[t] < cap
      /\ pos[t] - p < cap
  BY InCellWindow
<1> QED BY <1>1, CellInj DEF FullInv
-----------------------------------------------------------------------------
(* Every step keeps the hand-over invariant: one lemma for each action *)

\* A step of a thread that is in no cell and changes no shared variable.
LEMMA QuietStep ==
  ASSUME FullInv, Calls', NEW t \in Threads,
         UNCHANGED <<cap, enq, deq, seq, val, claimed>>,
         \A u \in Threads \ {t} :
           pc'[u] = pc[u] /\ pos'[u] = pos[u] /\ arg'[u] = arg[u],
         ~InCell(t), ~InCell(t)',
         pc'[t] \in {"w_seq", "w_cas"} => pos'[t] <= enq /\ enq - pos'[t] <= MaxLag,
         pc'[t] = "w_cas" /\ pos'[t] = enq => seq[Cell(pos'[t])] = pos'[t],
         pc'[t] \in {"r_seq", "r_cas"} => pos'[t] <= deq /\ deq - pos'[t] <= MaxLag,
         pc'[t] = "r_cas" /\ pos'[t] = deq => seq[Cell(pos'[t])] = pos'[t] + 1
  PROVE  HandOver'
<1> USE DEF FullInv, HandOver
<1>0. \A p : Cell(p)' = Cell(p)
  BY DEF Cell
<1>1. Len(claimed)' = enq' /\ NeverOverrun'
  BY DEF NeverOverrun
<1>2. \A u \in Threads : WriterOK(u)'
  BY <1>0 DEF WriterOK, InCell
<1>3. \A u \in Threads : ReaderOK(u)'
  BY <1>0 DEF ReaderOK, InCell
<1>4. OnePerPosition'
  BY DEF OnePerPosition, InCell
<1>5. \A u \in Threads : InCell(u) => pc'[u] = pc[u] /\ pos'[u] = pos[u]
  OBVIOUS
<1>6. \A p \in enq' .. enq' + cap' - 1 : CellOK(p)'
  <2>1. \A p \in enq .. enq + cap - 1 : CellOK(p)
    OBVIOUS
  <2> QED BY ONLY <2>1, <1>0, <1>5, UNCHANGED <<cap, enq, deq, seq, val, claimed>>
             DEF CellOK, WriterIn, ReaderIn, InCell
<1> QED BY <1>1, <1>2, <1>3, <1>4, <1>6

\* A call of TryWrite touches nothing shared.
LEMMA CallTryWriteKeeps ==
  ASSUME FullInv, NEW t \in Threads, NEW v \in Values, CallTryWrite(t, v)
  PROVE  HandOver'
<1>1. Calls'
  BY TypeStep DEF Next, FullInv, HandOver, TypeInv
<1> QED BY <1>1, QuietStep DEF CallTryWrite, Goto, InCell, FullInv, Typed

\* A call of Read touches nothing shared.
LEMMA CallReadKeeps ==
  ASSUME FullInv, NEW t \in Threads, CallRead(t)
  PROVE  HandOver'
<1>1. Calls'
  BY TypeStep DEF Next, FullInv, HandOver, TypeInv
<1> QED BY <1>1, QuietStep DEF CallRead, Goto, InCell, FullInv, Typed

\* A writer that has just loaded its position is not behind.
LEMMA WriteLoadKeeps ==
  ASSUME FullInv, NEW t \in Threads, WriteLoad(t)
  PROVE  HandOver'
<1>1. Calls'
  BY TypeStep DEF Next, Step, FullInv, HandOver, TypeInv
<1>2. enq <= enq /\ enq - enq <= MaxLag
  BY WordAssumption DEF FullInv, Typed
<1> QED BY <1>1, <1>2, QuietStep DEF WriteLoad, Goto, InCell, FullInv, Typed

\* A reader that has just loaded its position is not behind.
LEMMA ReadLoadKeeps ==
  ASSUME FullInv, NEW t \in Threads, ReadLoad(t)
  PROVE  HandOver'
<1>1. Calls'
  BY TypeStep DEF Next, Step, FullInv, HandOver, TypeInv
<1>2. deq <= deq /\ deq - deq <= MaxLag
  BY WordAssumption DEF FullInv, Typed
<1> QED BY <1>1, <1>2, QuietStep DEF ReadLoad, Goto, InCell, FullInv, Typed

\* A writer that finds its position current and the difference 0 has found the
\* cell free for that position.
LEMMA WriteSeqKeeps ==
  ASSUME FullInv, NEW t \in Threads, WriteSeq(t)
  PROVE  HandOver'
<1> DEFINE dif == SignedDiff(seq[Cell(pos[t])], pos[t])
<1>1. Calls'
  BY TypeStep DEF Next, Step, FullInv, HandOver, TypeInv
<1>2. /\ pc[t] = "w_seq" /\ cap # 0 /\ pos[t] <= enq /\ enq - pos[t] <= MaxLag
      /\ enq \in Nat
  BY DEF WriteSeq, FullInv, HandOver, Calls, WriterOK, Typed
<1>3. ASSUME dif = 0, pos[t] = enq
      PROVE  seq[Cell(pos[t])] = pos[t]
  <2>1. /\ cap \in Nat /\ cap >= 2 /\ MaxLag \in Nat /\ Half \in Nat
        /\ Word = 2 * Half /\ MaxLag + cap < Half
    BY <1>2, RingSize DEF FullInv
  <2>2. seq[Cell(enq)] \in {enq, enq - cap + 1, enq - cap}
    BY <1>2, NextToWrite
  <2>3. (seq[Cell(enq)] - enq) % Word = 0
    BY <1>2, <1>3, <2>1, <2>2, SignedDiffZero
  <2> QED BY <1>2, <1>3, <2>1, <2>2, <2>3, WordExact
<1>4. /\ pc' = [pc EXCEPT ![t] = IF dif = 0 THEN "w_cas"
                                 ELSE IF dif < 0 THEN "idle" ELSE "w_load"]
      /\ UNCHANGED <<cap, enq, deq, seq, val, pos, arg, claimed>>
  BY DEF WriteSeq, Goto
<1>5. /\ pc'[t] \in {"w_cas", "idle", "w_load"}
      /\ pc'[t] = "w_cas" => dif = 0
      /\ \A u \in Threads \ {t} : pc'[u] = pc[u]
  BY <1>4 DEF FullInv, Typed
<1> HIDE DEF dif
<1> QED BY <1>1, <1>2, <1>3, <1>4, <1>5, QuietStep DEF InCell

\* A reader that finds its position current and the difference 0 has found the
\* element of that position.
LEMMA ReadSeqKeeps ==
  ASSUME FullInv, NEW t \in Threads, ReadSeq(t)
  PROVE  HandOver'
<1> DEFINE dif == SignedDiff(seq[Cell(pos[t])], pos[t] + 1)
<1>1. Calls'
  BY TypeStep DEF Next, Step, FullInv, HandOver, TypeInv
<1>2. /\ pc[t] = "r_seq" /\ cap # 0 /\ pos[t] <= deq /\ deq - pos[t] <= MaxLag
      /\ deq \in Nat
  BY DEF ReadSeq, FullInv, HandOver, Calls, ReaderOK, Typed
<1>3. ASSUME dif = 0, pos[t] = deq
      PROVE  seq[Cell(pos[t])] = pos[t] + 1
  <2>1. /\ cap \in Nat /\ cap >= 2 /\ MaxLag \in Nat /\ Half \in Nat
        /\ Word = 2 * Half /\ MaxLag + cap < Half
    BY <1>2, RingSize DEF FullInv
  <2>2. seq[Cell(deq)] \in {deq + 1, deq, deq - cap + 1, deq - cap}
    BY <1>2, NextToRead
  <2>3. (seq[Cell(deq)] - (deq + 1)) % Word = 0
    BY <1>2, <1>3, <2>1, <2>2, SignedDiffZero
  <2> QED BY <1>2, <1>3, <2>1, <2>2, <2>3, WordExact
<1>4. /\ pc' = [pc EXCEPT ![t] = IF dif = 0 THEN "r_cas"
                                 ELSE IF dif < 0 THEN "idle" ELSE "r_load"]
      /\ UNCHANGED <<cap, enq, deq, seq, val, pos, arg, claimed>>
  BY DEF ReadSeq, Goto
<1>5. /\ pc'[t] \in {"r_cas", "idle", "r_load"}
      /\ pc'[t] = "r_cas" => dif = 0
      /\ \A u \in Threads \ {t} : pc'[u] = pc[u]
  BY <1>4 DEF FullInv, Typed
<1> HIDE DEF dif
<1> QED BY <1>1, <1>2, <1>3, <1>4, <1>5, QuietStep DEF InCell

\* The compare and swap of a writer succeeds only on the position it holds,
\* although the words compared wrap: the position is at most MaxLag old.
LEMMA WriteClaimKeeps ==
  ASSUME FullInv, NEW t \in Threads, WriteCas(t), SameWord(enq, pos[t])
  PROVE  HandOver'
<1>0. \A p : Cell(p)' = Cell(p)
  BY DEF Cell, WriteCas
<1>1. Calls'
  BY TypeStep DEF Next, Step, FullInv, HandOver, TypeInv
<1>2. /\ pc[t] = "w_cas" /\ cap # 0 /\ cap \in Nat /\ enq \in Nat /\ deq \in Nat
      /\ deq <= enq /\ enq <= deq + cap /\ cap >= 2
      /\ claimed \in Seq(Values) /\ Len(claimed) = enq
      /\ pos \in [Threads -> Nat] /\ arg[t] \in Values
  BY RingSize
     DEF WriteCas, FullInv, HandOver, Calls, Typed, NeverOverrun, WritePcs
<1>3. pos[t] = enq
  <2>1. /\ enq - pos[t] <= MaxLag /\ pos[t] <= enq /\ (enq - pos[t]) % Word = 0
    BY <1>2 DEF FullInv, HandOver, WriterOK, SameWord
  <2>2. MaxLag < Word /\ Word # 0 /\ Word \in Nat /\ MaxLag \in Nat
    BY <1>2, RingSize DEF FullInv
  <2> QED BY <1>2, <2>1, <2>2, WordExact
<1>4. /\ seq[Cell(enq)] = enq /\ enq < deq + cap
      /\ \A u \in Threads : ~ReaderIn(u, enq - cap)
  <2>1. seq[Cell(enq)] = enq
    BY <1>2, <1>3 DEF FullInv, HandOver, WriterOK
  <2> QED BY <1>2, <2>1, NextToWrite
<1>5. /\ enq' = enq + 1 /\ claimed' = Append(claimed, arg[t])
      /\ pc' = [pc EXCEPT ![t] = "w_store"]
      /\ UNCHANGED <<cap, deq, seq, val, pos, arg>>
  BY DEF WriteCas, Goto
<1>6. /\ Len(claimed') = enq + 1 /\ claimed'[enq + 1] = arg[t]
      /\ \A n \in 1 .. enq : claimed'[n] = claimed[n]
  BY <1>2, <1>5
<1>7. /\ pc'[t] = "w_store" /\ pos'[t] = enq /\ arg'[t] = arg[t]
      /\ \A u \in Threads \ {t} :
           pc'[u] = pc[u] /\ pos'[u] = pos[u] /\ arg'[u] = arg[u]
  BY <1>3, <1>5 DEF FullInv, Typed
<1>8. Len(claimed)' = enq' /\ NeverOverrun'
  BY <1>2, <1>4, <1>5, <1>6 DEF NeverOverrun
<1>9. \A u \in Threads : WriterOK(u)'
  <2> SUFFICES ASSUME NEW u \in Threads
      PROVE  WriterOK(u)'
    OBVIOUS
  <2>1. CASE u = t
    BY <2>1, <1>0, <1>2, <1>4, <1>5, <1>6, <1>7 DEF WriterOK
  <2>2. CASE u # t
    <3>1. pc'[u] = pc[u] /\ pos'[u] = pos[u] /\ arg'[u] = arg[u] /\ pos[u] \in Nat
      BY <1>2, <1>7, <2>2
    <3>2. pc[u] \in {"w_seq", "w_cas"} => pos[u] <= enq /\ enq + 1 - pos[u] <= MaxLag
      BY DEF WriteCas, WriteLagOK, FullInv, HandOver, WriterOK
    <3>3. pc[u] \in {"w_store", "w_publish"} =>
            /\ deq <= pos[u] /\ pos[u] < enq
            /\ seq[Cell(pos[u])] = pos[u]
            /\ arg[u] = claimed'[pos[u] + 1]
      BY <1>2, <1>6, <3>1 DEF FullInv, HandOver, WriterOK
    <3>4. pc[u] = "w_publish" => val[Cell(pos[u])] = arg[u]
      BY DEF FullInv, HandOver, WriterOK
    <3> QED BY <1>0, <1>2, <1>5, <3>1, <3>2, <3>3, <3>4 DEF WriterOK
  <2> QED BY <2>1, <2>2
<1>10. \A u \in Threads : ReaderOK(u)'
  <2> SUFFICES ASSUME NEW u \in Threads
      PROVE  ReaderOK(u)'
    OBVIOUS
  <2>1. CASE u = t
    BY <2>1, <1>7 DEF ReaderOK
  <2>2. CASE u # t
    <3>1. pc'[u] = pc[u] /\ pos'[u] = pos[u] /\ arg'[u] = arg[u] /\ pos[u] \in Nat
      BY <1>2, <1>7, <2>2
    <3>2. pc[u] \in {"r_copy", "r_free"} =>
            /\ enq - cap <= pos[u] /\ pos[u] < deq /\ pos[u] # enq - cap
            /\ pos[u] + 1 \in 1 .. enq
      BY <1>2, <1>4, <3>1 DEF FullInv, HandOver, ReaderOK, ReaderIn
    <3>3. /\ pc[u] \in {"r_seq", "r_cas"} => pos[u] <= deq /\ deq - pos[u] <= MaxLag
          /\ pc[u] = "r_cas" /\ pos[u] = deq => seq[Cell(pos[u])] = pos[u] + 1
          /\ pc[u] \in {"r_copy", "r_free"} =>
                 seq[Cell(pos[u])] = pos[u] + 1 /\ val[Cell(pos[u])] = claimed[pos[u] + 1]
          /\ pc[u] = "r_free" => arg[u] = claimed[pos[u] + 1]
      BY DEF FullInv, HandOver, ReaderOK
    <3> QED BY <1>0, <1>2, <1>5, <1>6, <3>1, <3>2, <3>3 DEF ReaderOK
  <2> QED BY <2>1, <2>2
<1>11. OnePerPosition'
  <2>1. \A u \in Threads \ {t} : InCell(u)' => InCell(u) /\ pos'[u] = pos[u]
    BY <1>7 DEF InCell
  <2>2. \A u \in Threads : InCell(u) => pos[u] # enq
    BY <1>2, InCellWindow
  <2>3. OnePerPosition
    BY DEF FullInv, HandOver
  <2> QED BY <1>7, <2>1, <2>2, <2>3 DEF OnePerPosition
<1>12. \A p \in enq' .. enq' + cap' - 1 : CellOK(p)'
  <2>1. \A u \in Threads : InCell(u) => pc'[u] = pc[u] /\ pos'[u] = pos[u]
    BY <1>2, <1>7 DEF InCell
  <2>2. ASSUME NEW p \in enq + 1 .. enq + cap - 1
        PROVE  CellOK(p)'
    <3>1. CellOK(p)
      BY <1>2 DEF FullInv, HandOver
    <3>2. ~(p < deq + cap) => claimed'[p - cap + 1] = claimed[p - cap + 1]
      <4>1. ~(p < deq + cap) => p - cap + 1 \in 1 .. enq
        BY <1>2
      <4> QED BY <4>1, <1>6
    <3> QED BY <3>1, <3>2, <2>1, <1>0, <1>5 DEF CellOK, ReaderIn, WriterIn, InCell
  <2>3. ASSUME NEW p, p = enq + cap
        PROVE  ~(p < deq + cap) /\ WriterIn(t, p - cap)'
    BY <1>2, <1>5, <1>7, <2>3 DEF WriterIn
  <2>4. \A p \in enq' .. enq' + cap' - 1 :
          p \in enq + 1 .. enq + cap - 1 \/ p = enq + cap
    BY <1>2, <1>5
  <2> QED BY <2>2, <2>3, <2>4, <1>5 DEF CellOK
<1> QED BY <1>1, <1>8, <1>9, <1>10, <1>11, <1>12 DEF HandOver

\* Won or lost, the compare and swap of a writer keeps the protocol.
LEMMA WriteCasKeeps ==
  ASSUME FullInv, NEW t \in Threads, WriteCas(t)
  PROVE  HandOver'
<1>1. CASE SameWord(enq, pos[t])
  BY <1>1, WriteClaimKeeps
<1>2. CASE ~SameWord(enq, pos[t])
  <2>1. Calls'
    BY TypeStep DEF Next, Step, FullInv, HandOver, TypeInv
  <2>2. pc[t] = "w_cas" /\ pos[t] <= enq /\ enq - pos[t] <= MaxLag
    BY DEF WriteCas, FullInv, HandOver, WriterOK
  <2> QED
    BY <1>2, <2>1, <2>2, QuietStep DEF WriteCas, Goto, InCell, FullInv, Typed
<1> QED BY <1>1, <1>2

\* A reader claims a position only when its element has been stored.
LEMMA ReadClaimKeeps ==
  ASSUME FullInv, NEW t \in Threads, ReadCas(t), SameWord(deq, pos[t])
  PROVE  HandOver'
<1>0. \A p : Cell(p)' = Cell(p)
  BY DEF Cell, ReadCas
<1>1. Calls'
  BY TypeStep DEF Next, Step, FullInv, HandOver, TypeInv
<1>2. /\ pc[t] = "r_cas" /\ cap # 0 /\ cap \in Nat /\ enq \in Nat /\ deq \in Nat
      /\ deq <= enq /\ enq <= deq + cap /\ cap >= 2
      /\ Len(claimed) = enq /\ pos \in [Threads -> Nat]
  BY RingSize DEF ReadCas, FullInv, HandOver, Calls, Typed, NeverOverrun
<1>3. pos[t] = deq
  <2>1. /\ deq - pos[t] <= MaxLag /\ pos[t] <= deq /\ (deq - pos[t]) % Word = 0
    BY <1>2 DEF FullInv, HandOver, ReaderOK, SameWord
  <2>2. MaxLag < Word /\ Word # 0 /\ Word \in Nat /\ MaxLag \in Nat
    BY <1>2, RingSize DEF FullInv
  <2> QED BY <1>2, <2>1, <2>2, WordExact
<1>4. /\ seq[Cell(deq)] = deq + 1 /\ deq < enq
      /\ val[Cell(deq)] = claimed[deq + 1]
      /\ \A u \in Threads : ~WriterIn(u, deq)
  <2>1. seq[Cell(deq)] = deq + 1
    BY <1>2, <1>3 DEF FullInv, HandOver, ReaderOK
  <2> QED BY <1>2, <2>1, NextToRead
<1>5. /\ deq' = deq + 1
      /\ pc' = [pc EXCEPT ![t] = "r_copy"]
      /\ UNCHANGED <<cap, enq, seq, val, pos, arg, claimed>>
  BY DEF ReadCas, Goto
<1>6. /\ pc'[t] = "r_copy" /\ pos'[t] = deq
      /\ \A u \in Threads \ {t} :
           pc'[u] = pc[u] /\ pos'[u] = pos[u] /\ arg'[u] = arg[u]
  BY <1>3, <1>5 DEF FullInv, Typed
<1>7. Len(claimed)' = enq' /\ NeverOverrun'
  BY <1>2, <1>4, <1>5 DEF NeverOverrun
<1>8. \A u \in Threads : WriterOK(u)'
  <2> SUFFICES ASSUME NEW u \in Threads PROVE WriterOK(u)'
    OBVIOUS
  <2>1. CASE u = t
    BY <2>1, <1>6 DEF WriterOK
  <2>2. CASE u # t
    <3>1. pc'[u] = pc[u] /\ pos'[u] = pos[u] /\ arg'[u] = arg[u] /\ pos[u] \in Nat
      BY <1>2, <1>6, <2>2
    <3>2. WriterOK(u) /\ ~WriterIn(u, deq)
      BY <1>4 DEF FullInv, HandOver
    <3> QED BY <1>0, <1>2, <1>5, <3>1, <3>2 DEF WriterOK, WriterIn
  <2> QED BY <2>1, <2>2
<1>9. \A u \in Threads : ReaderOK(u)'
  <2> SUFFICES ASSUME NEW u \in Threads PROVE ReaderOK(u)'
    OBVIOUS
  <2>1. CASE u = t
    BY <2>1, <1>0, <1>2, <1>4, <1>5, <1>6 DEF ReaderOK
  <2>2. CASE u # t
    <3>1. pc'[u] = pc[u] /\ pos'[u] = pos[u] /\ arg'[u] = arg[u] /\ pos[u] \in Nat
      BY <1>2, <1>6, <2>2
    <3>2. ReaderOK(u)
      BY DEF FullInv, HandOver
    <3>3. pc[u] \in {"r_seq", "r_cas"} => deq + 1 - pos[u] <= MaxLag
      BY DEF ReadCas, ReadLagOK
    <3> QED BY <1>0, <1>2, <1>5, <3>1, <3>2, <3>3 DEF ReaderOK
  <2> QED BY <2>1, <2>2
<1>10. OnePerPosition'
  <2>1. \A u \in Threads \ {t} : InCell(u)' => InCell(u) /\ pos'[u] = pos[u]
    BY <1>6 DEF InCell
  <2>2. ASSUME NEW u \in Threads, InCell(u) PROVE pos[u] # deq
    <3>1. WriterOK(u) /\ ReaderOK(u) /\ ~WriterIn(u, deq) /\ pos[u] \in Nat
      BY <1>2, <1>4 DEF FullInv, HandOver
    <3> QED BY <1>2, <2>2, <3>1 DEF ReaderOK, WriterIn, InCell
  <2>3. OnePerPosition
    BY DEF FullInv, HandOver
  <2> QED BY <1>6, <2>1, <2>2, <2>3 DEF OnePerPosition
<1>11. \A p \in enq' .. enq' + cap' - 1 : CellOK(p)'
  <2>1. \A u \in Threads : InCell(u) => pc'[u] = pc[u] /\ pos'[u] = pos[u]
    BY <1>2, <1>6 DEF InCell
  <2>2. ASSUME NEW p \in enq .. enq + cap - 1, p # deq + cap
        PROVE  CellOK(p)'
    <3>1. CellOK(p) /\ (p < deq + cap <=> p < deq + 1 + cap)
      BY <1>2, <2>2 DEF FullInv, HandOver
    <3> QED BY <3>1, <2>1, <1>0, <1>5 DEF CellOK, ReaderIn, WriterIn, InCell
  <2>3. ASSUME NEW p, p = deq + cap
        PROVE  CellOK(p)'
    <3>1. p < deq + 1 + cap /\ p - cap = deq
      BY <1>2, <2>3
    <3>2. ReaderIn(t, p - cap)'
      BY <3>1, <1>2, <1>5, <1>6 DEF ReaderIn
    <3> QED BY <3>1, <3>2, <1>5 DEF CellOK
  <2> QED BY <2>2, <2>3, <1>5
<1> QED BY <1>1, <1>7, <1>8, <1>9, <1>10, <1>11 DEF HandOver

\* Won or lost, the compare and swap of a reader keeps the protocol.
LEMMA ReadCasKeeps ==
  ASSUME FullInv, NEW t \in Threads, ReadCas(t)
  PROVE  HandOver'
<1>1. CASE SameWord(deq, pos[t])
  BY <1>1, ReadClaimKeeps
<1>2. CASE ~SameWord(deq, pos[t])
  <2>1. Calls'
    BY TypeStep DEF Next, Step, FullInv, HandOver, TypeInv
  <2>2. pc[t] = "r_cas" /\ pos[t] <= deq /\ deq - pos[t] <= MaxLag
    BY DEF ReadCas, FullInv, HandOver, ReaderOK
  <2> QED
    BY <1>2, <2>1, <2>2, QuietStep DEF ReadCas, Goto, InCell, FullInv, Typed
<1> QED BY <1>1, <1>2

\* Storing an element disturbs no other thread's cell and no stored element.
LEMMA WriteStoreKeeps ==
  ASSUME FullInv, NEW t \in Threads, WriteStore(t)
  PROVE  HandOver'
<1>0. \A p : Cell(p)' = Cell(p)
  BY DEF Cell, WriteStore
<1>1. Calls'
  BY TypeStep DEF Next, Step, FullInv, HandOver, TypeInv
<1>2. /\ pc[t] = "w_store" /\ InCell(t) /\ WriterOK(t) /\ ReaderOK(t)
      /\ cap # 0 /\ cap \in Nat /\ enq \in Nat /\ deq \in Nat
      /\ deq <= enq /\ enq <= deq + cap /\ pos[t] \in Nat
      /\ Cell(pos[t]) \in 0 .. cap - 1
      /\ val \in [0 .. cap - 1 -> Values \union {None}]
  BY RingSize, CellType
     DEF WriteStore, InCell, FullInv, HandOver, Calls, Typed, NeverOverrun
<1>3. /\ val' = [val EXCEPT ![Cell(pos[t])] = arg[t]]
      /\ UNCHANGED <<cap, enq, deq, seq, pos, arg, claimed>>
      /\ pc'[t] = "w_publish" /\ \A u \in Threads \ {t} : pc'[u] = pc[u]
  BY DEF WriteStore, Goto, FullInv, Typed
<1>4. /\ val'[Cell(pos[t])] = arg[t]
      /\ \A i : i # Cell(pos[t]) /\ i \in 0 .. cap - 1 => val'[i] = val[i]
  BY <1>2, <1>3
<1>5. ASSUME NEW u \in Threads, u # t, InCell(u)
      PROVE  val'[Cell(pos[u])] = val[Cell(pos[u])]
  <2>1. Cell(pos[u]) # Cell(pos[t]) /\ Cell(pos[u]) \in 0 .. cap - 1
    BY <1>2, <1>5, Apart, CellType, InCellWindow
  <2> QED BY <2>1, <1>4
<1>6. Len(claimed)' = enq' /\ NeverOverrun' /\ OnePerPosition'
  BY <1>2, <1>3 DEF FullInv, HandOver, NeverOverrun, OnePerPosition, InCell
<1>7. ASSUME NEW u \in Threads
      PROVE  WriterOK(u)' /\ ReaderOK(u)'
  <2>1. CASE u = t
    BY <2>1, <1>0, <1>2, <1>3, <1>4 DEF WriterOK, ReaderOK
  <2>2. CASE u # t
    <3>1. WriterOK(u) /\ ReaderOK(u) /\ pc'[u] = pc[u]
      BY <1>3, <2>2 DEF FullInv, HandOver
    <3> QED BY <1>0, <1>3, <1>5, <2>2, <3>1 DEF WriterOK, ReaderOK, InCell
  <2> QED BY <2>1, <2>2
<1>8. ASSUME NEW p \in enq .. enq + cap - 1
      PROVE  CellOK(p)'
  <2>0. CellOK(p) /\ p \in Nat /\ Cell(p) \in 0 .. cap - 1
    BY <1>2, CellType DEF FullInv, HandOver
  <2>1. \A u \in Threads : InCell(u) =>
          /\ pos'[u] = pos[u]
          /\ pc[u] \in {"w_store", "w_publish"} => pc'[u] \in {"w_store", "w_publish"}
          /\ pc[u] \in {"r_copy", "r_free"} => pc'[u] \in {"r_copy", "r_free"}
    BY <1>2, <1>3
  <2>2. CASE p < deq + cap
    BY <1>0, <1>3, <2>0, <2>1, <2>2 DEF CellOK, ReaderIn, InCell
  <2>3. CASE ~(p < deq + cap) /\ Cell(p) = Cell(pos[t])
    <3>1. p - cap \in Nat /\ p - cap \in enq - cap .. enq - 1 /\ (p - cap) + cap = p
      BY <1>2, <2>0, <2>3
    <3>2. Cell(p - cap) = Cell(pos[t])
      BY <1>2, <2>3, <3>1, CellLap DEF FullInv
    <3>3. p - cap = pos[t]
      BY <1>2, <3>1, <3>2, SamePosition
    <3> QED BY <1>3, <2>3, <3>3 DEF CellOK, WriterIn
  <2>4. CASE ~(p < deq + cap) /\ Cell(p) # Cell(pos[t])
    <3>1. val'[Cell(p)] = val[Cell(p)]
      BY <1>4, <2>0, <2>4
    <3> QED BY <1>0, <1>3, <2>0, <2>1, <2>4, <3>1 DEF CellOK, WriterIn, InCell
  <2> QED BY <2>2, <2>3, <2>4
<1> QED BY <1>1, <1>3, <1>6, <1>7, <1>8 DEF HandOver

\* The cell becomes readable with the element of its position in it.
LEMMA WritePublishKeeps ==
  ASSUME FullInv, NEW t \in Threads, WritePublish(t)
  PROVE  HandOver'
<1>0. \A p : Cell(p)' = Cell(p)
  BY DEF Cell, WritePublish
<1>1. Calls'
  BY TypeStep DEF Next, Step, FullInv, HandOver, TypeInv
<1>2. /\ pc[t] = "w_publish" /\ InCell(t) /\ WriterOK(t)
      /\ cap # 0 /\ cap \in Nat /\ enq \in Nat /\ deq \in Nat
      /\ deq <= enq /\ enq <= deq + cap /\ pos[t] \in Nat
      /\ Cell(pos[t]) \in 0 .. cap - 1
      /\ seq \in [0 .. cap - 1 -> Nat]
  BY RingSize, CellType
     DEF WritePublish, InCell, FullInv, HandOver, Calls, Typed, NeverOverrun
<1>3. /\ seq' = [seq EXCEPT ![Cell(pos[t])] = pos[t] + 1]
      /\ UNCHANGED <<cap, enq, deq, val, pos, arg, claimed>>
      /\ pc'[t] = "idle" /\ \A u \in Threads \ {t} : pc'[u] = pc[u]
  BY DEF WritePublish, Goto, FullInv, Typed
<1>4. /\ seq'[Cell(pos[t])] = pos[t] + 1
      /\ \A i : i # Cell(pos[t]) /\ i \in 0 .. cap - 1 => seq'[i] = seq[i]
  BY <1>2, <1>3
<1>5. ASSUME NEW u \in Threads, u # t, InCell(u)
      PROVE  seq'[Cell(pos[u])] = seq[Cell(pos[u])]
  <2>1. Cell(pos[u]) # Cell(pos[t]) /\ Cell(pos[u]) \in 0 .. cap - 1
    BY <1>2, <1>5, Apart, CellType, InCellWindow
  <2> QED BY <2>1, <1>4
<1>6. Len(claimed)' = enq' /\ NeverOverrun' /\ OnePerPosition'
  BY <1>2, <1>3 DEF FullInv, HandOver, NeverOverrun, OnePerPosition, InCell
<1>7. seq[Cell(enq)] = enq => seq'[Cell(enq)] = enq
  <2>1. seq[Cell(pos[t])] = pos[t] /\ pos[t] < enq /\ Cell(enq) \in 0 .. cap - 1
    BY <1>2, CellType DEF WriterOK
  <2> QED BY <1>2, <1>4, <2>1
<1>8. seq[Cell(deq)] = deq + 1 => seq'[Cell(deq)] = deq + 1
  <2>1. CASE Cell(deq) = Cell(pos[t])
    <3>1. deq \in enq - cap .. enq - 1
      BY <1>2 DEF WriterOK
    <3>2. deq = pos[t]
      BY <1>2, <2>1, <3>1, SamePosition
    <3> QED BY <1>4, <3>2
  <2>2. CASE Cell(deq) # Cell(pos[t])
    BY <1>2, <1>4, <2>2, CellType
  <2> QED BY <2>1, <2>2
<1>9. ASSUME NEW u \in Threads
      PROVE  WriterOK(u)' /\ ReaderOK(u)'
  <2>1. CASE u = t
    BY <2>1, <1>3 DEF WriterOK, ReaderOK
  <2>2. CASE u # t
    <3>1. WriterOK(u) /\ ReaderOK(u) /\ pc'[u] = pc[u]
      BY <1>3, <2>2 DEF FullInv, HandOver
    <3> QED BY <1>0, <1>3, <1>5, <1>7, <1>8, <2>2, <3>1 DEF WriterOK, ReaderOK, InCell
  <2> QED BY <2>1, <2>2
<1>10. ASSUME NEW p \in enq .. enq + cap - 1
       PROVE  CellOK(p)'
  <2>0. CellOK(p) /\ p \in Nat /\ Cell(p) \in 0 .. cap - 1
    <3>1. CellOK(p) /\ p \in Nat
      BY <1>2 DEF FullInv, HandOver
    <3> QED BY <1>2, <3>1, CellType
  <2>1. \A u \in Threads \ {t} : pc'[u] = pc[u] /\ pos'[u] = pos[u]
    BY <1>3
  <2>2. CASE p < deq + cap
    <3>1. seq[Cell(p)] = p => seq'[Cell(p)] = p
      <4>1. seq[Cell(pos[t])] < p
        BY <1>2 DEF WriterOK
      <4> QED BY <1>4, <2>0, <4>1
    <3>2. \A u \in Threads : ReaderIn(u, p - cap) => u # t
      BY <1>2 DEF ReaderIn
    <3> QED BY <1>0, <1>3, <2>0, <2>1, <2>2, <3>1, <3>2 DEF CellOK, ReaderIn
  <2>3. CASE ~(p < deq + cap) /\ Cell(p) = Cell(pos[t])
    <3>1. p - cap \in Nat /\ p - cap \in enq - cap .. enq - 1 /\ (p - cap) + cap = p
      BY <1>2, <2>0, <2>3
    <3>2. Cell(p - cap) = Cell(pos[t])
      BY <1>2, <2>3, <3>1, CellLap DEF FullInv
    <3>3. p - cap = pos[t]
      BY <1>2, <3>1, <3>2, SamePosition
    <3>4. val[Cell(p)] = claimed[pos[t] + 1] /\ seq'[Cell(p)] = pos[t] + 1
      BY <1>2, <1>4, <2>3 DEF WriterOK
    <3> QED BY <1>0, <1>3, <2>3, <3>3, <3>4 DEF CellOK
  <2>4. CASE ~(p < deq + cap) /\ Cell(p) # Cell(pos[t])
    <3>1. seq'[Cell(p)] = seq[Cell(p)]
      BY <1>4, <2>0, <2>4
    <3>2. \A u \in Threads : WriterIn(u, p - cap) => u # t
      <4>1. WriterIn(t, p - cap) => p - cap = pos[t] /\ pos[t] + cap = p
        BY <1>2, <2>0 DEF WriterIn
      <4>2. Cell(pos[t] + cap) = Cell(pos[t])
        BY <1>2, CellLap DEF FullInv
      <4> QED BY <2>4, <4>1, <4>2
    <3> QED BY <1>0, <1>3, <2>0, <2>1, <2>4, <3>1, <3>2 DEF CellOK, WriterIn
  <2> QED BY <2>2, <2>3, <2>4
<1> QED BY <1>1, <1>3, <1>6, <1>9, <1>10 DEF HandOver

\* What a reader copies out is the element of its position.
LEMMA ReadCopyKeeps ==
  ASSUME FullInv, NEW t \in Threads, ReadCopy(t)
  PROVE  HandOver'
<1>0. \A p : Cell(p)' = Cell(p)
  BY DEF Cell, ReadCopy
<1>1. Calls'
  BY TypeStep DEF Next, Step, FullInv, HandOver, TypeInv
<1>2. /\ pc[t] = "r_copy" /\ pc'[t] = "r_free" /\ arg'[t] = val[Cell(pos[t])]
      /\ \A u \in Threads \ {t} : pc'[u] = pc[u] /\ arg'[u] = arg[u]
      /\ UNCHANGED <<cap, enq, deq, seq, val, pos, claimed>>
  BY DEF ReadCopy, Goto, FullInv, Typed
<1>3. Len(claimed)' = enq' /\ NeverOverrun' /\ OnePerPosition'
  BY <1>2 DEF FullInv, HandOver, NeverOverrun, OnePerPosition, InCell
<1>4. ASSUME NEW u \in Threads
      PROVE  WriterOK(u)' /\ ReaderOK(u)'
  <2>1. WriterOK(u) /\ ReaderOK(u)
    BY DEF FullInv, HandOver
  <2>2. CASE u = t
    BY <1>0, <1>2, <2>1, <2>2 DEF WriterOK, ReaderOK
  <2>3. CASE u # t
    BY <1>0, <1>2, <2>1, <2>3 DEF WriterOK, ReaderOK
  <2> QED BY <2>2, <2>3
<1>5. ASSUME NEW p \in enq .. enq + cap - 1
      PROVE  CellOK(p)'
  <2>1. CellOK(p)
    BY DEF FullInv, HandOver
  <2>2. \A u \in Threads :
          /\ pc[u] \in {"w_store", "w_publish"} => pc'[u] \in {"w_store", "w_publish"}
          /\ pc[u] \in {"r_copy", "r_free"} => pc'[u] \in {"r_copy", "r_free"}
    BY <1>2
  <2> QED BY <1>0, <1>2, <2>1, <2>2 DEF CellOK, ReaderIn, WriterIn
<1> QED BY <1>1, <1>2, <1>3, <1>4, <1>5 DEF HandOver

\* A reader frees its cell for the position one lap ahead, and no writer has
\* found it free before.
LEMMA ReadFreeKeeps ==
  ASSUME FullInv, NEW t \in Threads, ReadFree(t)
  PROVE  HandOver'
<1>0. \A p : Cell(p)' = Cell(p)
  BY DEF Cell, ReadFree
<1>1. Calls'
  BY TypeStep DEF Next, Step, FullInv, HandOver, TypeInv
<1>2. /\ pc[t] = "r_free" /\ InCell(t) /\ ReaderOK(t)
      /\ cap # 0 /\ cap \in Nat /\ cap >= 2 /\ enq \in Nat /\ deq \in Nat
      /\ deq <= enq /\ enq <= deq + cap /\ pos[t] \in Nat
      /\ Cell(pos[t]) \in 0 .. cap - 1
      /\ seq \in [0 .. cap - 1 -> Nat]
  BY RingSize, CellType
     DEF ReadFree, InCell, FullInv, HandOver, Calls, Typed, NeverOverrun
<1>3. /\ seq' = [seq EXCEPT ![Cell(pos[t])] = pos[t] + cap]
      /\ UNCHANGED <<cap, enq, deq, val, pos, arg, claimed>>
      /\ pc'[t] = "idle" /\ \A u \in Threads \ {t} : pc'[u] = pc[u]
  BY DEF ReadFree, Goto, FullInv, Typed
<1>4. /\ seq'[Cell(pos[t])] = pos[t] + cap
      /\ \A i : i # Cell(pos[t]) /\ i \in 0 .. cap - 1 => seq'[i] = seq[i]
  BY <1>2, <1>3
<1>5. ASSUME NEW u \in Threads, u # t, InCell(u)
      PROVE  seq'[Cell(pos[u])] = seq[Cell(pos[u])]
  <2>1. Cell(pos[u]) # Cell(pos[t]) /\ Cell(pos[u]) \in 0 .. cap - 1
    BY <1>2, <1>5, Apart, CellType, InCellWindow
  <2> QED BY <2>1, <1>4
<1>6. Len(claimed)' = enq' /\ NeverOverrun' /\ OnePerPosition'
  BY <1>2, <1>3 DEF FullInv, HandOver, NeverOverrun, OnePerPosition, InCell
<1>7. \A p \in enq .. enq + cap - 1 : seq[Cell(p)] = p => seq'[Cell(p)] = p
  <2> SUFFICES ASSUME NEW p \in enq .. enq + cap - 1, seq[Cell(p)] = p
               PROVE  seq'[Cell(p)] = p
    OBVIOUS
  <2>1. p \in Nat /\ pos[t] < p
    BY <1>2 DEF ReaderOK
  <2>2. Cell(p) # Cell(pos[t])
    <3>1. CASE p - pos[t] < cap
      BY <1>2, <2>1, <3>1, CellInj DEF FullInv
    <3>2. CASE ~(p - pos[t] < cap)
      BY <1>2, <2>1, <3>2 DEF ReaderOK
    <3> QED BY <3>1, <3>2
  <2> QED BY <1>2, <1>4, <2>1, <2>2, CellType
<1>8. seq[Cell(deq)] = deq + 1 => seq'[Cell(deq)] = deq + 1
  <2>1. seq[Cell(pos[t])] = pos[t] + 1 /\ pos[t] < deq /\ Cell(deq) \in 0 .. cap - 1
    BY <1>2, CellType DEF ReaderOK
  <2> QED BY <1>2, <1>4, <2>1
<1>9. ASSUME NEW u \in Threads
      PROVE  WriterOK(u)' /\ ReaderOK(u)'
  <2>1. CASE u = t
    BY <2>1, <1>3 DEF WriterOK, ReaderOK
  <2>2. CASE u # t
    <3>1. WriterOK(u) /\ ReaderOK(u) /\ pc'[u] = pc[u]
      BY <1>3, <2>2 DEF FullInv, HandOver
    <3>2. seq[Cell(enq)] = enq => seq'[Cell(enq)] = enq
      BY <1>2, <1>7, enq \in enq .. enq + cap - 1
    <3> QED BY <1>0, <1>3, <1>5, <1>8, <2>2, <3>1, <3>2 DEF WriterOK, ReaderOK, InCell
  <2> QED BY <2>1, <2>2
<1>10. ASSUME NEW p \in enq .. enq + cap - 1
       PROVE  CellOK(p)'
  <2>0. CellOK(p) /\ p \in Nat /\ Cell(p) \in 0 .. cap - 1
    <3>1. CellOK(p) /\ p \in Nat
      BY <1>2 DEF FullInv, HandOver
    <3> QED BY <1>2, <3>1, CellType
  <2>1. \A u \in Threads \ {t} : pc'[u] = pc[u] /\ pos'[u] = pos[u]
    BY <1>3
  <2>2. CASE p < deq + cap /\ ReaderIn(t, p - cap)
    <3>1. pos[t] + cap = p /\ Cell(pos[t] + cap) = Cell(pos[t])
      BY <1>2, <2>0, <2>2, CellLap DEF FullInv, ReaderIn
    <3> QED BY <1>0, <1>3, <1>4, <2>2, <3>1 DEF CellOK
  <2>3. CASE p < deq + cap /\ ~ReaderIn(t, p - cap)
    BY <1>0, <1>3, <1>7, <2>0, <2>1, <2>3 DEF CellOK, ReaderIn
  <2>4. CASE ~(p < deq + cap)
    <3>1. p - cap \in Nat /\ p - cap \in enq - cap .. enq - 1 /\ (p - cap) + cap = p
      BY <1>2, <2>0, <2>4
    <3>2. Cell(p) # Cell(pos[t])
      <4>1. p - cap # pos[t]
        BY <1>2, <2>0, <2>4 DEF ReaderOK
      <4>2. Cell(p) = Cell(p - cap)
        BY <1>2, <3>1, CellLap DEF FullInv
      <4> QED BY <1>2, <3>1, <4>1, <4>2, SamePosition
    <3>3. seq'[Cell(p)] = seq[Cell(p)]
      BY <1>4, <2>0, <3>2
    <3>4. \A u \in Threads : WriterIn(u, p - cap) => u # t
      BY <1>2 DEF WriterIn
    <3> QED BY <1>0, <1>3, <2>0, <2>1, <2>4, <3>3, <3>4 DEF CellOK, WriterIn
  <2> QED BY <2>2, <2>3, <2>4
<1> QED BY <1>1, <1>3, <1>6, <1>9, <1>10 DEF HandOver

\* A fresh queue: every cell is free for its first position.
FreshState ==
  /\ cap \in Nat /\ enq = 0 /\ deq = 0 /\ seq = [i \in 0 .. cap - 1 |-> i]
  /\ claimed = <<>> /\ \A t \in Threads : pc[t] = "idle"

\* A queue with nothing in it and nobody in a call obeys the protocol.
LEMMA FreshHandOver == FreshState => HandOver
<1> SUFFICES ASSUME FreshState PROVE HandOver
  OBVIOUS
<1> USE DEF FreshState
<1>1. Len(claimed) = enq /\ NeverOverrun
  BY DEF NeverOverrun
<1>2. Calls /\ OnePerPosition /\ \A t \in Threads : WriterOK(t) /\ ReaderOK(t)
  BY DEF Calls, OnePerPosition, InCell, WriterOK, ReaderOK, WritePcs
<1>3. ASSUME NEW p \in enq .. enq + cap - 1 PROVE CellOK(p)
  <2>1. p \in 0 .. cap - 1 /\ p < deq + cap /\ cap # 0
    OBVIOUS
  <2>2. Cell(p) = p
    BY <2>1 DEF Cell
  <2> QED BY <2>1, <2>2 DEF CellOK
<1> QED BY <1>1, <1>2, <1>3 DEF HandOver

\* The same of the state after a step.
LEMMA FreshHandOverNext == FreshState' => HandOver'
  BY FreshHandOver, PTL

\* Reset leaves such a queue.
LEMMA ResetKeeps ==
  ASSUME FullInv, NEW c \in Capacities, Reset(c)
  PROVE  HandOver'
<1>1. FreshState'
  BY CapacityAssumption DEF Reset, Fresh, FreshState
<1> QED BY <1>1, FreshHandOverNext
-----------------------------------------------------------------------------
(* The theorems *)

\* The constructor leaves such a queue.
LEMMA HandOverInit == Init => FullInv
<1> SUFFICES ASSUME Init PROVE FullInv
  OBVIOUS
<1>1. Typed
  BY TypeInit DEF TypeInv
<1>2. FreshState
  BY CapacityAssumption DEF Init, FreshState
<1> QED BY <1>1, <1>2, FreshHandOver DEF FullInv

\* Every action keeps the protocol.
LEMMA HandOverStep == FullInv /\ [Next]_vars => FullInv'
<1> SUFFICES ASSUME FullInv, [Next]_vars PROVE FullInv'
  OBVIOUS
<1>1. Typed'
  BY TypeStep DEF FullInv, HandOver, TypeInv
<1>2. ASSUME NEW t \in Threads, Step(t) PROVE HandOver'
  BY <1>2, WriteLoadKeeps, WriteSeqKeeps, WriteCasKeeps, WriteStoreKeeps,
     WritePublishKeeps, ReadLoadKeeps, ReadSeqKeeps, ReadCasKeeps, ReadCopyKeeps,
     ReadFreeKeeps DEF Step
<1>3. CASE UNCHANGED vars
  <2>0. \A p : Cell(p)' = Cell(p)
    BY <1>3 DEF vars, Cell
  <2>1. Len(claimed)' = enq' /\ NeverOverrun' /\ Calls' /\ OnePerPosition'
    BY <1>3 DEF vars, FullInv, HandOver, NeverOverrun, Calls, OnePerPosition, InCell
  <2>2. ASSUME NEW t \in Threads PROVE WriterOK(t)' /\ ReaderOK(t)'
    BY <1>3, <2>0 DEF vars, FullInv, HandOver, WriterOK, ReaderOK
  <2>3. ASSUME NEW p \in enq .. enq + cap - 1 PROVE CellOK(p)'
    BY <1>3, <2>0 DEF vars, FullInv, HandOver, CellOK, ReaderIn, WriterIn
  <2> QED BY <1>1, <1>3, <2>1, <2>2, <2>3 DEF vars, FullInv, HandOver
<1>4. CASE Next
  BY <1>1, <1>2, <1>4, CallTryWriteKeeps, CallReadKeeps, ResetKeeps DEF Next, FullInv
<1> QED BY <1>3, <1>4

\* The hand-over protocol of TryWrite and Read holds in every reachable state:
\* what a sequence number tells a thread about its cell is true.
THEOREM HandOverHolds == Spec => []HandOver
<1>1. Init => FullInv
  BY HandOverInit
<1>2. FullInv /\ [Next]_vars => FullInv'
  BY HandOverStep
<1>3. FullInv => HandOver
  BY DEF FullInv
<1> QED BY <1>1, <1>2, <1>3, PTL DEF Spec

\* Values are in their range and no call's position is ahead of the shared ones in
\* every reachable state: TryWrite and Read only store positions they loaded, and
\* go on with one only when their compare and swap has moved the shared one past it.
THEOREM TypesCorrect == Spec => []TypeOK
<1>1. Init => FullInv
  BY HandOverInit
<1>2. FullInv /\ [Next]_vars => FullInv'
  BY HandOverStep
<1>3. FullInv => TypeOK
  BY DEF FullInv, HandOver, WriterOK, ReaderOK, TypeOK
<1> QED BY <1>1, <1>2, <1>3, PTL DEF Spec

\* No two threads are ever inside one cell, nothing unread is overwritten and
\* every reader gets the element of the position it claimed.
THEOREM QueueSafe == Spec => [](NeverOverrun /\ CellExclusive /\ FifoOrder)
<1>1. Init => FullInv
  BY HandOverInit
<1>2. FullInv /\ [Next]_vars => FullInv'
  BY HandOverStep
<1>3. FullInv => NeverOverrun /\ CellExclusive /\ FifoOrder
  <2> SUFFICES ASSUME FullInv PROVE NeverOverrun /\ CellExclusive /\ FifoOrder
    OBVIOUS
  <2>1. NeverOverrun
    BY DEF FullInv, HandOver
  <2>2. CellExclusive
    BY Apart DEF CellExclusive
  <2>3. FifoOrder
    BY DEF FullInv, HandOver, ReaderOK, FifoOrder
  <2> QED BY <2>1, <2>2, <2>3
<1> QED BY <1>1, <1>2, <1>3, PTL DEF Spec
-----------------------------------------------------------------------------
(* Refusals *)

\* Positions any number of laps apart are in the same cell.
LEMMA ModAddMul ==
  ASSUME NEW C \in Nat \ {0}, NEW p \in Nat, NEW k \in Nat
  PROVE  (p + C * k) % C = p % C
<1> DEFINE a == p \div C
           b == (p + C * k) \div C
<1>0. C * k \in Nat
  OBVIOUS
<1>1. /\ p = C * a + (p % C) /\ a \in Nat /\ p % C \in 0 .. C - 1
      /\ p + C * k = C * b + ((p + C * k) % C) /\ b \in Nat
      /\ (p + C * k) % C \in 0 .. C - 1
  BY DivMod, p + C * k \in Nat, <1>0
<1>2. C * (a + k) = C * a + C * k /\ C * a \in Int /\ C * b \in Int /\ a + k \in Int
  BY <1>1
<1>3. CASE b < a + k
  BY <1>0, <1>1, <1>2, <1>3, MulLt
<1>4. CASE a + k < b
  BY <1>0, <1>1, <1>2, <1>4, MulLt
<1>5. CASE b = a + k
  BY <1>0, <1>1, <1>2, <1>5
<1> QED BY <1>1, <1>3, <1>4, <1>5

\* The cell of a past position is now the cell of one position of the lap about
\* to be written.
LEMMA LapAhead ==
  ASSUME NEW C \in Nat \ {0}, NEW p \in Nat, NEW e \in Nat, p < e
  PROVE  \E q \in e .. e + C - 1 : q \in Nat /\ q % C = p % C /\ q >= p + C
<1> DEFINE m == e - p + C - 1
           k == m \div C
<1>1. m \in Nat /\ m >= C
  OBVIOUS
<1> HIDE DEF m
<1>2. k \in Nat /\ m = C * k + (m % C) /\ m % C \in 0 .. C - 1
  BY <1>1, DivMod
<1> HIDE DEF k
<1>3. C * k \in Nat
  BY <1>2
<1>4. k # 0
  <2>1. k = 0 => C * k = 0
    OBVIOUS
  <2> QED BY <1>1, <1>2, <1>3, <2>1
<1>5. C * k >= C
  <2>1. C * 0 + C <= C * k
    BY <1>2, <1>4, MulLt
  <2> QED BY <2>1
<1>6. (p + C * k) % C = p % C
  BY <1>2, ModAddMul
<1>7. p + C * k \in e .. e + C - 1
  BY <1>2, <1>3 DEF m
<1> QED BY <1>3, <1>5, <1>6, <1>7

\* The signed difference of two words is exact when the first is ahead by less
\* than half the words.
LEMMA SignedDiffAhead ==
  ASSUME NEW a \in Int, NEW b \in Int, b <= a, a - b < Half
  PROVE  ~(SignedDiff(a, b) < 0)
<1>1. Word \in Nat /\ Half \in Nat /\ Word = 2 * Half
  BY WordAssumption
<1>2. (a - b) % Word = a - b
  BY <1>1
<1> QED BY <1>1, <1>2 DEF SignedDiff

\* What the sequence number of a past position's cell may be.
LEMMA PastCell ==
  ASSUME FullInv, cap # 0, NEW p \in Nat, p < enq
  PROVE  \E q \in enq .. enq + cap - 1 :
           /\ q >= p + cap
           /\ \/ q < deq + cap /\ seq[Cell(p)] = q
              \/ seq[Cell(p)] = q - cap + 1
              \/ seq[Cell(p)] = q - cap /\ deq <= q - cap
<1>1. cap \in Nat \ {0} /\ enq \in Nat /\ deq \in Nat
  BY RingSize DEF FullInv, Typed
<1>2. PICK q \in enq .. enq + cap - 1 : q \in Nat /\ q % cap = p % cap /\ q >= p + cap
  BY <1>1, LapAhead
<1>3. Cell(q) = Cell(p) /\ CellOK(q) /\ q - cap \in Nat
  BY <1>1, <1>2 DEF Cell, FullInv, HandOver
<1>4. ASSUME NEW u \in Threads, ReaderIn(u, q - cap)
      PROVE  seq[Cell(p)] = q - cap + 1
  <2>1. pos[u] = q - cap /\ seq[Cell(pos[u])] = pos[u] + 1
    BY <1>4 DEF ReaderIn, FullInv, HandOver, ReaderOK
  <2>2. Cell(q) = Cell(pos[u])
    BY <2>1, <1>1, <1>2, <1>3, CellLap, pos[u] + cap = q DEF FullInv
  <2> QED BY <1>3, <2>1, <2>2
<1>5. ASSUME NEW u \in Threads, WriterIn(u, q - cap)
      PROVE  seq[Cell(p)] = q - cap /\ deq <= q - cap
  <2>1. pos[u] = q - cap /\ seq[Cell(pos[u])] = pos[u] /\ deq <= pos[u]
    BY <1>5 DEF WriterIn, FullInv, HandOver, WriterOK
  <2>2. Cell(q) = Cell(pos[u])
    BY <2>1, <1>1, <1>2, <1>3, CellLap, pos[u] + cap = q DEF FullInv
  <2> QED BY <1>3, <2>1, <2>2
<1> QED BY <1>2, <1>3, <1>4, <1>5 DEF CellOK

\* TryWrite answers "full" only for the current position, with the element of
\* one lap earlier unread or still being copied.
LEMMA WriteRefusal ==
  ASSUME FullInv, NEW t \in Threads, WriteSeq(t), pc'[t] = "idle"
  PROVE  /\ pos[t] = enq
         /\ deq <= enq - cap \/ \E u \in Threads : ReaderIn(u, enq - cap)
<1> DEFINE dif == SignedDiff(seq[Cell(pos[t])], pos[t])
<1>1. dif < 0
  BY DEF WriteSeq, Goto, FullInv, Typed
<1> HIDE DEF dif
<1>2. /\ pc[t] = "w_seq" /\ cap # 0 /\ pos[t] <= enq /\ enq - pos[t] <= MaxLag
      /\ enq \in Nat /\ deq \in Nat /\ pos[t] \in Nat
      /\ cap \in Nat /\ cap >= 2 /\ MaxLag \in Nat /\ Half \in Nat
      /\ MaxLag + cap < Half
  BY RingSize DEF WriteSeq, FullInv, HandOver, Calls, WriterOK, Typed
<1>3. CASE pos[t] < enq
  <2>1. PICK q \in enq .. enq + cap - 1 :
          /\ q >= pos[t] + cap
          /\ \/ q < deq + cap /\ seq[Cell(pos[t])] = q
             \/ seq[Cell(pos[t])] = q - cap + 1
             \/ seq[Cell(pos[t])] = q - cap /\ deq <= q - cap
    BY <1>2, <1>3, PastCell
  <2>2. /\ seq[Cell(pos[t])] \in Int /\ pos[t] <= seq[Cell(pos[t])]
        /\ seq[Cell(pos[t])] - pos[t] < Half
    BY <1>2, <2>1
  <2> QED BY <1>1, <1>2, <2>2, SignedDiffAhead DEF dif
<1>4. CASE pos[t] = enq
  <2>0. ~(SignedDiff(enq, enq) < 0)
    BY <1>2, SignedDiffAhead, enq \in Int, enq <= enq, enq - enq < Half
  <2>1. seq[Cell(enq)] # enq
    BY <1>1, <1>4, <2>0 DEF dif
  <2>2. CellOK(enq)
    BY <1>2, enq \in enq .. enq + cap - 1 DEF FullInv, HandOver
  <2> QED BY <1>2, <1>4, <2>1, <2>2 DEF CellOK
<1> QED BY <1>2, <1>3, <1>4

\* Read answers "empty" only for the current position, with its element not
\* claimed or not published.
LEMMA ReadRefusal ==
  ASSUME FullInv, NEW t \in Threads, ReadSeq(t), pc'[t] = "idle"
  PROVE  /\ pos[t] = deq
         /\ deq = enq \/ \E u \in Threads : WriterIn(u, deq)
<1> DEFINE dif == SignedDiff(seq[Cell(pos[t])], pos[t] + 1)
<1>1. dif < 0
  BY DEF ReadSeq, Goto, FullInv, Typed
<1> HIDE DEF dif
<1>2. /\ pc[t] = "r_seq" /\ cap # 0 /\ pos[t] <= deq /\ deq - pos[t] <= MaxLag
      /\ enq \in Nat /\ deq \in Nat /\ pos[t] \in Nat /\ deq <= enq
      /\ enq <= deq + cap
      /\ cap \in Nat /\ cap >= 2 /\ MaxLag \in Nat /\ Half \in Nat
      /\ MaxLag + cap < Half
  BY RingSize
     DEF ReadSeq, FullInv, HandOver, Calls, ReaderOK, Typed, NeverOverrun
<1>3. CASE pos[t] < deq
  <2>1. PICK q \in enq .. enq + cap - 1 :
          /\ q >= pos[t] + cap
          /\ \/ q < deq + cap /\ seq[Cell(pos[t])] = q
             \/ seq[Cell(pos[t])] = q - cap + 1
             \/ seq[Cell(pos[t])] = q - cap /\ deq <= q - cap
    BY <1>2, <1>3, PastCell
  <2>2. /\ seq[Cell(pos[t])] \in Int /\ pos[t] + 1 <= seq[Cell(pos[t])]
        /\ seq[Cell(pos[t])] - (pos[t] + 1) < Half
    BY <1>2, <1>3, <2>1
  <2> QED BY <1>1, <1>2, <2>2, SignedDiffAhead DEF dif
<1>4. CASE pos[t] = deq /\ deq < enq
  <2>0. ~(SignedDiff(deq + 1, deq + 1) < 0)
    BY <1>2, SignedDiffAhead, deq + 1 \in Int, deq + 1 <= deq + 1,
       (deq + 1) - (deq + 1) < Half
  <2>1. seq[Cell(deq)] # deq + 1
    BY <1>1, <1>4, <2>0 DEF dif
  <2>2. CellOK(deq + cap) /\ Cell(deq + cap) = Cell(deq)
    BY <1>2, <1>4, CellLap, deq + cap \in enq .. enq + cap - 1 DEF FullInv, HandOver
  <2>3. (deq + cap) - cap = deq /\ ~(deq + cap < deq + cap)
    BY <1>2
  <2>4. seq[Cell(deq + cap)] = deq + 1 \/ \E u \in Threads : WriterIn(u, deq)
    BY <2>2, <2>3 DEF CellOK
  <2> QED BY <1>4, <2>1, <2>2, <2>4
<1> QED BY <1>2, <1>3, <1>4

\* Only the steps that read a sequence number give up a call.
LEMMA WhoRefuses ==
  ASSUME Typed, [Next]_vars, NEW t \in Threads, pc'[t] = "idle"
  PROVE  /\ pc[t] = "w_seq" => WriteSeq(t)
         /\ pc[t] = "r_seq" => ReadSeq(t)
<1> SUFFICES ASSUME pc[t] \in {"w_seq", "r_seq"} PROVE WriteSeq(t) \/ ReadSeq(t)
  BY DEF WriteSeq, ReadSeq
<1>1. ASSUME NEW u \in Threads, NEW v \in Values, CallTryWrite(u, v) PROVE FALSE
  BY <1>1 DEF CallTryWrite, Goto, Typed
<1>2. ASSUME NEW u \in Threads, CallRead(u) PROVE FALSE
  BY <1>2 DEF CallRead, Goto, Typed
<1>3. ASSUME NEW u \in Threads, Step(u), u # t PROVE FALSE
  BY <1>3 DEF Step, WriteLoad, WriteSeq, WriteCas, WriteStore, WritePublish, ReadLoad,
              ReadSeq, ReadCas, ReadCopy, ReadFree, Goto, Typed
<1>4. ASSUME Step(t) PROVE WriteSeq(t) \/ ReadSeq(t)
  BY <1>4 DEF Step, WriteLoad, WriteCas, WriteStore, WritePublish, ReadLoad, ReadCas,
              ReadCopy, ReadFree
<1>5. ASSUME NEW c \in Capacities, Reset(c) PROVE FALSE
  BY <1>5 DEF Reset
<1>6. CASE UNCHANGED vars
  BY <1>6 DEF vars
<1> QED BY <1>1, <1>2, <1>3, <1>4, <1>5, <1>6 DEF Next

\* TryWrite and Read never refuse for a stale reading of the queue: at the step
\* that gives up, the queue is at its limit or an element is still in the making.
THEOREM RefusalsHonest == Spec => HonestRefusals
<1>1. Init => FullInv
  BY HandOverInit
<1>2. FullInv /\ [Next]_vars => FullInv'
  BY HandOverStep
<1>3. FullInv /\ [Next]_vars =>
        [\A t \in Threads :
           /\ pc[t] = "w_seq" /\ pc'[t] = "idle" =>
                /\ pos[t] = enq
                /\ deq <= enq - cap \/ \E u \in Threads : ReaderIn(u, enq - cap)
           /\ pc[t] = "r_seq" /\ pc'[t] = "idle" =>
                /\ pos[t] = deq
                /\ deq = enq \/ \E u \in Threads : WriterIn(u, deq)]_vars
  BY WhoRefuses, WriteRefusal, ReadRefusal DEF FullInv
<1> QED BY <1>1, <1>2, <1>3, PTL DEF Spec, HonestRefusals
-----------------------------------------------------------------------------
(* The queue is a FIFO queue *)

\* The refinement mapping, named: what is in the queue, what a thread has taken.
Items == SubSeq(claimed, deq + 1, enq)
Held(t) == CASE pc[t] = "r_copy" -> val[Cell(pos[t])]
             [] pc[t] = "r_free" -> arg[t]
             [] OTHER -> None
Hands == [t \in Threads |-> Held(t)]

\* Dropping the first elements commutes with appending one.
LEMMA AppendPart ==
  ASSUME NEW S, NEW s \in Seq(S), NEW v \in S, NEW d \in Nat, d <= Len(s)
  PROVE  SubSeq(Append(s, v), d + 1, Len(s) + 1) = Append(SubSeq(s, d + 1, Len(s)), v)
<1> DEFINE a == Append(s, v)
           b == SubSeq(s, d + 1, Len(s))
           n == Len(s)
<1>1. n \in Nat /\ d <= n /\ a \in Seq(S) /\ Len(a) = n + 1 /\ a[n + 1] = v
      /\ \A i \in 1 .. n : a[i] = s[i]
  BY AppendProperties, LenProperties
<1>2. b \in Seq(S) /\ Len(b) = n - d /\ \A i \in 1 .. n - d : b[i] = s[d + i]
  <2>1. \A i \in d + 1 .. n : s[i] \in S
    BY <1>1, ElementOfSeq
  <2> QED BY <1>1, <2>1, SubSeqProperties
<1> HIDE DEF a, b, n
<1>3. /\ Append(b, v) \in Seq(S) /\ Len(Append(b, v)) = n - d + 1
      /\ \A i \in 1 .. n - d : Append(b, v)[i] = s[d + i]
      /\ Append(b, v)[n - d + 1] = v
  <2>1. /\ Append(b, v) \in Seq(S) /\ Len(Append(b, v)) = Len(b) + 1
        /\ \A i \in 1 .. Len(b) : Append(b, v)[i] = b[i]
        /\ Append(b, v)[Len(b) + 1] = v
    BY <1>2, AppendProperties
  <2> QED BY <1>2, <2>1
<1>4. /\ SubSeq(a, d + 1, n + 1) \in Seq(S) /\ Len(SubSeq(a, d + 1, n + 1)) = n - d + 1
      /\ \A i \in 1 .. n - d + 1 : SubSeq(a, d + 1, n + 1)[i] = a[d + i]
  <2>1. \A i \in d + 1 .. n + 1 : a[i] \in S
    BY <1>1, ElementOfSeq
  <2> QED BY <1>1, <2>1, SubSeqProperties
<1>5. \A i \in 1 .. n - d + 1 : SubSeq(a, d + 1, n + 1)[i] = Append(b, v)[i]
  <2> TAKE i \in 1 .. n - d + 1
  <2>1. SubSeq(a, d + 1, n + 1)[i] = a[d + i]
    BY <1>4
  <2>2. CASE i = n - d + 1
    BY <1>1, <1>3, <2>1, <2>2, d + i = n + 1
  <2>3. CASE i \in 1 .. n - d
    BY <1>1, <1>3, <2>1, <2>3, d + i \in 1 .. n
  <2>4. i = n - d + 1 \/ i \in 1 .. n - d
    BY <1>1
  <2> QED BY <2>2, <2>3, <2>4
<1>6. SubSeq(a, d + 1, n + 1) = Append(b, v)
  BY <1>3, <1>4, <1>5, SeqEqual
<1> QED BY <1>6 DEF a, b, n

\* A step that leaves the positions, the history and every taken element alone
\* is a stutter of the abstract queue.
LEMMA Stutter ==
  ASSUME UNCHANGED <<cap, enq, deq, claimed>>, \A t \in Threads : Held(t)' = Held(t)
  PROVE  UNCHANGED Fifo!avars
<1>1. UNCHANGED Hands /\ UNCHANGED Items
  BY DEF Hands, Items
<1> QED BY <1>1 DEF Fifo!avars, Hands, Held, Items

\* A thread that is in no cell and gets into none has taken nothing.
LEMMA QuietRefines ==
  ASSUME UNCHANGED <<cap, enq, deq, seq, val, claimed>>, NEW t \in Threads,
         \A u \in Threads \ {t} :
           pc'[u] = pc[u] /\ pos'[u] = pos[u] /\ arg'[u] = arg[u],
         pc[t] \notin {"r_copy", "r_free"}, pc'[t] \notin {"r_copy", "r_free"}
  PROVE  UNCHANGED Fifo!avars
<1>0. \A p : Cell(p)' = Cell(p)
  BY DEF Cell
<1>1. \A u \in Threads : Held(u)' = Held(u)
  BY <1>0 DEF Held
<1> QED BY <1>1, Stutter

\* Winning the race for a position to write appends the element.
LEMMA WriteClaimRefines ==
  ASSUME FullInv, NEW t \in Threads, WriteCas(t), SameWord(enq, pos[t])
  PROVE  Fifo!Put(arg[t]) /\ arg[t] \in Values
<1>1. FullInv'
  BY HandOverStep DEF Next, Step
<1>2. /\ pc[t] = "w_cas" /\ cap \in Nat /\ enq \in Nat /\ deq \in Nat
      /\ deq <= enq /\ cap # 0
      /\ claimed \in Seq(Values) /\ Len(claimed) = enq /\ arg[t] \in Values
  BY RingSize DEF WriteCas, FullInv, HandOver, Calls, Typed, NeverOverrun, WritePcs
<1>3. /\ enq' = enq + 1 /\ claimed' = Append(claimed, arg[t])
      /\ pc' = [pc EXCEPT ![t] = "w_store"]
      /\ UNCHANGED <<cap, deq, seq, val, pos, arg>>
  BY DEF WriteCas, Goto
<1>4. enq' <= deq' + cap'
  BY <1>1 DEF FullInv, HandOver, NeverOverrun
<1>5. Items' = Append(Items, arg[t])
  BY <1>2, <1>3, AppendPart DEF Items
<1>6. Len(Items) < cap
  BY <1>2, <1>3, <1>4 DEF Items
<1>7. Hands' = Hands
  <2>1. \A p : Cell(p)' = Cell(p)
    BY <1>3 DEF Cell
  <2>2. \A u \in Threads : Held(u)' = Held(u)
    BY <2>1, <1>2, <1>3 DEF Held, FullInv, Typed
  <2> QED BY <2>2 DEF Hands
<1> QED BY <1>2, <1>3, <1>5, <1>6, <1>7 DEF Fifo!Put, Items, Hands, Held

\* Winning the race for a position to read takes the oldest element.
LEMMA ReadClaimRefines ==
  ASSUME FullInv, NEW t \in Threads, ReadCas(t), SameWord(deq, pos[t])
  PROVE  Fifo!Take(t)
<1>1. FullInv'
  BY HandOverStep DEF Next, Step
<1>2. /\ pc[t] = "r_cas" /\ cap \in Nat /\ enq \in Nat /\ deq \in Nat
      /\ claimed \in Seq(Values) /\ Len(claimed) = enq
      /\ pos \in [Threads -> Nat] /\ pc \in [Threads -> {"idle"} \union WritePcs \union ReadPcs]
  BY RingSize DEF ReadCas, FullInv, HandOver, Calls, Typed
<1>3. /\ deq' = deq + 1
      /\ pc' = [pc EXCEPT ![t] = "r_copy"]
      /\ UNCHANGED <<cap, enq, seq, val, pos, arg, claimed>>
  BY DEF ReadCas, Goto
<1>4. deq < enq
  BY <1>1, <1>2, <1>3 DEF FullInv, HandOver, NeverOverrun
<1>5. Cell(pos[t])' = Cell(pos[t]) /\ pc'[t] = "r_copy" /\ pos'[t] = pos[t]
  BY <1>2, <1>3 DEF Cell
<1>6. val[Cell(pos[t])] = claimed[deq + 1]
  <2>1. ReaderOK(t)' /\ pos'[t] < deq' /\ val'[Cell(pos[t])'] = claimed'[pos'[t] + 1]
    BY <1>1, <1>5 DEF FullInv, HandOver, ReaderOK
  <2>2. pos[t] = deq
    <3>1. /\ deq - pos[t] <= MaxLag /\ pos[t] <= deq /\ (deq - pos[t]) % Word = 0
          /\ pos[t] \in Int /\ deq \in Int
      BY <1>2 DEF FullInv, HandOver, ReaderOK, SameWord
    <3>2. MaxLag < Word /\ Word # 0 /\ Word \in Nat /\ MaxLag \in Nat
      <4>1. cap # 0
        BY <1>2 DEF FullInv, HandOver, Calls
      <4> QED BY <4>1, RingSize DEF FullInv
    <3>3. deq - pos[t] < Word /\ pos[t] - deq < Word
      BY <3>1, <3>2
    <3> QED BY <3>1, <3>2, <3>3, WordExact
  <2> QED BY <1>3, <1>5, <2>1, <2>2
<1>7. /\ Items # <<>> /\ Head(Items) = claimed[deq + 1] /\ Items' = Tail(Items)
  BY <1>2, <1>3, <1>4 DEF Items
<1>8. Hands' = [Hands EXCEPT ![t] = claimed[deq + 1]]
  <2>1. \A p : Cell(p)' = Cell(p)
    BY <1>3 DEF Cell
  <2>2. \A u \in Threads \ {t} : Held(u)' = Held(u)
    BY <2>1, <1>2, <1>3 DEF Held
  <2>3. Held(t)' = claimed[deq + 1]
    BY <2>1, <1>3, <1>5, <1>6 DEF Held
  <2> QED BY <2>2, <2>3 DEF Hands
<1>9. Hands[t] = None
  BY <1>2 DEF Hands, Held
<1> QED BY <1>3, <1>7, <1>8, <1>9 DEF Fifo!Take, Items, Hands, Held

\* The writer stores into a cell no reader is copying from.
LEMMA WriteStoreRefines ==
  ASSUME FullInv, NEW t \in Threads, WriteStore(t)
  PROVE  UNCHANGED Fifo!avars
<1>0. \A p : Cell(p)' = Cell(p)
  BY DEF Cell, WriteStore
<1>1. /\ pc[t] = "w_store" /\ pc' = [pc EXCEPT ![t] = "w_publish"]
      /\ val' = [val EXCEPT ![Cell(pos[t])] = arg[t]]
      /\ UNCHANGED <<cap, enq, deq, seq, pos, arg, claimed>>
  BY DEF WriteStore, Goto
<1>2. pc'[t] = "w_publish" /\ \A u \in Threads \ {t} : pc'[u] = pc[u]
  BY <1>1 DEF FullInv, Typed
<1>3. ASSUME NEW u \in Threads PROVE Held(u)' = Held(u)
  <2>1. CASE u = t
    BY <1>1, <1>2, <2>1 DEF Held
  <2>2. CASE u # t /\ pc[u] = "r_copy"
    <3>1. InCell(u) /\ InCell(t) /\ Cell(pos[u]) # Cell(pos[t])
      BY <1>1, <2>2, Apart DEF InCell
    <3>2. Cell(pos[u]) \in 0 .. cap - 1
      BY <3>1, InCellWindow, CellType
    <3>3. val'[Cell(pos[u])] = val[Cell(pos[u])]
      BY <1>1, <3>1, <3>2 DEF FullInv, Typed
    <3> QED BY <1>0, <1>1, <1>2, <2>2, <3>3 DEF Held
  <2>3. CASE u # t /\ pc[u] # "r_copy"
    BY <1>1, <1>2, <2>3 DEF Held
  <2> QED BY <2>1, <2>2, <2>3
<1> QED BY <1>1, <1>3, Stutter

\* Copying the element out of its cell does not change what was taken.
LEMMA ReadCopyRefines ==
  ASSUME FullInv, NEW t \in Threads, ReadCopy(t)
  PROVE  UNCHANGED Fifo!avars
<1>0. \A p : Cell(p)' = Cell(p)
  BY DEF Cell, ReadCopy
<1>1. /\ pc[t] = "r_copy" /\ pc'[t] = "r_free" /\ arg'[t] = val[Cell(pos[t])]
      /\ \A u \in Threads \ {t} : pc'[u] = pc[u] /\ arg'[u] = arg[u]
      /\ UNCHANGED <<cap, enq, deq, seq, val, pos, claimed>>
  BY DEF ReadCopy, Goto, FullInv, Typed
<1>2. Held(t)' = Held(t)
  BY <1>1 DEF Held
<1>3. \A u \in Threads \ {t} : Held(u)' = Held(u)
  BY <1>0, <1>1 DEF Held
<1> QED BY <1>1, <1>2, <1>3, Stutter

\* Freeing the cell is the return of the call that took its element.
LEMMA ReadFreeRefines ==
  ASSUME FullInv, NEW t \in Threads, ReadFree(t)
  PROVE  Fifo!Return(t)
<1>0. \A p : Cell(p)' = Cell(p)
  BY DEF Cell, ReadFree
<1>1. /\ pc[t] = "r_free" /\ pc'[t] = "idle"
      /\ \A u \in Threads \ {t} : pc'[u] = pc[u]
      /\ UNCHANGED <<cap, enq, deq, val, pos, arg, claimed>>
  BY DEF ReadFree, Goto, FullInv, Typed
<1>2. Hands[t] # None
  <2>1. arg[t] = claimed[pos[t] + 1] /\ pos[t] + 1 \in 1 .. Len(claimed)
    <3>1. arg[t] = claimed[pos[t] + 1] /\ pos[t] < deq /\ deq <= enq
      BY <1>1 DEF FullInv, HandOver, ReaderOK, NeverOverrun
    <3> QED BY <3>1 DEF FullInv, HandOver, Typed
  <2>2. arg[t] \in Values
    BY <2>1 DEF FullInv, Typed
  <2> QED BY <1>1, <2>2, ValueAssumption DEF Hands, Held
<1>3. Hands' = [Hands EXCEPT ![t] = None]
  <2>1. Held(t)' = None
    BY <1>1 DEF Held
  <2>2. \A u \in Threads \ {t} : Held(u)' = Held(u)
    BY <1>0, <1>1 DEF Held
  <2> QED BY <2>1, <2>2 DEF Hands
<1>4. UNCHANGED Items
  BY <1>1 DEF Items
<1> QED BY <1>1, <1>2, <1>3, <1>4 DEF Fifo!Return, Items, Hands, Held

\* Reset empties the queue and may change its capacity.
LEMMA ResetRefines ==
  ASSUME FullInv, NEW c \in Capacities, Reset(c)
  PROVE  Fifo!Clear(c)
<1>1. \A t \in Threads : pc[t] = "idle" /\ pc'[t] = "idle"
  BY DEF Reset
<1>2. Hands = [t \in Threads |-> None] /\ Hands' = [t \in Threads |-> None]
  BY <1>1 DEF Hands, Held
<1>3. cap' = c /\ Items' = <<>>
  BY DEF Reset, Fresh, Items
<1> QED BY <1>2, <1>3 DEF Fifo!Clear, Items, Hands, Held

\* An empty queue refines an empty queue.
LEMMA InitRefines == Init => Fifo!AInit
<1> SUFFICES ASSUME Init PROVE Fifo!AInit
  OBVIOUS
<1>1. Hands = [t \in Threads |-> None]
  BY DEF Init, Hands, Held
<1>2. Items = <<>> /\ cap \in Capacities
  BY DEF Init, Items
<1> QED BY <1>1, <1>2 DEF Fifo!AInit, Items, Hands, Held

\* Every step of TryWrite, Read or Reset is a step of the abstract queue or none.
LEMMA StepRefines == FullInv /\ [Next]_vars => [Fifo!ANext]_(Fifo!avars)
<1> SUFFICES ASSUME FullInv, [Next]_vars PROVE Fifo!ANext \/ UNCHANGED Fifo!avars
  OBVIOUS
<1>1. ASSUME NEW t \in Threads, NEW v \in Values, CallTryWrite(t, v)
      PROVE  UNCHANGED Fifo!avars
  BY <1>1, QuietRefines DEF CallTryWrite, Goto, FullInv, Typed
<1>2. ASSUME NEW t \in Threads, CallRead(t) PROVE UNCHANGED Fifo!avars
  BY <1>2, QuietRefines DEF CallRead, Goto, FullInv, Typed
<1>3. ASSUME NEW t \in Threads, WriteLoad(t) \/ ReadLoad(t)
      PROVE  UNCHANGED Fifo!avars
  BY <1>3, QuietRefines DEF WriteLoad, ReadLoad, Goto, FullInv, Typed
<1>4. ASSUME NEW t \in Threads, WriteSeq(t) \/ ReadSeq(t)
      PROVE  UNCHANGED Fifo!avars
  <2>1. /\ pc[t] \in {"w_seq", "r_seq"}
        /\ \E l \in {"w_cas", "r_cas", "idle", "w_load", "r_load"} :
             pc' = [pc EXCEPT ![t] = l]
        /\ UNCHANGED <<cap, enq, deq, seq, val, pos, arg, claimed>>
    BY <1>4 DEF WriteSeq, ReadSeq, Goto
  <2> QED BY <2>1, QuietRefines DEF FullInv, Typed
<1>5. ASSUME NEW t \in Threads, WriteCas(t), ~SameWord(enq, pos[t])
      PROVE  UNCHANGED Fifo!avars
  BY <1>5, QuietRefines DEF WriteCas, Goto, FullInv, Typed
<1>6. ASSUME NEW t \in Threads, ReadCas(t), ~SameWord(deq, pos[t])
      PROVE  UNCHANGED Fifo!avars
  BY <1>6, QuietRefines DEF ReadCas, Goto, FullInv, Typed
<1>7. ASSUME NEW t \in Threads, WritePublish(t) PROVE UNCHANGED Fifo!avars
  <2>1. /\ pc[t] = "w_publish" /\ pc'[t] = "idle"
        /\ \A u \in Threads \ {t} : pc'[u] = pc[u]
        /\ UNCHANGED <<cap, enq, deq, val, pos, arg, claimed>>
    BY <1>7 DEF WritePublish, Goto, FullInv, Typed
  <2>2. \A p : Cell(p)' = Cell(p)
    BY <2>1 DEF Cell
  <2>3. \A u \in Threads : Held(u)' = Held(u)
    BY <2>1, <2>2 DEF Held
  <2> QED BY <2>1, <2>3, Stutter
<1>8. CASE UNCHANGED vars
  BY <1>8 DEF vars, Fifo!avars, Cell
<1>9. ASSUME NEW t \in Threads, Step(t) PROVE Fifo!ANext \/ UNCHANGED Fifo!avars
  <2>1. CASE WriteCas(t) /\ SameWord(enq, pos[t])
    BY <2>1, WriteClaimRefines DEF Fifo!ANext
  <2>2. CASE ReadCas(t) /\ SameWord(deq, pos[t])
    BY <2>2, ReadClaimRefines DEF Fifo!ANext
  <2>3. CASE ReadFree(t)
    BY <2>3, ReadFreeRefines DEF Fifo!ANext
  <2> QED BY <1>3, <1>4, <1>5, <1>6, <1>7, <1>9, <2>1, <2>2, <2>3, WriteStoreRefines,
             ReadCopyRefines DEF Step
<1>10. ASSUME NEW c \in Capacities, Reset(c) PROVE Fifo!ANext
  BY <1>10, ResetRefines DEF Fifo!ANext
<1> QED BY <1>1, <1>2, <1>8, <1>9, <1>10 DEF Next

\* The ring of cells, with its positions, sequence numbers and races, is a FIFO
\* queue: each element is taken once, in the order the positions were claimed,
\* and what a reader returns is what it took.
THEOREM RingIsFifo == Spec => ImplementsFifo
<1>1. Init => FullInv /\ Fifo!AInit
  BY HandOverInit, InitRefines
<1>2. FullInv /\ [Next]_vars => FullInv'
  BY HandOverStep
<1>3. FullInv /\ [Next]_vars => [Fifo!ANext]_(Fifo!avars)
  BY StepRefines
<1> QED BY <1>1, <1>2, <1>3, PTL DEF Spec, ImplementsFifo, Fifo!ASpec
=============================================================================
