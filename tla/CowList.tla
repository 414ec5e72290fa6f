------------------------------- MODULE CowList -------------------------------
(***************************************************************************)
(* Threading/CowList.h: one writer edits m_pData and publishes copies of   *)
(* it, one reader takes the newest copy.  m_pending hands copies over and  *)
(* m_retired, a stack, hands them back to the writer, which alone frees    *)
(* memory.  One action is one access to m_pending or m_retired and the     *)
(* private work around it.                                                 *)
(***************************************************************************)
EXTENDS Integers, Sequences, FiniteSets

CONSTANTS
  Items,       \* the values of type T
  Snaps,       \* the addresses a CowListSnapshot may be allocated at
  NULL,        \* the null pointer
  JUNK,        \* memory that was not written
  InitialCapacity, GrowCapacity, \* the arguments of the constructor, at least 1
  MaxCount,    \* bound: items in the list
  MaxDepth,    \* bound: nesting of StartUpdate
  MaxCalls     \* bound: calls of the writer that change the list

VARIABLES
  heap,    \* the snapshot at each address: whether it is live, items and next
  hand,    \* m_pending, m_retired and m_current
  store,   \* m_pData, m_iCapacity and m_iCount
  writer,  \* m_iUpdateDepth, m_bBatchDirty, and the call of the writer
  reader   \* the GetSnapshot of the reader

vars == <<heap, hand, store, writer, reader>>

Free == [live |-> FALSE, items |-> <<>>, next |-> NULL]
Live == {a \in Snaps : heap[a].live}

nexts == [a \in Snaps |-> heap[a].next]

\* the snapshots from p on along next
Chain(p) ==
  LET at[k \in 1 .. Cardinality(Snaps)] ==
        IF k = 1 THEN p
        ELSE IF at[k - 1] = NULL THEN NULL ELSE nexts[at[k - 1]]
  IN  {at[k] : k \in DOMAIN at} \ {NULL}

Without(S) == [a \in Snaps |-> IF a \in S THEN Free ELSE heap[a]]
Elements(m) == [i \in 1 .. m.count |-> m.data[i - 1]]
CowListSnapshot(items) == [live |-> TRUE, items |-> items, next |-> NULL]
----------------------------------------------------------------------------
(* m_pData *)

NoStore == [data |-> [i \in {} |-> JUNK], cap |-> 0, count |-> 0]

SetCapacity(m, capacity) ==
  IF capacity <= m.cap THEN m
  ELSE [m EXCEPT !.cap = capacity,
                 !.data = [i \in 0 .. capacity - 1 |-> IF i < m.cap THEN m.data[i] ELSE JUNK]]

Room(m) ==
  IF m.count + 1 >= m.cap
  THEN SetCapacity(m, IF m.count = 0 THEN InitialCapacity ELSE m.cap + GrowCapacity) ELSE m

\* an element stored, from the storage or past it
Stored(m, p, x) ==
  [m EXCEPT !.data = [i \in DOMAIN m.data \cup {p} |-> IF i = p THEN x ELSE m.data[i]]]

memmove(data, to, from, n) ==
  [i \in DOMAIN data \cup to .. to + n - 1 |-> IF i \in to .. to + n - 1 THEN data[i - to + from] ELSE data[i]]

Inserted(m, p, x) ==
  LET r == Room(m)
      s == [r EXCEPT !.data = memmove(@, p + 1, p, m.count - p)]
  IN  [Stored(s, p, x) EXCEPT !.count = @ + 1]

Removed(m, p) ==
  [m EXCEPT !.data = memmove(@, p, p + 1, m.count - p - 1), !.count = @ - 1]

Moved(m, from, to) ==
  Stored([m EXCEPT !.data = IF to < from THEN memmove(@, to + 1, to, from - to)
                            ELSE memmove(@, from, from + 1, to - from)], to, m.data[from])

\* qsort_r: the elements in some order of the caller's
Sorted(m, order) ==
  [m EXCEPT !.data = [i \in DOMAIN m.data |-> IF i < m.count THEN m.data[order[i]] ELSE m.data[i]]]
Orders(n) == {f \in [0 .. n - 1 -> 0 .. n - 1] : \A i, j \in 0 .. n - 1 : f[i] = f[j] => i = j}

\* what InsertAt and Add, RemoveAt and Remove, or Move make of m
Edits(m) ==
  {Inserted(m, p, x) : p \in IF m.count < MaxCount THEN 0 .. m.count ELSE {}, x \in Items}
  \cup {Removed(m, p) : p \in 0 .. m.count - 1}
  \cup UNION {{Moved(m, p, q) : q \in (0 .. m.count - 1) \ {p}} : p \in 0 .. m.count - 1}
----------------------------------------------------------------------------
(* The writer *)

Idle == [at |-> "idle", pending |-> NULL, new |-> NULL]
Call(at) == writer' = [writer EXCEPT !.call.at = at]

\* m_retired.Set(nullptr); the snapshots that were on it are deleted
ReclaimRetired == heap' = Without(Chain(hand.retired)) /\ hand' = [hand EXCEPT !.retired = NULL]

\* InsertAt, RemoveAt and Move: outside a batch they reclaim first and publish
\* at the end
Mutate(m) ==
  /\ writer.call.at = "idle" /\ writer.calls < MaxCalls
  /\ store' = m
  /\ IF writer.depth = 0
     THEN ReclaimRetired /\ writer' = [writer EXCEPT !.call.at = "load", !.calls = @ + 1]
     ELSE UNCHANGED <<heap, hand>> /\ writer' = [writer EXCEPT !.dirty = TRUE, !.calls = @ + 1]
  /\ UNCHANGED reader

\* the middle of Sort, which is a batch of its own or in one
Sort(m) ==
  /\ writer.call.at = "idle" /\ writer.depth > 0 /\ writer.calls < MaxCalls
  /\ store' = m
  /\ writer' = [writer EXCEPT !.dirty = TRUE, !.calls = @ + 1]
  /\ UNCHANGED <<heap, hand, reader>>

\* Clear publishes nothing
Clear ==
  /\ writer.call.at = "idle" /\ writer.calls < MaxCalls /\ store.count > 0
  /\ store' = [store EXCEPT !.count = 0]
  /\ writer' = [writer EXCEPT !.calls = @ + 1]
  /\ UNCHANGED <<heap, hand, reader>>

StartUpdate ==
  /\ writer.call.at = "idle" /\ writer.depth < MaxDepth
  /\ IF writer.depth = 0
     THEN ReclaimRetired /\ writer' = [writer EXCEPT !.depth = 1, !.dirty = FALSE]
     ELSE UNCHANGED <<heap, hand>> /\ writer' = [writer EXCEPT !.depth = @ + 1]
  /\ UNCHANGED <<store, reader>>

\* mutant: an inner EndUpdate publishes
EndUpdate_Inner ==
  /\ writer.call.at = "idle" /\ writer.depth > 0
  /\ writer' = [writer EXCEPT !.depth = @ - 1, !.call.at = IF writer.dirty THEN "load" ELSE "idle"]
  /\ UNCHANGED <<heap, hand, store, reader>>

EndUpdate ==
  /\ writer.call.at = "idle" /\ writer.depth > 0
  /\ writer' = [writer EXCEPT !.depth = @ - 1,
                  !.call.at = IF writer.depth = 1 /\ writer.dirty THEN "load" ELSE "idle"]
  /\ UNCHANGED <<heap, hand, store, reader>>

\* PublishSnapshot: m_pending.Get() and BuildSnapshot
LoadPending ==
  /\ writer.call.at = "load"
  /\ \E a \in Snaps \ Live :
       /\ heap' = [heap EXCEPT ![a] = CowListSnapshot(Elements(store))]
       /\ writer' = [writer EXCEPT !.call = [at |-> "try", pending |-> hand.pending, new |-> a]]
  /\ UNCHANGED <<hand, store, reader>>

\* m_pending.TrySet: what was never taken is deleted
TrySet ==
  /\ writer.call.at = "try"
  /\ IF hand.pending = writer.call.pending
     THEN /\ hand' = [hand EXCEPT !.pending = writer.call.new]
          /\ heap' = Without({writer.call.pending})
          /\ writer' = [writer EXCEPT !.call = Idle]
     ELSE Call("set") /\ UNCHANGED <<heap, hand>>
  /\ UNCHANGED <<store, reader>>

\* m_pending.Set: the reader took what was there
SetPending ==
  /\ writer.call.at = "set"
  /\ hand' = [hand EXCEPT !.pending = writer.call.new]
  /\ writer' = [writer EXCEPT !.call = Idle]
  /\ UNCHANGED <<heap, store, reader>>

\* Reset, with no batch open and the reader away
Reset ==
  /\ writer.call.at = "idle" /\ writer.depth = 0 /\ reader.at = "idle" /\ writer.calls < MaxCalls
  /\ store' = NoStore
  /\ LET freed == {hand.pending, hand.current} \cup Chain(hand.retired)
     IN  \E a \in (Snaps \ Live) \cup (freed \ {NULL}) :
           /\ heap' = [Without(freed) EXCEPT ![a] = CowListSnapshot(<<>>)]
           /\ hand' = [pending |-> NULL, retired |-> NULL, current |-> a]
  /\ writer' = [writer EXCEPT !.calls = @ + 1]
  /\ UNCHANGED reader
----------------------------------------------------------------------------
(* The reader: GetSnapshot *)

Away == [at |-> "idle", pending |-> NULL, head |-> NULL]

\* m_pending.Set(nullptr)
TakePending ==
  /\ reader.at = "idle" /\ hand.pending # NULL
  /\ hand' = [hand EXCEPT !.pending = NULL]
  /\ reader' = [reader EXCEPT !.at = "head", !.pending = hand.pending]
  /\ UNCHANGED <<heap, store, writer>>

\* m_retired.Get() and oldCurrent->next = head
LoadRetired ==
  /\ reader.at = "head"
  /\ reader' = [reader EXCEPT !.at = "push", !.head = hand.retired]
  /\ heap' = [heap EXCEPT ![hand.current].next = hand.retired]
  /\ UNCHANGED <<hand, store, writer>>

\* the compare and swap, and oldCurrent->next = head again when it was lost
PushRetired ==
  /\ reader.at = "push"
  /\ IF hand.retired = reader.head
     THEN /\ hand' = [hand EXCEPT !.retired = hand.current, !.current = reader.pending]
          /\ reader' = Away /\ UNCHANGED heap
     ELSE /\ reader' = [reader EXCEPT !.head = hand.retired]
          /\ heap' = [heap EXCEPT ![hand.current].next = hand.retired]
          /\ UNCHANGED hand
  /\ UNCHANGED <<store, writer>>
----------------------------------------------------------------------------
Init ==
  /\ LET a == CHOOSE a \in Snaps : TRUE
     IN  /\ heap = [b \in Snaps |-> IF b = a THEN CowListSnapshot(<<>>) ELSE Free]
         /\ hand = [pending |-> NULL, retired |-> NULL, current |-> a]
  /\ store = NoStore /\ reader = Away
  /\ writer = [depth |-> 0, dirty |-> FALSE, calls |-> 0, call |-> Idle]

WriterStep == LoadPending \/ TrySet \/ SetPending
ReaderStep == TakePending \/ LoadRetired \/ PushRetired

Next ==
  \/ \E m \in Edits(store) : Mutate(m)
  \/ \E order \in Orders(store.count) : Sort(Sorted(store, order))
  \/ Clear \/ StartUpdate \/ EndUpdate \/ Reset \/ WriterStep \/ ReaderStep

\* both threads run on; the reader calls GetSnapshot once per audio cycle
Fairness == WF_vars(WriterStep) /\ WF_vars(ReaderStep)
----------------------------------------------------------------------------
\* Every value is in its range.
TypeOK ==
  /\ {hand.pending, hand.retired, writer.call.pending, writer.call.new, reader.pending, reader.head}
       \subseteq Snaps \cup {NULL}
  /\ hand.current \in Snaps /\ store.count \in 0 .. MaxCount
  /\ writer.depth \in 0 .. MaxDepth /\ writer.dirty \in BOOLEAN
  /\ \A a \in Live : heap[a].items \in Seq(Items)

\* Every snapshot that is live has one owner, and what the threads can reach is
\* live; the elements lie inside the storage and were all written.
Sound ==
  /\ Live = ({hand.current, hand.pending, reader.pending, writer.call.new} \cup Chain(hand.retired)) \ {NULL}
  /\ Cardinality(Live) = Cardinality(Chain(hand.retired)) +
       Cardinality({o \in 1 .. 4 : <<hand.current, hand.pending, reader.pending, writer.call.new>>[o] # NULL})
  /\ DOMAIN store.data = 0 .. store.cap - 1 /\ store.count <= store.cap
  /\ \A i \in 0 .. store.count - 1 : store.data[i] # JUNK

Viewed == heap[IF reader.pending = NULL THEN hand.current ELSE reader.pending]
Newest == IF hand.pending = NULL THEN Viewed ELSE heap[hand.pending]

Register == INSTANCE ListRegister WITH
  work <- Elements(store), open <- writer.depth > 0, published <- Newest.items, view <- Viewed.items

\* The reader sees whole lists, none from inside a batch, in order.
ImplementsRegister == Register!Spec

\* What the writer publishes comes to be the reader's, or is replaced.
LatestIsSeen ==
  \A a \in Snaps : hand.pending = a ~> hand.current = a \/ ~heap[a].live
=============================================================================
