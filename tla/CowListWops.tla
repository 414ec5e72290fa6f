----------------------------- MODULE CowListWops -----------------------------
(***************************************************************************)
(* Threading/CowListWops.h: a list owned by one writer thread, of which    *)
(* one reader thread takes immutable snapshots.  m_pending hands the newest*)
(* snapshot over and m_retired, a Treiber stack, hands the old ones back   *)
(* to the writer, the only one that frees memory.                          *)
(*                                                                         *)
(* One action is one access to m_pending or m_retired with the private     *)
(* work up to the next one; what the writer reads off a snapshot the       *)
(* reader may be changing (BuildSnapshot) is an action of its own.         *)
(***************************************************************************)
EXTENDS Integers, Sequences, FiniteSets, SequencesExt, Bags

CONSTANTS
  Items,     \* the values of type T
  Snaps,     \* the addresses a CowListWopsSnapshot may be allocated at
  NULL,      \* the null pointer
  UseClear,  \* whether the writer calls Clear
  MaxDepth,  \* bound: nesting of StartUpdate
  MaxLen,    \* bound: items in the list
  MaxDelta   \* bound: inserted and deleted items the reader has not seen

ASSUME CowAssumption ==
  /\ NULL \notin Snaps /\ IsFiniteSet(Snaps) /\ UseClear \in BOOLEAN
  /\ MaxDepth \in Nat /\ MaxLen \in Nat /\ MaxDelta \in Nat

VARIABLES
  heap,     \* the snapshot at each address, or Free
  pending,  \* m_pending
  retired,  \* m_retired
  current,  \* m_current
  data,     \* m_pData, of m_iCount items
  depth,    \* m_iUpdateDepth
  dirty,    \* m_bBatchDirty
  ins,      \* insertedItems of the call, or m_pBatchInserted
  del,      \* deletedItems of the call, or m_pBatchDeleted
  base,     \* "pending" of a mutating call, or m_pBatchBaseline
  new,      \* newSnapshot
  wpc,      \* where the writer is
  taken,    \* "pending" of GetSnapshot
  top,      \* "head" of GetSnapshot
  rpc       \* where the reader is

writer == <<data, depth, dirty, ins, del, base, new, wpc>>
reader == <<taken, top, rpc>>
vars == <<heap, pending, retired, current, writer, reader>>

Free == [live |-> FALSE]
Snapshot(items, i, d) ==
  [live |-> TRUE, items |-> items, ins |-> i, del |-> d, next |-> NULL]
Live == {a \in Snaps : heap[a].live}

\* the snapshots from p on along next; the walk ends at freed memory
nexts == [a \in Snaps |-> IF heap[a].live THEN heap[a].next ELSE NULL]
Chain(p) ==
  LET at[k \in 1 .. Cardinality(Snaps)] ==
        IF k = 1 THEN p ELSE IF at[k - 1] = NULL THEN NULL ELSE nexts[at[k - 1]]
  IN  {at[k] : k \in DOMAIN at} \ {NULL}

\* the heap once the snapshots of S are deleted
Without(S) == [a \in Snaps |-> IF a \in S THEN Free ELSE heap[a]]

Bounded(n) ==
  n <= MaxDelta /\ (pending # NULL =>
                      Len(heap[pending].ins) + Len(heap[pending].del) + n <= MaxDelta)
-----------------------------------------------------------------------------
(* The edits of m_pData: the list afterwards, and what came and went *)

Edit(d, i, x) == [data |-> d, ins |-> i, del |-> x]

\* InsertAt, Add
Inserts ==
  IF Len(data) = MaxLen THEN {}
  ELSE {Edit(InsertAt(data, p, v), <<v>>, <<>>) : p \in 1 .. Len(data) + 1, v \in Items}

\* RemoveAt, Remove of a value that is there
Removes == {Edit(RemoveAt(data, p), <<>>, <<data[p]>>) : p \in DOMAIN data}

\* Move from one place to another one, which publishes even when the items are
\* equal and the list stays as it was
Moves ==
  UNION {{Edit(InsertAt(RemoveAt(data, p), q, data[p]), <<>>, <<>>) : q \in DOMAIN data \ {p}} :
           p \in DOMAIN data}

Edits == Inserts \union Removes \union Moves

\* Sort leaves the items in an order of the callback's.
Sorts == {d \in [DOMAIN data -> Items] : ToBag(d) = ToBag(data)}

\* BuildSnapshot(from, ins, del)
Build(from, i, d) ==
  IF from = NULL THEN Snapshot(data, i, d)
  ELSE Snapshot(data, heap[from].ins \o i, heap[from].del \o d)
-----------------------------------------------------------------------------
(* The writer *)

\* mutant: the retired snapshots are freed, the stack keeps pointing to them
ReclaimRetired_Keep ==
  /\ heap' = Without(Chain(retired))
  /\ UNCHANGED retired

\* m_retired.Set(nullptr); what it held is then deleted
ReclaimRetired ==
  /\ heap' = Without(Chain(retired))
  /\ retired' = NULL

\* mutant: a mutating call does not reclaim
Mutate_NoReclaim(e) ==
  /\ wpc = "idle" /\ depth = 0
  /\ Bounded(Len(e.ins) + Len(e.del))
  /\ data' = e.data /\ ins' = e.ins /\ del' = e.del
  /\ wpc' = "load"
  /\ UNCHANGED <<heap, pending, retired, current, depth, dirty, base, new, reader>>

\* A mutating call outside a batch: reclaims, then edits m_pData.
Mutate(e) ==
  /\ wpc = "idle" /\ depth = 0
  /\ Bounded(Len(e.ins) + Len(e.del))
  /\ ReclaimRetired
  /\ data' = e.data /\ ins' = e.ins /\ del' = e.del
  /\ wpc' = "load"
  /\ UNCHANGED <<pending, current, depth, dirty, base, new, reader>>

\* m_pending.Get()
LoadPending ==
  /\ wpc = "load"
  /\ base' = pending
  /\ wpc' = "build"
  /\ UNCHANGED <<heap, pending, retired, current, data, depth, dirty, ins, del, new,
                 reader>>

\* mutant: what the pending snapshot carries is not carried forward
BuildSnapshot_Forget ==
  /\ wpc = "build"
  /\ \E a \in Snaps \ Live :
       heap' = [heap EXCEPT ![a] = Build(NULL, ins, del)] /\ new' = a
  /\ wpc' = "cas"
  /\ UNCHANGED <<pending, retired, current, data, depth, dirty, ins, del, base, reader>>

\* BuildSnapshot, in memory of its own
BuildSnapshot ==
  /\ wpc = "build"
  /\ \E a \in Snaps \ Live :
       heap' = [heap EXCEPT ![a] = Build(base, ins, del)] /\ new' = a
  /\ wpc' = "cas"
  /\ UNCHANGED <<pending, retired, current, data, depth, dirty, ins, del, base, reader>>

\* the end of a mutating call or of EndUpdate
Done ==
  /\ wpc' = "idle"
  /\ base' = NULL /\ new' = NULL /\ ins' = <<>> /\ del' = <<>> /\ dirty' = FALSE

\* mutant: the snapshot that was never used is not deleted
StorePending_Leak ==
  /\ wpc = "cas"
  /\ \/ pending = base /\ pending' = new /\ Done
     \/ pending # base /\ wpc' = "reclaim"
        /\ UNCHANGED <<pending, dirty, ins, del, base, new>>
  /\ UNCHANGED <<heap, retired, current, data, depth, reader>>

\* mutant: a lost race is taken for a snapshot that is not needed any more
StorePending_GiveUp ==
  /\ wpc = "cas"
  /\ IF pending = base
     THEN /\ pending' = new
          /\ heap' = IF base = NULL THEN heap ELSE [heap EXCEPT ![base] = Free]
     ELSE heap' = [heap EXCEPT ![new] = Free] /\ UNCHANGED pending
  /\ Done
  /\ UNCHANGED <<retired, current, data, depth, reader>>

\* m_pending.TrySet(newSnapshot, oldSnapshot); a snapshot that was never used
\* is deleted
StorePending ==
  /\ wpc = "cas"
  /\ \/ /\ pending = base
        /\ pending' = new
        /\ heap' = IF base = NULL THEN heap ELSE [heap EXCEPT ![base] = Free]
        /\ Done
     \/ /\ pending # base
        /\ wpc' = "reclaim"
        /\ UNCHANGED <<heap, pending, dirty, ins, del, base, new>>
  /\ UNCHANGED <<retired, current, data, depth, reader>>

\* After a failed TrySet: ReclaimRetired, delete newSnapshot, and one that has
\* only this call's items instead.
Rebuild ==
  /\ wpc = "reclaim"
  /\ retired' = NULL
  /\ LET freed == Chain(retired) \union {new}
     IN  \E a \in (Snaps \ Live) \union freed :
           heap' = [Without(freed) EXCEPT ![a] = Build(NULL, ins, del)] /\ new' = a
  /\ wpc' = "set"
  /\ UNCHANGED <<pending, current, data, depth, dirty, ins, del, base, reader>>

\* m_pending.Set(newSnapshot)
SetPending ==
  /\ wpc = "set"
  /\ pending' = new
  /\ Done
  /\ UNCHANGED <<heap, retired, current, data, depth, reader>>

\* StartUpdate: the outermost one reclaims and then peeks at m_pending.
StartUpdate ==
  /\ wpc = "idle" /\ depth < MaxDepth
  /\ depth' = depth + 1
  /\ IF depth = 0
     THEN ReclaimRetired /\ wpc' = "peek"
     ELSE UNCHANGED <<heap, retired, wpc>>
  /\ UNCHANGED <<pending, current, data, dirty, ins, del, base, new, reader>>

PeekPending ==
  /\ wpc = "peek"
  /\ base' = pending
  /\ wpc' = "idle"
  /\ UNCHANGED <<heap, pending, retired, current, data, depth, dirty, ins, del, new,
                 reader>>

\* A mutating call in a batch: AppendBatchInserted, AppendBatchDeleted.
BatchMutate(e) ==
  /\ wpc = "idle" /\ depth > 0
  /\ Bounded(Len(e.ins) + Len(e.del) + Len(ins) + Len(del))
  /\ data' = e.data /\ ins' = ins \o e.ins /\ del' = del \o e.del
  /\ dirty' = TRUE
  /\ UNCHANGED <<heap, pending, retired, current, depth, base, new, wpc, reader>>

\* Sort opens a batch; outside one it is StartUpdate, this and EndUpdate.
Sort(d) ==
  /\ wpc = "idle" /\ depth > 0
  /\ data' = d /\ dirty' = TRUE
  /\ UNCHANGED <<heap, pending, retired, current, depth, ins, del, base, new, wpc,
                 reader>>

\* EndUpdate: the outermost one publishes if anything changed.
EndUpdate ==
  /\ wpc = "idle" /\ depth > 0
  /\ depth' = depth - 1
  /\ IF depth > 1 THEN UNCHANGED <<base, new, ins, del, dirty, wpc>>
     ELSE IF dirty THEN wpc' = "build" /\ UNCHANGED <<base, new, ins, del, dirty>>
     ELSE Done
  /\ UNCHANGED <<heap, pending, retired, current, data, reader>>

\* Clear, which only forgets the items
Clear ==
  /\ UseClear /\ wpc = "idle"
  /\ data' = <<>>
  /\ UNCHANGED <<heap, pending, retired, current, depth, dirty, ins, del, base, new,
                 wpc, reader>>

\* Reset, with no batch open; it deletes m_current, so the reader is idle and
\* has given up its snapshot.
Reset ==
  /\ wpc = "idle" /\ depth = 0 /\ rpc = "idle"
  /\ data' = <<>> /\ pending' = NULL /\ retired' = NULL
  /\ LET freed == {pending, current} \union Chain(retired)
     IN  \E a \in (Snaps \ Live) \union (freed \ {NULL}) :
           /\ heap' = [Without(freed) EXCEPT ![a] = Snapshot(<<>>, <<>>, <<>>)]
           /\ current' = a
  /\ UNCHANGED <<depth, dirty, ins, del, base, new, wpc, reader>>
-----------------------------------------------------------------------------
(* The reader: GetSnapshot *)

\* m_pending.Set(nullptr); with nothing pending, ClearModifications
TakePending ==
  /\ rpc = "idle"
  /\ pending' = NULL /\ taken' = pending
  /\ IF pending = NULL
     THEN /\ heap' = [heap EXCEPT ![current].ins = <<>>, ![current].del = <<>>]
          /\ UNCHANGED rpc
     ELSE rpc' = "reconcile" /\ UNCHANGED heap
  /\ UNCHANGED <<retired, current, top, writer>>

\* buffer[i] = buffer[last]; count--
Trim(s, i) == SubSeq([s EXCEPT ![i] = s[Len(s)]], 1, Len(s) - 1)

\* TrimFromInserted of a deleted item, and TrimFromDeleted when that found it
CancelAt(snap, i) ==
  IF \E j \in DOMAIN snap.ins : snap.ins[j] = snap.del[i]
  THEN [snap EXCEPT
          !.ins = Trim(snap.ins, SelectInSeq(snap.ins, LAMBDA x : x = snap.del[i])),
          !.del = Trim(snap.del, i)]
  ELSE snap

\* mutant: the loop stops before the first deleted item
Cancel_SkipFirst(snap) ==
  LET n == Len(snap.del)
      turn[k \in 0 .. n] == IF k = 0 THEN snap ELSE CancelAt(turn[k - 1], n + 1 - k)
  IN  turn[IF n = 0 THEN 0 ELSE n - 1]

\* the loop of GetSnapshot over the deleted items, from the last to the first
Cancel(snap) ==
  LET n == Len(snap.del)
      turn[k \in 0 .. n] == IF k = 0 THEN snap ELSE CancelAt(turn[k - 1], n + 1 - k)
  IN  turn[n]

Reconcile ==
  /\ rpc = "reconcile"
  /\ heap' = [heap EXCEPT ![taken] = Cancel(@)]
  /\ rpc' = "retired"
  /\ UNCHANGED <<pending, retired, current, taken, top, writer>>

\* head = m_retired.Get() and oldCurrent->next = head
LoadRetired ==
  /\ rpc = "retired"
  /\ top' = retired
  /\ heap' = [heap EXCEPT ![current].next = retired]
  /\ rpc' = "push"
  /\ UNCHANGED <<pending, retired, current, taken, writer>>

\* mutant: another turn with the same head
PushRetired_NoReload ==
  /\ rpc = "push" /\ retired = top
  /\ retired' = current /\ current' = taken
  /\ taken' = NULL /\ top' = NULL /\ rpc' = "idle"
  /\ UNCHANGED <<heap, pending, writer>>

\* mutant: the wrong one of the two pointers becomes m_current
PushRetired_Swapped ==
  /\ rpc = "push" /\ retired = top
  /\ retired' = current /\ current' = top
  /\ taken' = NULL /\ top' = NULL /\ rpc' = "idle"
  /\ UNCHANGED <<heap, pending, writer>>

\* m_retired.CompareExchange(oldCurrent, head), and another turn with what was
\* there; then m_current = pending
PushRetired ==
  /\ rpc = "push"
  /\ IF retired = top
     THEN /\ retired' = current /\ current' = taken
          /\ taken' = NULL /\ top' = NULL /\ rpc' = "idle"
          /\ UNCHANGED heap
     ELSE /\ top' = retired
          /\ heap' = [heap EXCEPT ![current].next = retired]
          /\ UNCHANGED <<retired, current, taken, rpc>>
  /\ UNCHANGED <<pending, writer>>
-----------------------------------------------------------------------------
Init ==
  /\ \E a \in Snaps :
       /\ current = a
       /\ heap = [b \in Snaps |-> IF b = a THEN Snapshot(<<>>, <<>>, <<>>) ELSE Free]
  /\ pending = NULL /\ retired = NULL
  /\ data = <<>> /\ depth = 0 /\ dirty = FALSE /\ ins = <<>> /\ del = <<>>
  /\ base = NULL /\ new = NULL /\ wpc = "idle"
  /\ taken = NULL /\ top = NULL /\ rpc = "idle"

WriterStep ==
  LoadPending \/ BuildSnapshot \/ StorePending \/ Rebuild \/ SetPending \/ PeekPending

ReaderStep == Reconcile \/ LoadRetired \/ PushRetired

Next ==
  \/ \E e \in Edits : Mutate(e) \/ BatchMutate(e)
  \/ \E d \in Sorts : Sort(d)
  \/ StartUpdate \/ EndUpdate \/ Clear \/ Reset
  \/ WriterStep \/ TakePending \/ ReaderStep

Spec == Init /\ [][Next]_vars

\* Both threads run; the reader takes a snapshot every cycle.
FairSpec == Spec /\ WF_vars(WriterStep) /\ WF_vars(TakePending) /\ WF_vars(ReaderStep)
-----------------------------------------------------------------------------
(* Properties *)

Pointer == Snaps \union {NULL}

\* Types; the places of the two threads, and m_current is never null.
TypeOK ==
  /\ \A a \in Live :
       /\ heap[a].items \in Seq(Items) /\ heap[a].ins \in Seq(Items)
       /\ heap[a].del \in Seq(Items) /\ heap[a].next \in Pointer
  /\ {pending, retired, base, new, taken, top} \subseteq Pointer /\ current \in Snaps
  /\ data \in Seq(Items) /\ ins \in Seq(Items) /\ del \in Seq(Items)
  /\ depth \in 0 .. MaxDepth /\ dirty \in BOOLEAN
  /\ wpc \in {"idle", "peek", "load", "build", "cas", "reclaim", "set"}
  /\ rpc \in {"idle", "reconcile", "retired", "push"}

\* Nobody reaches freed memory: the reader's snapshots, the ones handed over
\* or back, and the one BuildSnapshot reads while the reader may have taken it.
NoDangling ==
  /\ ({current, pending, taken} \union Chain(retired)) \ {NULL} \subseteq Live
  /\ wpc \in {"build", "cas"} \/ depth > 0 => base \in Live \union {NULL}

\* Every snapshot has one owner and none leaks: it is the reader's, or handed
\* over, or handed back, or the one the writer is about to publish.
OneOwner ==
  \A a \in Live :
    Cardinality({o \in {"current", "pending", "taken", "retired", "new"} :
                   \/ o = "current" /\ a = current
                   \/ o = "pending" /\ a = pending
                   \/ o = "taken" /\ a = taken
                   \/ o = "retired" /\ a \in Chain(retired)
                   \/ o = "new" /\ a = new}) = 1

\* BuildSnapshot never allocates a fifth snapshot, however many calls of the
\* writer fall into one GetSnapshot: m_retired does not grow with them.
FewSnapshots == wpc = "build" => Cardinality(Live) < 4

\* the snapshot the reader has or is about to have, and the one it gets next
Viewed == heap[IF taken = NULL THEN current ELSE taken]
Newest == IF pending = NULL THEN Viewed ELSE heap[pending]

\* the register read off the snapshots
Register ==
  INSTANCE SnapshotRegister WITH
    work <- data, published <- Newest.items, view <- Viewed.items,
    added <- ToBag(Viewed.ins) (-) ToBag(Viewed.del),
    removed <- ToBag(Viewed.del) (-) ToBag(Viewed.ins)

\* Snapshots are atomic: the reader sees lists as they were when a call or an
\* outermost batch ended, in order and never torn, and the inserted and deleted
\* items are exactly the difference to the snapshot it had before.
DeltaIsExact == [][~ Reset => Register!ANext \/ UNCHANGED Register!avars]_vars

\* An item is not reported as both inserted and deleted.
Reconciled ==
  rpc = "idle" => {heap[current].ins[i] : i \in DOMAIN heap[current].ins}
                    \cap {heap[current].del[i] : i \in DOMAIN heap[current].del} = {}

\* A list the writer is publishing comes to be the reader's, unless the writer
\* edits it again first: no lost compare and swap leaves it behind for good.
LatestIsSeen ==
  \A d \in UNION {[1 .. n -> Items] : n \in 0 .. MaxLen} :
    data = d /\ wpc \in {"load", "build", "cas", "reclaim", "set"}
      ~> Viewed.items = d \/ data # d

\* GetSnapshot returns: its compare and swap on m_retired is lost to
\* ReclaimRetired only as often as there is something to reclaim.
ReaderReturns == rpc # "idle" ~> rpc = "idle"
=============================================================================
