---------------------------- MODULE MCPrimitives ----------------------------
(***************************************************************************)
(* The smaller concurrent components, each in behaviours of its own:       *)
(* "which" picks the one that runs, the others keep their initial state.   *)
(***************************************************************************)
EXTENDS Integers, Sequences, FiniteSets

CONSTANTS
  NONE, JUNK, NULL,
  Values, SpscSizes, MaxWrites,                       \* SpscQueue
  Items, Snaps, InitialCapacity, GrowCapacity,        \* CowList
  MaxCount, MaxDepth, MaxCalls,
  Words, Structs, SeqWord, MaxRaces,                  \* AtomicStruct
  LockThreads, LockKinds, Units, MaxUnits, MaxNested, \* Locks
  Threads,                                            \* of the last two
  Slots, Objects, MaxStarts,                          \* ThreadLocals
  Buckets, BucketUnits, Sizes, MaxAllocs              \* HighWaterHeap

\* What the code asserts, and what the bounds stand for.  MaxRaces stands for a
\* counter that does not go round during one Get.
ASSUME SpscAssumption ==
  SpscSizes \subseteq Nat \ {0} /\ NONE \notin Values /\ MaxWrites \in Nat
ASSUME CowAssumption ==
  /\ IsFiniteSet(Snaps) /\ Snaps # {} /\ NULL \notin Snaps /\ JUNK \notin Items
  /\ InitialCapacity \in Nat \ {0} /\ GrowCapacity \in Nat \ {0}
  /\ MaxCount \in Nat /\ MaxDepth \in Nat
ASSUME StructAssumption ==
  /\ MaxRaces \in Nat /\ SeqWord \in Nat /\ SeqWord % 2 = 0 /\ 2 * MaxRaces + 2 < SeqWord
  /\ Structs # {} /\ \A v \in Structs : v = [w \in Words |-> v[w]]
ASSUME LockAssumption ==
  /\ IsFiniteSet(LockThreads) /\ LockKinds \subseteq {"spin", "slim", "mutex", "semaphore"}
  /\ MaxUnits \in Nat /\ Units \in 0 .. MaxUnits /\ MaxNested \in Nat \ {0}
ASSUME ThreadAssumption ==
  IsFiniteSet(Threads) /\ IsFiniteSet(Slots) /\ NULL \notin Threads \cup Objects
ASSUME HeapAssumption ==
  /\ IsFiniteSet(Buckets) /\ BucketUnits \in Nat /\ Sizes \subseteq Nat \ {0} /\ MaxAllocs \in Nat
  /\ NONE \notin [bucket : Buckets, from : Nat, size : Nat]

VARIABLES which,
  ring, wpos, rpos, wcall, rcall, writes,
  heap, hand, store, writer, reader,
  sequence, value, setter, getter, whole, current, races,
  lock, locked, owner, sharers, units, issued, at, guards,
  run, handle, slot, slots, tls, live, mutex, next, starts, orphans, calm,
  state, active, reserve, blocks, call, allocs

spscVars == <<ring, wpos, rpos, wcall, rcall, writes>>
cowVars == <<heap, hand, store, writer, reader>>
structVars == <<sequence, value, setter, getter, whole, current, races>>
lockVars == <<lock, locked, owner, sharers, units, issued, at, guards>>
threadVars == <<run, handle, slot, slots, tls, live, mutex, next, starts, orphans, calm>>
heapVars == <<state, active, reserve, blocks, call, allocs>>
vars == <<which, spscVars, cowVars, structVars, lockVars, threadVars, heapVars>>

\* structures of which the words are equal, for TLC
EqualWords == {[w \in Words |-> v] : v \in Values}

Q == INSTANCE SpscQueue
C == INSTANCE CowList
A == INSTANCE AtomicStruct
K == INSTANCE Locks WITH Threads <- LockThreads
T == INSTANCE ThreadLocals
W == INSTANCE HighWaterHeap WITH Capacity <- BucketUnits

Init ==
  /\ which \in {"spsc", "cow", "struct", "locks", "threads", "heap"}
  /\ Q!Init /\ C!Init /\ A!Init /\ K!Init /\ T!Init /\ W!Init
  /\ which # "spsc" => Len(ring) = CHOOSE n \in SpscSizes : TRUE
  /\ which # "locks" => lock = CHOOSE k \in LockKinds : TRUE

Next ==
  /\ UNCHANGED which
  /\ \/ which = "spsc" /\ Q!Next /\ UNCHANGED <<cowVars, structVars, lockVars, threadVars, heapVars>>
     \/ which = "cow" /\ C!Next /\ UNCHANGED <<spscVars, structVars, lockVars, threadVars, heapVars>>
     \/ which = "struct" /\ A!Next /\ UNCHANGED <<spscVars, cowVars, lockVars, threadVars, heapVars>>
     \/ which = "locks" /\ K!Next /\ UNCHANGED <<spscVars, cowVars, structVars, threadVars, heapVars>>
     \/ which = "threads" /\ T!Next /\ UNCHANGED <<spscVars, cowVars, structVars, lockVars, heapVars>>
     \/ which = "heap" /\ W!Next /\ UNCHANGED <<spscVars, cowVars, structVars, lockVars, threadVars>>

Spec ==
  Init /\ [][Next]_vars /\ C!Fairness /\ A!Fairness /\ K!Fairness /\ T!Fairness
    /\ W!Fairness

----------------------------------------------------------------------------
\* Nobody touches what is somebody else's: a cell of SpscQueue in use by the
\* other side, a freed or leaked snapshot of CowList, a structure another thread
\* is writing, a lock that is held, a thread-local object of another thread or of
\* one that was joined, a block or a bucket of a HighWaterHeapSet.
NoIntrusion ==
  /\ which = "spsc" => Q!TypeOK /\ Q!CellExclusive /\ Q!EmptyIsTrue
  /\ which = "cow" => C!TypeOK /\ C!Sound
  /\ which = "struct" => A!TypeOK /\ A!GetWhole
  /\ which = "locks" => K!TypeOK /\ K!Exclusion
  /\ which = "threads" => T!TypeOK /\ T!OwnObjects
  /\ which = "heap" => W!TypeOK /\ W!BlocksDisjoint /\ W!OnePlaceEach

\* SpscQueue implements a bounded FIFO, CowList an atomic register of lists.
ImplementsShared ==
  /\ Q!Fifo!AInit /\ C!Register!Init
  /\ [][/\ which = "spsc" => Q!Fifo!ANext \/ UNCHANGED Q!Fifo!avars
        /\ which = "cow" => C!Register!Next \/ UNCHANGED C!Register!vars]_vars

\* Every Get of an AtomicStruct returns and every thread that is started ends; a
\* lock that is waited for is entered, a list that is published is seen, and the
\* calls of a HighWaterHeapSet return.
EverythingEnds == A!GetReturns /\ T!ThreadsEnd /\ K!SomeoneEnters /\ C!LatestIsSeen /\ W!CallsReturn
=============================================================================
