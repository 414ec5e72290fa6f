--------------------------- MODULE HighWaterHeap ---------------------------
(***************************************************************************)
(* HighWaterHeap and HighWaterHeapSet (src/.vscode/deprecated_todo/):      *)
(* buckets that fill up and are empty again when their last block is       *)
(* freed, the number of blocks and the high-water mark in one atomic word; *)
(* a set keeps the buckets in use and the spare ones on two stacks.        *)
(*                                                                         *)
(* A step is one access to a bucket's word or one operation of a stack,    *)
(* which is atomic (MpmcStack implements AtomicStack).  Sizes are counted  *)
(* in units of 16 bytes, the header of the block included.  The buckets of *)
(* a set are neither reset nor destroyed while blocks of theirs are used.  *)
(***************************************************************************)
EXTENDS Integers, Sequences, FiniteSets, SequencesExt

CONSTANTS Threads, Buckets, Sizes,
          Capacity,  \* units in a bucket
          MaxAllocs, \* bound on calls of Alloc
          NONE

VARIABLES state,   \* state[b]: m_state, count and high
          active, reserve, \* m_activeBuckets, m_reserveBuckets, the top first
          blocks,  \* the blocks of the program: bucket, from and size
          call,    \* call[t]: the call of thread t
          allocs   \* calls of Alloc so far

vars == <<state, active, reserve, blocks, call, allocs>>

Empty == [count |-> 0, high |-> 0]
Idle == [at |-> "idle", size |-> 0, bucket |-> NONE, tried |-> <<>>, spare |-> FALSE, seen |-> Empty, mem |-> NONE]
Go(t, place) == call' = [call EXCEPT ![t].at = place]

CallAlloc(t, size) ==
  /\ call[t].at = "idle" /\ allocs < MaxAllocs
  /\ allocs' = allocs + 1
  /\ call' = [call EXCEPT ![t] = [Idle EXCEPT !.at = "pop", !.size = size]]
  /\ UNCHANGED <<state, active, reserve, blocks>>

\* The next active bucket is the thread's alone; without one, those that were
\* tried go back and the reserve is next.
PopActive(t) ==
  /\ call[t].at = "pop"
  /\ IF active = <<>>
     THEN Go(t, IF call[t].tried = <<>> THEN "spare" ELSE "giveback") /\ UNCHANGED active
     ELSE /\ active' = Tail(active)
          /\ call' = [call EXCEPT ![t].at = "look", ![t].bucket = Head(active)]
  /\ UNCHANGED <<state, reserve, blocks, allocs>>

\* GetLikelyUsed: an empty bucket is retired, another one is tried.
Look(t) ==
  /\ call[t].at = "look"
  /\ Go(t, IF state[call[t].bucket].high = 0 THEN "retire" ELSE "load")
  /\ UNCHANGED <<state, active, reserve, blocks, allocs>>

\* The mutant tries the bucket it has just given away.
Retire_Used(t) ==
  /\ call[t].at = "retire"
  /\ reserve' = <<call[t].bucket>> \o reserve
  /\ Go(t, "load")
  /\ UNCHANGED <<state, active, blocks, allocs>>

Retire(t) ==
  /\ call[t].at = "retire"
  /\ reserve' = <<call[t].bucket>> \o reserve
  /\ Go(t, "pop")
  /\ UNCHANGED <<state, active, blocks, allocs>>

\* HighWaterHeap::Alloc reads the word; a bucket that is too full is put aside.
LoadAlloc(t) ==
  LET c == call[t]
      s == state[c.bucket]
  IN /\ c.at = "load"
     /\ call' = [call EXCEPT ![t] =
          IF c.size + s.high <= Capacity THEN [c EXCEPT !.at = "claim", !.seen = s]
          ELSE IF c.spare THEN [c EXCEPT !.at = "giveback"]
          ELSE [c EXCEPT !.at = "pop", !.tried = <<c.bucket>> \o @]]
     /\ UNCHANGED <<state, active, reserve, blocks, allocs>>

Claim(t) ==
  LET c == call[t]
  IN /\ c.at = "claim"
     /\ IF state[c.bucket] = c.seen
        THEN /\ state' = [state EXCEPT ![c.bucket] = [count |-> @.count + 1, high |-> @.high + c.size]]
             /\ call' = [call EXCEPT ![t].at = "giveback",
                  ![t].mem = [bucket |-> c.bucket, from |-> c.seen.high, size |-> c.size]]
        ELSE Go(t, "load") /\ UNCHANGED state
     /\ UNCHANGED <<active, reserve, blocks, allocs>>

\* The bucket that had room, on top, and the others become active again: PushMany,
\* or the Push of a bucket from the reserve.  With a block, or none from the
\* reserve either, the call returns.
GiveBack(t) ==
  LET c == call[t]
      back == IF c.mem # NONE \/ c.spare THEN <<c.bucket>> \o c.tried ELSE c.tried
  IN /\ c.at = "giveback"
     /\ active' = back \o active
     /\ blocks' = IF c.mem = NONE THEN blocks ELSE blocks \cup {c.mem}
     /\ call' = [call EXCEPT ![t] =
          IF c.mem # NONE \/ c.spare THEN Idle ELSE [c EXCEPT !.at = "spare", !.tried = <<>>]]
     /\ UNCHANGED <<state, reserve, allocs>>

PopReserve(t) ==
  /\ call[t].at = "spare"
  /\ IF reserve = <<>> THEN call' = [call EXCEPT ![t] = Idle] /\ UNCHANGED reserve
     ELSE /\ reserve' = Tail(reserve)
          /\ call' = [call EXCEPT ![t].at = "load", ![t].spare = TRUE, ![t].bucket = Head(reserve)]
  /\ UNCHANGED <<state, active, blocks, allocs>>

\* Free finds the bucket in the block's header.
CallFree(t, m) ==
  /\ call[t].at = "idle" /\ m \in blocks
  /\ blocks' = blocks \ {m}
  /\ call' = [call EXCEPT ![t] = [Idle EXCEPT !.at = "loadfree", !.bucket = m.bucket, !.mem = m]]
  /\ UNCHANGED <<state, active, reserve, allocs>>

LoadFree(t) ==
  /\ call[t].at = "loadfree"
  /\ call' = [call EXCEPT ![t].at = "free", ![t].seen = state[call[t].bucket]]
  /\ UNCHANGED <<state, active, reserve, blocks, allocs>>

\* The mutant empties the bucket with whatever is in it by then.
Free_Stored(t) ==
  LET c == call[t]
  IN /\ c.at = "free"
     /\ state' = [state EXCEPT ![c.bucket] = IF c.seen.count = 1 THEN Empty ELSE [@ EXCEPT !.count = @ - 1]]
     /\ call' = [call EXCEPT ![t] = Idle]
     /\ UNCHANGED <<active, reserve, blocks, allocs>>

\* The last block to go empties the bucket.
Free(t) ==
  LET c == call[t]
  IN /\ c.at = "free"
     /\ IF state[c.bucket] = c.seen
        THEN /\ state' = [state EXCEPT ![c.bucket] =
                  IF c.seen.count = 1 THEN Empty ELSE [c.seen EXCEPT !.count = @ - 1]]
             /\ call' = [call EXCEPT ![t] = Idle]
        ELSE Go(t, "loadfree") /\ UNCHANGED state
     /\ UNCHANGED <<active, reserve, blocks, allocs>>

Init ==
  /\ state = [b \in Buckets |-> Empty]
  /\ active = <<>> /\ reserve = SetToSeq(Buckets) /\ blocks = {}
  /\ call = [t \in Threads |-> Idle] /\ allocs = 0

Step(t) ==
  \/ PopActive(t) \/ Look(t) \/ Retire(t) \/ LoadAlloc(t) \/ Claim(t) \/ GiveBack(t) \/ PopReserve(t)
  \/ LoadFree(t) \/ Free(t)

Next ==
  \E t \in Threads :
    Step(t) \/ (\E size \in Sizes : CallAlloc(t, size)) \/ \E m \in blocks : CallFree(t, m)

\* A thread inside a call goes on.
Fairness == \A t \in Threads : WF_vars(Step(t))
Spec == Init /\ [][Next]_vars /\ Fairness
----------------------------------------------------------------------------
\* The blocks of a bucket that are claimed: the program's, and those of calls.
Claimed(b) ==
  {m \in blocks \cup {call[t].mem : t \in Threads} : m # NONE /\ m.bucket = b}

TypeOK ==
  /\ state \in [Buckets -> [count : 0 .. MaxAllocs, high : 0 .. Capacity]]
  /\ active \in Seq(Buckets) /\ reserve \in Seq(Buckets)

\* Claimed blocks lie below the mark of their bucket, share nothing and are as many
\* as its count says, so it is empty when the last one goes and not before.
BlocksDisjoint ==
  \A b \in Buckets :
    /\ Cardinality(Claimed(b)) = state[b].count
    /\ \A m \in Claimed(b) : m.from + m.size <= state[b].high
    /\ \A m, n \in Claimed(b) : m # n => m.from + m.size <= n.from \/ n.from + n.size <= m.from

Hands(t) ==
  LET c == call[t]
  IN IF c.at \in {"look", "retire", "load", "claim"} \/ (c.at = "giveback" /\ (c.mem # NONE \/ c.spare))
     THEN <<c.bucket>> \o c.tried
     ELSE c.tried

\* A bucket is on one stack, once, or in the hands of one thread, and never lost.
OnePlaceEach ==
  /\ \A q \in {active, reserve} \cup {Hands(t) : t \in Threads} : IsInjective(q)
  /\ ToSet(active) \cap ToSet(reserve) = {}
  /\ \A t \in Threads : ToSet(Hands(t)) \cap (ToSet(active) \cup ToSet(reserve)) = {}
  /\ \A t, u \in Threads : t # u => ToSet(Hands(t)) \cap ToSet(Hands(u)) = {}
  /\ Buckets = ToSet(active) \cup ToSet(reserve) \cup UNION {ToSet(Hands(t)) : t \in Threads}

\* Every call of Alloc and Free returns.
CallsReturn == \A t \in Threads : call[t].at # "idle" ~> call[t].at = "idle"
=============================================================================
