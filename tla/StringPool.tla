----------------------------- MODULE StringPool -----------------------------
(***************************************************************************)
(* StringPool (src/Core/StringPool.h): strings live one after another in   *)
(* buckets of a chain, and are freed all at once.  Sizes are counted in    *)
(* characters; a block holds a header of Header characters and the room of *)
(* its bucket.  The caller of FreeAll and Reset lets go of all strings.    *)
(*                                                                         *)
(* The strings reserved have a character at least (Alloc always writes the *)
(* terminator) and a default bucket is longer than its header: with less   *)
(* the unsigned difference of AllocateBucket wraps and the room is bogus.  *)
(***************************************************************************)
EXTENDS Integers, Sequences, FiniteSets, Functions

CONSTANTS Blocks,      \* addresses malloc may return
          Header,      \* sizeof(BUCKET)
          DefaultSize, \* defaultBucketSize, above Header
          Lengths,     \* lengths to reserve, the terminator included
          MaxStrings   \* bound on the strings alive at once

VARIABLES chain,   \* m_pFirstBucket and the next pointers behind it
          bucket,  \* bucket[b]: the fields of the block, NoBucket when it is free
          strings  \* the strings handed out: a place in a block and a length

vars == <<chain, bucket, strings>>

NoBucket == [used |-> 0, capacity |-> -1]
Allocated == {b \in Blocks : bucket[b] # NoBucket}

\* Twice the size until the string fits behind the header.
Enough(size, length) ==
  LET n == length + Header
      grown[k \in 0 .. n] ==
        IF k = 0 THEN size
        ELSE IF grown[k - 1] >= n THEN grown[k - 1] ELSE 2 * grown[k - 1]
  IN  grown[n]

\* The first bucket in the chain with room for the string and one character
\* more, by its index; 0 when there is none.
WithRoom(length) ==
  LET R == {i \in DOMAIN chain : bucket[chain[i]].used + length < bucket[chain[i]].capacity}
  IN  IF R = {} THEN 0 ELSE CHOOSE i \in R : \A j \in R : i <= j
\* The last bucket with no string in it, likewise.
LastEmpty ==
  LET R == {i \in DOMAIN chain : bucket[chain[i]].used = 0}
  IN  IF R = {} THEN 0 ELSE CHOOSE i \in R : \A j \in R : i >= j

Claim(b, size, length) ==
  LET used == IF b \in Range(chain) THEN bucket[b].used ELSE 0
      place == [block |-> b, at |-> used, length |-> length]
  IN /\ strings' = strings \cup {place}
     /\ bucket' = [x \in Blocks |->
          IF x = b THEN [used |-> used + length, capacity |-> size - Header]
          ELSE IF x \in Range(chain) \ Range(chain') THEN NoBucket ELSE bucket[x]]

\* Alloc and Reserve: room in a bucket that has some.
Reserve(length) ==
  LET i == WithRoom(length)
  IN /\ Cardinality(strings) < MaxStrings
     /\ i # 0
     /\ UNCHANGED chain
     /\ Claim(chain[i], bucket[chain[i]].capacity + Header, length)

\* The mutant takes the last bucket of the chain, whether it is empty or not.
Grown_InUse(length) ==
  LET i == Len(chain)
      size == Enough(bucket[chain[i]].capacity + Header, length)
  IN /\ Cardinality(strings) < MaxStrings
     /\ WithRoom(length) = 0 /\ i # 0
     /\ \E b \in (Blocks \ Allocated) \cup {chain[i]} :
          /\ chain' = [chain EXCEPT ![i] = b]
          /\ Claim(b, size, length)

\* No bucket has room: the last empty one is reallocated, in place or to another
\* block, and linked where it was.
Grown(length) ==
  LET i == LastEmpty
      size == Enough(bucket[chain[i]].capacity + Header, length)
  IN /\ Cardinality(strings) < MaxStrings
     /\ WithRoom(length) = 0 /\ i # 0
     /\ \E b \in (Blocks \ Allocated) \cup {chain[i]} :
          /\ chain' = [chain EXCEPT ![i] = b]
          /\ Claim(b, size, length)

\* There is no empty bucket either: AllocateBucket puts a new one in front.
AllocateBucket(length) ==
  /\ Cardinality(strings) < MaxStrings
  /\ WithRoom(length) = 0 /\ LastEmpty = 0
  /\ \E b \in Blocks \ Allocated :
       /\ chain' = <<b>> \o chain
       /\ Claim(b, Enough(DefaultSize, length), length)

\* FreeAll keeps the buckets and empties them.
FreeAll ==
  /\ bucket' = [b \in Blocks |-> IF b \in Range(chain) THEN [bucket[b] EXCEPT !.used = 0] ELSE bucket[b]]
  /\ strings' = {}
  /\ UNCHANGED chain

\* Reset, also the destructor, frees them.
Reset ==
  /\ bucket' = [b \in Blocks |-> IF b \in Range(chain) THEN NoBucket ELSE bucket[b]]
  /\ chain' = <<>> /\ strings' = {}

Init == chain = <<>> /\ bucket = [b \in Blocks |-> NoBucket] /\ strings = {}

Next ==
  \/ \E n \in Lengths : Reserve(n) \/ Grown(n) \/ AllocateBucket(n)
  \/ FreeAll \/ Reset

Spec == Init /\ [][Next]_vars
----------------------------------------------------------------------------
TypeOK ==
  /\ IsInjective(chain) /\ Range(chain) \subseteq Blocks
  /\ bucket \in [Blocks -> [used : Nat, capacity : Nat \cup {-1}]]
  /\ \A s \in strings : s.block \in Blocks /\ s.at \in Nat /\ s.length \in Lengths

\* A string handed out lies in the claimed room of an allocated bucket and shares no
\* character with another, and no other room is claimed; every allocated block is in
\* the chain.
StringsKept ==
  /\ Range(chain) = Allocated
  /\ \A b \in Allocated : bucket[b].used <= bucket[b].capacity
  /\ \A s \in strings : bucket[s.block].used >= s.at + s.length
  /\ \A s, t \in strings : s # t /\ s.block = t.block =>
       s.at + s.length <= t.at \/ t.at + t.length <= s.at
  /\ \A b \in Allocated : \A i \in 0 .. bucket[b].used - 1 :
       \E s \in strings : s.block = b /\ s.at <= i /\ i < s.at + s.length
=============================================================================
