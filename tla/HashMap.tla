------------------------------ MODULE HashMap ------------------------------
(***************************************************************************)
(* Core/HashCore.h, Core/Map.h and Core/Set.h: one block of memory holds   *)
(* the entries, in the order they were first used, and a table of buckets. *)
(* An entry is in the chain of its bucket or, once removed, in the list of *)
(* free entries, both made of the member "next".  Iterators walk the       *)
(* entries and not the chains, and rely on m_version to notice a change.   *)
(***************************************************************************)
EXTENDS Integers, Sequences, FiniteSets

CONSTANTS
  Objects,     \* the Map objects, or the Set objects
  Keys, Vals,  \* what they are used with
  NONE,        \* the content of storage no object is in
  HashOf,      \* TKeyCompare::Hash of each key
  HashRange,   \* stands for 2^31
  Prefilled,   \* the keys each object has in an initial state, in order
  Edited,      \* the objects the caller edits and iterates after that
  Hows,        \* the ways each kind is iterated
  MaxEdits     \* bound: calls that change an object

VARIABLES
  kind,  \* whether the objects are Maps or Sets
  core,  \* the HashCore of each object
  iter,  \* an iterator, or a running Enumerate
  edits  \* how many calls changed an object

vars == <<kind, core, iter, edits>>

----------------------------------------------------------------------------
(* HashUtils.h *)

is_prime(val) ==
  IF val % 2 # 0
  THEN ~ \E d \in 3 .. val : d % 2 = 1 /\ d * d <= val /\ val % d = 0
  ELSE val = 2

primes ==
  {3, 7, 11, 17, 23, 29, 37, 47, 59, 71, 89, 107, 131, 163, 197, 239, 293, 353, 431, 521,
   631, 761, 919, 1103, 1327, 1597, 1931, 2333, 2801, 3371, 4049, 4861, 5839, 7013, 8419,
   10103, 12143, 14591, 17519, 21023, 25229, 30293, 36353, 43627, 52361, 62851, 75431,
   90523, 108631, 130363, 156437, 187751, 225307, 270371, 324449, 389357, 467237, 560689,
   672827, 807403, 968897, 1162687, 1395263, 1674319, 2009191, 2411033, 2893249, 3471899,
   4166287, 4999559, 5999471, 7199369}
max_prime == 2147483647

Least(S) == CHOOSE x \in S : \A y \in S : x <= y

\* one of the table, or the first odd number that is prime or not below max_prime
next_prime_capacity(min) ==
  LET first == IF min % 2 = 0 THEN min + 1 ELSE min
  IN  IF \E p \in primes : p >= min THEN Least({p \in primes : p >= min})
      ELSE IF first >= max_prime THEN first
      ELSE Least({p \in first .. max_prime : p % 2 = 1 /\ (p = max_prime \/ is_prime(p))})

----------------------------------------------------------------------------
(* HashCore: m_capacity, m_count, m_freecount, m_freelist, m_version,      *)
(* m_hashtable and m_entries.  "objs" of an entry counts the objects       *)
(* constructed in its storage and not destroyed.                           *)

\* never read: an entry is set up before m_count includes it
Unused == [next |-> -1, hash |-> -1, key |-> NONE, val |-> NONE, objs |-> 0]

Fresh == [cap |-> 0, count |-> 0, freecount |-> 0, freelist |-> -1, version |-> 0,
          table |-> [b \in {} |-> -1], entry |-> [i \in {} |-> Unused]]

hashcode(k) == HashOf[k] % HashRange
Used(c) == c.count + c.freecount
Live(c) == {i \in 0 .. Used(c) - 1 : c.entry[i].hash >= 0}
Cleared(cap) == [b \in 0 .. cap - 1 |-> -1]

\* mutant: the entries keep the "next" they had in the smaller table
Relinked_Stale(c, cap) ==
  [c EXCEPT !.table = [b \in 0 .. cap - 1 |->
     LET S == {i \in Live(c) : c.entry[i].hash % cap = b}
     IN  IF S = {} THEN -1 ELSE CHOOSE i \in S : \A j \in S : j <= i]]

\* the buckets made again from the entries, each pushed in front of its chain
Relinked(c, cap) ==
  LET built[n \in 0 .. Used(c)] ==
        IF n = 0 THEN [c EXCEPT !.table = Cleared(cap)]
        ELSE LET d == built[n - 1]
                 i == n - 1
                 b == d.entry[i].hash % cap
             IN  IF d.entry[i].hash < 0 THEN d
                 ELSE [d EXCEPT !.entry[i].next = d.table[b], !.table[b] = i]
  IN  built[Used(c)]

Resize(c, capacity) ==
  LET cap == next_prime_capacity(capacity)
      moved == [i \in 0 .. cap - 1 |-> IF i < c.cap THEN c.entry[i] ELSE Unused]
  IN  Relinked([c EXCEPT !.cap = cap, !.entry = moved], cap)

\* the entries met from a bucket, or from m_freelist, along next
Along(c, first) ==
  LET at[n \in 1 .. c.cap + 1] ==
        IF n = 1 THEN first ELSE IF at[n - 1] < 0 THEN -1 ELSE c.entry[at[n - 1]].next
  IN  [n \in 1 .. Cardinality({m \in DOMAIN at : at[m] >= 0}) |-> at[n]]

Chain(c, k) == Along(c, c.table[hashcode(k) % c.cap])

\* where in its chain a key is
Places(c, k) ==
  IF c.cap = 0 THEN {}
  ELSE {p \in DOMAIN Chain(c, k) :
          LET e == c.entry[Chain(c, k)[p]] IN e.hash = hashcode(k) /\ e.key = k}
Has(c, k) == Places(c, k) # {}
Find(c, k) == Chain(c, k)[Least(Places(c, k))]

\* the object with an entry allocated, and the index of that entry
AllocEntry(c) ==
  IF c.freelist >= 0
  THEN [index |-> c.freelist,
        core |-> [c EXCEPT !.freelist = c.entry[c.freelist].next,
                           !.freecount = @ - 1, !.count = @ + 1]]
  ELSE LET d == IF c.count >= c.cap THEN Resize(c, c.cap * 2) ELSE c
       IN  [index |-> c.count, core |-> [d EXCEPT !.count = @ + 1]]

\* Destructor and Constructor on the storage of an entry
Destroy(e) == [e EXCEPT !.key = NONE, !.val = NONE, !.objs = @ - 1]
Construct(e, k, v) == [e EXCEPT !.key = k, !.val = v, !.objs = @ + 1]

NewEntry(c, k, v) ==
  LET a == AllocEntry(c)
      b == hashcode(k) % a.core.cap
      e == [a.core.entry[a.index] EXCEPT !.hash = hashcode(k), !.next = a.core.table[b]]
  IN  [a.core EXCEPT !.entry[a.index] = Construct(e, k, v), !.table[b] = a.index,
                     !.version = @ + 1]

\* AddInternal of Map, Add of Set
Added(c, k, v, replace) ==
  LET d == IF c.cap = 0 THEN Resize(c, 1) ELSE c
      i == Find(d, k)
  IN  IF ~Has(d, k) THEN NewEntry(d, k, v)
      ELSE IF ~replace THEN d
      ELSE [d EXCEPT !.entry[i] = Construct(Destroy(d.entry[i]), k, v), !.version = @ + 1]

Unlinked(c, k) ==
  LET p == Least(Places(c, k))
      after == c.entry[Find(c, k)].next
  IN  IF p = 1 THEN [c EXCEPT !.table[hashcode(k) % c.cap] = after]
      ELSE [c EXCEPT !.entry[Chain(c, k)[p - 1]].next = after]

Removed(c, k) ==
  LET i == Find(c, k)
      e == [c.entry[i] EXCEPT !.next = c.freelist, !.hash = -1]
  IN  [Unlinked(c, k) EXCEPT !.entry[i] = Destroy(e), !.freelist = i, !.freecount = @ + 1,
                             !.count = @ - 1, !.version = @ + 1]

\* every live entry destroyed, the capacity kept
AllRemoved(c) ==
  [c EXCEPT !.count = 0, !.freecount = 0, !.freelist = -1, !.version = @ + 1,
            !.table = Cleared(c.cap),
            !.entry = [i \in DOMAIN c.entry |->
                         IF i \in Live(c) THEN Destroy(c.entry[i]) ELSE c.entry[i]]]

\* the keys in the order in which iterators meet them
InOrder(c, S) ==
  LET at[n \in 0 .. Used(c)] ==
        IF n = 0 THEN <<>>
        ELSE IF n - 1 \in S THEN Append(at[n - 1], c.entry[n - 1].key) ELSE at[n - 1]
  IN  at[Used(c)]

\* a set with the keys ks added one after the other
AllAdded(c, ks, v) ==
  LET after[n \in 0 .. Len(ks)] ==
        IF n = 0 THEN c ELSE Added(after[n - 1], ks[n], v, TRUE)
  IN  after[Len(ks)]

----------------------------------------------------------------------------
\* the iterator is on an object that has the version it began with
Fit == iter.on # NONE /\ iter.version = core[iter.on].version

Edit == edits < MaxEdits /\ edits' = edits + 1

\* a second change below an iterator would make no difference to it
Change(o, c) ==
  /\ Edit
  /\ iter.on = o => Fit /\ iter.how # "ended"
  /\ core' = [core EXCEPT ![o] = c]
  /\ UNCHANGED <<kind, iter>>

\* a Set's entries have a key only: one value stands for none
ValsOf == IF kind = "map" THEN Vals ELSE {CHOOSE v \in Vals : TRUE}

Put(o, k, v) == Change(o, Added(core[o], k, v, TRUE))
Insert(o, k, v) == kind = "map" /\ Change(o, Added(core[o], k, v, FALSE))
Remove(o, k) == Has(core[o], k) /\ Change(o, Removed(core[o], k))
Clear(o) == Change(o, AllRemoved(core[o]))

\* mutant: a move copies the members and leaves them in the source
Moved_Kept(from, to) == core' = [core EXCEPT ![to] = core[from]]

\* HashCore's move assignment: the destination's block is freed by Reset and
\* the elements in it are not destroyed
Moved(from, to) == core' = [core EXCEPT ![to] = core[from], ![from] = Fresh]

\* an iterator does not survive the move of the object it is on
Move(from, to) ==
  /\ iter.on \notin {from, to}
  /\ Edit /\ Moved(from, to)
  /\ UNCHANGED <<kind, iter>>

\* Union, Intersection and Difference make a set that did not exist
Combine(o, a, b) ==
  /\ kind = "set" /\ core[o] = Fresh
  /\ LET A == InOrder(core[a], Live(core[a]))
         Kept(in) == InOrder(core[a], {i \in Live(core[a]) : Has(core[b], core[a].entry[i].key) = in})
     IN  \E ks \in {A \o InOrder(core[b], Live(core[b])), Kept(TRUE), Kept(FALSE)} :
           \E v \in ValsOf : Change(o, AllAdded(Fresh, ks, v))

----------------------------------------------------------------------------
(* Iter of Map and Set, used by GetKeys, GetValues and AddMany, and        *)
(* HashCore::Enumerate.                                                    *)

NoIter == [on |-> NONE, how |-> "none", pos |-> -1, version |-> 0, seen |-> <<>>, keys |-> {}]
KeysIn(c) == {c.entry[i].key : i \in Live(c)}

Start(o, how) ==
  /\ iter = NoIter
  /\ iter' = [on |-> o, how |-> how, version |-> core[o].version, seen |-> <<>>,
              pos |-> IF how = "reverse" THEN Used(core[o]) ELSE -1,
              keys |-> KeysIn(core[o])]
  /\ UNCHANGED <<kind, core, edits>>

\* the live entries that are still ahead
Ahead == {i \in Live(core[iter.on]) :
            IF iter.how = "reverse" THEN i < iter.pos ELSE i > iter.pos}
\* GetNext asserts that the version is the same
GetNext ==
  /\ Fit /\ Ahead # {}
  /\ LET i == IF iter.how = "reverse"
              THEN CHOOSE x \in Ahead : \A y \in Ahead : y <= x ELSE Least(Ahead)
     IN  iter' = [iter EXCEPT !.pos = i, !.seen = Append(@, core[iter.on].entry[i].key)]
  /\ UNCHANGED <<kind, core, edits>>

\* GetNext returns false, or Enumerate true
AtEnd ==
  /\ Fit /\ Ahead = {} /\ iter.how # "ended"
  /\ iter' = [iter EXCEPT !.how = "ended", !.pos = Used(core[iter.on])]
  /\ UNCHANGED <<kind, core, edits>>

\* Enumerate returns false after a callback that changed the object; an Iter
\* of an object that changed, or that the caller is done with, is dropped
Stop ==
  /\ iter.on # NONE /\ (Fit => iter.how = "ended")
  /\ iter' = NoIter
  /\ UNCHANGED <<kind, core, edits>>

Init ==
  /\ kind \in {"map", "set"}
  /\ core = [o \in Objects |-> AllAdded(Fresh, Prefilled[o], CHOOSE v \in Vals : TRUE)]
  /\ iter = NoIter /\ edits = 0

Next ==
  \/ \E o \in Edited, k \in Keys :
       Remove(o, k) \/ \E v \in ValsOf : Put(o, k, v) \/ Insert(o, k, v)
  \/ \E o \in Edited :
       \/ Clear(o)
       \/ \E p \in Objects \ {o} : Move(o, p) \/ Move(p, o)
       \/ \E how \in Hows[kind] : Start(o, how)
  \/ \E o \in Objects : \E a, b \in Objects \ {o} : Combine(o, a, b)
  \/ GetNext \/ AtEnd \/ Stop

----------------------------------------------------------------------------
\* Every value is in its range.
TypeOK ==
  /\ kind \in {"map", "set"}
  /\ \A o \in Objects :
       LET c == core[o]
       IN  /\ c.cap \in Nat
           /\ c.count \in 0 .. c.cap /\ c.freecount \in 0 .. c.cap
           /\ c.freelist \in -1 .. c.cap - 1
           /\ c.version \in Nat
           /\ c.table \in [0 .. c.cap - 1 -> -1 .. c.cap - 1]
           /\ DOMAIN c.entry = 0 .. c.cap - 1
  /\ iter.on \in Objects \cup {NONE} /\ edits \in 0 .. MaxEdits

\* Every used entry is either in the chain of its own hash code, once, or on
\* the free list, once, and no chain leads anywhere else; live entries hold
\* one constructed object each with keys all different, and the others none.
Sound ==
  \A o \in Objects :
    LET c == core[o]
        chains == [b \in DOMAIN c.table |-> Along(c, c.table[b])]
        free == Along(c, c.freelist)
    IN  /\ Used(c) <= c.cap
        /\ \A b \in DOMAIN chains :
             {chains[b][n] : n \in DOMAIN chains[b]} = {i \in Live(c) : c.entry[i].hash % c.cap = b}
        /\ \A b \in DOMAIN chains : Len(chains[b]) = Cardinality({i \in Live(c) : c.entry[i].hash % c.cap = b})
        /\ {free[n] : n \in DOMAIN free} = (0 .. Used(c) - 1) \ Live(c)
        /\ Len(free) = c.freecount
        /\ \A i \in DOMAIN c.entry : c.entry[i].objs = IF i \in Live(c) THEN 1 ELSE 0
        /\ Cardinality(KeysIn(c)) = c.count

\* An iteration that comes to its end has met every key that was there when it
\* began, each once, whatever the caller did to the object between its steps.
IterationExact ==
  iter.how = "ended" =>
    /\ {iter.seen[n] : n \in DOMAIN iter.seen} = iter.keys
    /\ Len(iter.seen) = Cardinality(iter.keys)

\* what an object holds, as a function from its keys
Contents(c) ==
  [k \in KeysIn(c) |-> c.entry[CHOOSE i \in Live(c) : c.entry[i].key = k].val]

Dict == INSTANCE Dictionary WITH dict <- [o \in Objects |-> Contents(core[o])]

\* Map and Set implement a partial function for each object.
ImplementsDict == Dict!Spec
=============================================================================
