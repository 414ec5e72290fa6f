----------------------------- MODULE ArrayList -----------------------------
(***************************************************************************)
(* Core/List.h: a growing array of elements that are constructed in place, *)
(* moved bitwise and destroyed, and Core/OwnedPtr.h as its element: then   *)
(* destroying an element deletes the object it points to.                  *)
(***************************************************************************)
EXTENDS Integers, Sequences, Functions

CONSTANTS
  Lists,        \* the List objects
  Items,        \* plain values, or the objects pointed to: integers
  HOLE,         \* storage that no constructed element is in
  MinCapacity,  \* 16 in the code
  Prefilled,    \* the elements of each list in an initial state
  MaxLen        \* bound: the length of each list

VARIABLES
  owned,  \* whether this is List<OwnedPtr<T>> or a list of plain values
  list,   \* m_count, m_capacity and m_data of each list
  held,   \* the objects the caller holds
  gone    \* the objects that were deleted

vars == <<owned, list, held, gone>>

NoData == [count |-> 0, capacity |-> 0, data |-> [i \in {} |-> HOLE]]

\* the storage reallocated
Realloc(L, n) ==
  [L EXCEPT !.capacity = n, !.data = [i \in 0 .. n - 1 |-> IF i < L.capacity THEN L.data[i] ELSE HOLE]]

SetCapacity(L, required) ==
  IF required <= L.capacity THEN L
  ELSE Realloc(L, IF required * 2 < MinCapacity THEN MinCapacity ELSE required * 2)

FreeExtra(L) == IF L.count = 0 THEN NoData ELSE Realloc(L, L.count)

\* memmove: what is left behind is no element any more
MemMove(data, to, from, n) ==
  [i \in DOMAIN data |->
     IF i \in to .. to + n - 1 THEN data[i - to + from]
     ELSE IF i \in from .. from + n - 1 THEN HOLE ELSE data[i]]

\* Constructor and Destructor on places of the storage
Construct(data, p, s) ==
  [i \in DOMAIN data |-> IF i \in p .. p + Len(s) - 1 THEN s[i - p + 1] ELSE data[i]]
Destroy(data, p, n) == [i \in DOMAIN data |-> IF i \in p .. p + n - 1 THEN HOLE ELSE data[i]]

Elements(L) == [i \in 1 .. L.count |-> L.data[i - 1]]

\* InsertAt, Add and InsertAtInternal: make room and construct the elements of s
Inserted(L, p, s) ==
  LET M == SetCapacity(L, L.count + Len(s))
  IN  IF s = <<>> THEN L
      ELSE [M EXCEPT !.count = @ + Len(s),
              !.data = Construct(MemMove(@, p + Len(s), p, L.count - p), p, s)]

\* RemoveAt, and DetachAt: the element is destroyed or taken out
Removed(L, p, n) ==
  [L EXCEPT !.count = @ - n,
            !.data = MemMove(Destroy(@, p, n), p, p + n, L.count - p - n)]

Swapped(L, a, b) ==
  LET temp == L.data[a]
      half == Construct(Destroy(L.data, a, 1), a, <<L.data[b]>>)
  IN  [L EXCEPT !.data = Construct(Destroy(half, b, 1), b, <<temp>>)]

\* mutant: moving towards the end shifts as moving towards the beginning does
Relocated_OneWay(L, from, to) ==
  LET temp == L.data[from]
      rest == Destroy(L.data, from, 1)
  IN  [L EXCEPT !.data = Construct(MemMove(rest, to + 1, to, from - to), to, <<temp>>)]

Relocated(L, from, to) ==
  LET temp == L.data[from]
      rest == Destroy(L.data, from, 1)
  IN  [L EXCEPT !.data =
         Construct(IF to < from THEN MemMove(rest, to + 1, to, from - to)
                   ELSE MemMove(rest, from, from + 1, to - from), to, <<temp>>)]

\* the elements of s added one after the other, as AddMany does
AllAdded(L, p, s) ==
  LET after[n \in 0 .. Len(s)] ==
        IF n = 0 THEN L ELSE Inserted(after[n - 1], p + n - 1, <<s[n]>>)
  IN  after[Len(s)]

\* the number of elements changed to n, with copies of x at the end
WithLength(L, n, x) ==
  LET M == SetCapacity(L, n)
  IN  IF n >= M.count THEN AllAdded(M, M.count, [i \in 1 .. n - M.count |-> x])
      ELSE Removed(M, n, M.count - n)

\* a new list of the elements of s that are in P
Filtered(s, P) ==
  LET added[n \in 0 .. Len(s)] ==
        IF n = 0 THEN NoData
        ELSE IF s[n] \in P THEN Inserted(added[n - 1], added[n - 1].count, <<s[n]>>)
        ELSE added[n - 1]
  IN  added[Len(s)]

\* IndexOf: the first place after iStartAfter that equals val
IndexOf(L, val, iStartAfter) ==
  LET P == {i \in iStartAfter + 1 .. L.count - 1 : L.data[i] = val}
  IN  IF P = {} THEN -1 ELSE CHOOSE i \in P : \A j \in P : i <= j

\* mutant: a range of one element is not looked at
SearchTurn_Last(L, key, at) ==
  LET mid == at.lo + (at.hi - at.lo) \div 2
  IN  IF at.found \/ at.lo >= at.hi THEN at
      ELSE IF L.data[mid] = key THEN [at EXCEPT !.found = TRUE, !.lo = mid]
      ELSE IF L.data[mid] < key THEN [at EXCEPT !.lo = mid + 1]
      ELSE [at EXCEPT !.hi = mid - 1]

\* one turn of the loop of BinarySearch; the place where key was found is lo then
SearchTurn(L, key, at) ==
  LET mid == at.lo + (at.hi - at.lo) \div 2
  IN  IF at.found \/ at.lo > at.hi THEN at
      ELSE IF L.data[mid] = key THEN [at EXCEPT !.found = TRUE, !.lo = mid]
      ELSE IF L.data[mid] < key THEN [at EXCEPT !.lo = mid + 1]
      ELSE [at EXCEPT !.hi = mid - 1]

\* the loop, as many turns as there are elements
BinarySearch(L, key) ==
  LET at[n \in 0 .. L.count] ==
        IF n = 0 THEN [found |-> FALSE, lo |-> 0, hi |-> L.count - 1]
        ELSE SearchTurn(L, key, at[n - 1])
  IN  [found |-> at[L.count].found, index |-> at[L.count].lo]

----------------------------------------------------------------------------
\* The bounds on what the caller does.  An object goes into one list only.
Fits(l, n) == list[l].count + n <= MaxLen[l]
MayGive(x) == owned => x \in held
Give(x) == held' = IF owned THEN held \ {x} ELSE held
Get(S) == held' = IF owned THEN held \cup S ELSE held
Delete(S) == gone' = IF owned THEN gone \cup S ELSE gone
Set(l, L) == list' = [list EXCEPT ![l] = L] /\ UNCHANGED owned
At(l, p, n) == {list[l].data[i] : i \in p .. p + n - 1}

\* InsertAt; Add, Push and Enqueue insert at the end
InsertItem(l, p, x) ==
  /\ Fits(l, 1) /\ MayGive(x)
  /\ Set(l, Inserted(list[l], p, <<x>>)) /\ Give(x) /\ UNCHANGED gone

ReplaceItem(l, p, x) ==
  /\ MayGive(x)
  /\ Set(l, [list[l] EXCEPT !.data = Construct(Destroy(@, p, 1), p, <<x>>)])
  /\ Give(x) /\ Delete(At(l, p, 1))

\* RemoveAt of one or more elements, Remove and Clear
RemoveRange(l, p, n) ==
  /\ n > 0 /\ p + n <= list[l].count
  /\ Set(l, Removed(list[l], p, n)) /\ Delete(At(l, p, n)) /\ UNCHANGED held
RemoveValue(l, x) ==
  LET p == IndexOf(list[l], x, -1) IN p >= 0 /\ RemoveRange(l, p, 1)

\* DetachAt, Pop and Dequeue
DetachAt(l, p) ==
  /\ Set(l, Removed(list[l], p, 1)) /\ Get(At(l, p, 1)) /\ UNCHANGED gone
DetachAll(l) ==
  /\ Set(l, [list[l] EXCEPT !.count = 0, !.data = Destroy(@, 0, list[l].count)])
  /\ Get(At(l, 0, list[l].count)) /\ UNCHANGED gone

\* InsertRangeAt and AddRange of a list that is left empty but keeps its storage
TakeRange(l, p, m) ==
  /\ l # m /\ list[m].count > 0 /\ Fits(l, list[m].count)
  /\ LET n == list[m].count
         room == SetCapacity(list[l], list[l].count + n)
         moved == Construct(MemMove(room.data, p + n, p, list[l].count - p), p, Elements(list[m]))
     IN  list' = [list EXCEPT ![l] = [room EXCEPT !.count = @ + n, !.data = moved],
                              ![m] = [list[m] EXCEPT !.count = 0, !.data = Destroy(@, 0, n)]]
  /\ UNCHANGED <<owned, held, gone>>

\* The move constructor and assignment: the destination's storage is freed, and
\* the elements it held are not destroyed.
MoveAssign(l, m) ==
  /\ l # m /\ list[m].count <= MaxLen[l]
  /\ list' = [list EXCEPT ![l] = list[m], ![m] = NoData]
  /\ UNCHANGED <<owned, held, gone>>

\* Capacity only
Reserve(l) == list[l].capacity = 0 /\ Set(l, SetCapacity(list[l], 1)) /\ UNCHANGED <<held, gone>>
Trim(l) ==
  /\ list[l].capacity # list[l].count
  /\ Set(l, FreeExtra(list[l])) /\ UNCHANGED <<held, gone>>

\* what needs elements that can be copied; a list is not inserted in itself
CopyRange(l, p, m) ==
  /\ l # m /\ Fits(l, list[m].count)
  /\ \/ Set(l, Inserted(list[l], p, Elements(list[m])))
     \/ Set(l, AllAdded(list[l], p, Elements(list[m])))
SetCount(l, n, x) == Set(l, WithLength(list[l], n, x))
Filter(l, m, P) ==
  /\ l # m /\ list[l] = NoData
  /\ LET new == Filtered(Elements(list[m]), P) IN new.count <= MaxLen[l] /\ Set(l, new)

\* qsort_r: some order of the elements in which none is above the next
Ordered(s) == \A i, j \in DOMAIN s : i < j => s[i] <= s[j]
Sort(l) ==
  LET s == Elements(list[l])
  IN  \E p \in Bijection(DOMAIN s, DOMAIN s) :
        LET t == [i \in DOMAIN s |-> s[p[i]]]
        IN  Ordered(t) /\ Set(l, [list[l] EXCEPT !.data = Construct(@, 0, t)])
OfValues(l) ==
  /\ ~owned /\ UNCHANGED <<held, gone>>
  /\ \/ \E a, b \in 0 .. list[l].count - 1 :
          a # b /\ (Set(l, Swapped(list[l], a, b)) \/ Set(l, Relocated(list[l], a, b)))
     \/ Sort(l)
     \/ \E n \in 0 .. MaxLen[l], x \in Items : SetCount(l, n, x)
     \/ \E m \in Lists : \/ \E p \in 0 .. list[l].count : CopyRange(l, p, m)
                         \/ \E P \in SUBSET Items : Filter(l, m, P)

Init ==
  /\ owned \in BOOLEAN
  /\ list = [l \in Lists |-> Inserted(NoData, 0, Prefilled[l])]
  /\ held = (IF owned THEN Items \ UNION {Range(Prefilled[l]) : l \in Lists} ELSE {})
  /\ gone = {}

Next ==
  \E l \in Lists :
    \/ \E p \in 0 .. list[l].count, x \in Items : InsertItem(l, p, x)
    \/ \E p \in 0 .. list[l].count - 1, x \in Items : ReplaceItem(l, p, x)
    \/ \E p \in 0 .. list[l].count - 1 :
         DetachAt(l, p) \/ \E n \in 1 .. list[l].count : RemoveRange(l, p, n)
    \/ \E x \in Items : RemoveValue(l, x)
    \/ DetachAll(l) \/ Reserve(l) \/ Trim(l) \/ OfValues(l)
    \/ \E m \in Lists : MoveAssign(l, m) \/ \E p \in 0 .. list[l].count : TakeRange(l, p, m)

----------------------------------------------------------------------------
\* Every value is in its range.
TypeOK ==
  /\ owned \in BOOLEAN /\ held \subseteq Items /\ gone \subseteq Items
  /\ \A l \in Lists :
       /\ list[l].count \in 0 .. MaxLen[l]
       /\ list[l].capacity \in Nat
       /\ list[l].data \in [0 .. list[l].capacity - 1 -> Items \cup {HOLE}]

\* The first m_count places hold elements and the others none; an owned object
\* is in one place of one list and then neither with the caller nor deleted.
Sound ==
  /\ \A l \in Lists : \A i \in DOMAIN list[l].data : list[l].data[i] # HOLE <=> i < list[l].count
  /\ owned =>
       /\ \A l \in Lists : IsInjective(Elements(list[l]))
       /\ \A l, m \in Lists : l # m => At(l, 0, list[l].count) \cap At(m, 0, list[m].count) = {}
       /\ \A l \in Lists : At(l, 0, list[l].count) \cap (held \cup gone) = {}
       /\ held \cap gone = {}

\* In a sorted list BinarySearch finds a key that is there, and otherwise says
\* where it has to be inserted; IndexOf finds the first place of a value.
SearchExact ==
  \A l \in Lists, x \in Items :
    LET L == list[l]
        s == Elements(L)
        r == BinarySearch(L, x)
        i == IndexOf(L, x, -1)
    IN  /\ Ordered(s) =>
             /\ r.found = (x \in Range(s))
             /\ IF r.found THEN L.data[r.index] = x
                ELSE /\ r.index \in 0 .. L.count
                     /\ \A j \in 0 .. L.count - 1 : L.data[j] < x <=> j < r.index
        /\ IF x \in Range(s) THEN L.data[i] = x /\ \A j \in 0 .. i - 1 : L.data[j] # x
           ELSE i = -1

Seqs == INSTANCE SeqStore WITH seq <- [l \in Lists |-> Elements(list[l])]

\* The lists implement sequences, with the ownership of the elements.
ImplementsSeq == Seqs!Spec
=============================================================================
