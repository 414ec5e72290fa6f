------------------------------ MODULE SeqStore ------------------------------
(***************************************************************************)
(* What Core/List.h promises: each list is a sequence.  A list of          *)
(* OwnedPtr's also owns its elements: an object is with the caller, in one *)
(* place of one list, or deleted, except that what a list holds when       *)
(* another one is moved into it is abandoned.                              *)
(***************************************************************************)
EXTENDS Integers, Sequences, Functions

CONSTANTS Lists, Items

VARIABLES
  owned,  \* whether the elements are objects the lists own, or plain values
  seq,    \* the sequence of each list
  held,   \* the objects the caller holds
  gone    \* the objects that were deleted

vars == <<owned, seq, held, gone>>

Places(l) == 1 .. Len(seq[l])
InsertedAt(s, p, t) == SubSeq(s, 1, p) \o t \o SubSeq(s, p + 1, Len(s))
Cut(s, p, n) == SubSeq(s, 1, p) \o SubSeq(s, p + n + 1, Len(s))
Swapped(s, a, b) == [s EXCEPT ![a] = s[b], ![b] = s[a]]
Relocated(s, a, b) == InsertedAt(Cut(s, a - 1, 1), b - 1, <<s[a]>>)

\* what the caller gives away, gets back and sees deleted; values have no owner
Give(S) == IF owned THEN S \subseteq held /\ held' = held \ S ELSE UNCHANGED held
Take(S) == held' = IF owned THEN held \cup S ELSE held
Delete(S) == gone' = IF owned THEN gone \cup S ELSE gone

Insert(l, p, x) == seq' = [seq EXCEPT ![l] = InsertedAt(@, p, <<x>>)] /\ Give({x}) /\ UNCHANGED gone
Replace(l, p, x) == seq' = [seq EXCEPT ![l][p] = x] /\ Give({x}) /\ Delete({seq[l][p]})
RemoveRange(l, p, n) ==
  /\ seq' = [seq EXCEPT ![l] = Cut(@, p, n)]
  /\ Delete({seq[l][i] : i \in p + 1 .. p + n}) /\ UNCHANGED held
Detach(l, p) == seq' = [seq EXCEPT ![l] = Cut(@, p, 1)] /\ Take({seq[l][p + 1]}) /\ UNCHANGED gone
DetachAll(l) == seq' = [seq EXCEPT ![l] = <<>>] /\ Take(Range(seq[l])) /\ UNCHANGED gone
Copy(l, p, m) ==
  /\ ~owned /\ seq' = [seq EXCEPT ![l] = InsertedAt(@, p, seq[m])]
  /\ UNCHANGED <<held, gone>>
Transfer(l, p, m) ==
  /\ seq' = [seq EXCEPT ![l] = InsertedAt(@, p, seq[m]), ![m] = <<>>]
  /\ UNCHANGED <<held, gone>>
Assign(l, m) == seq' = [seq EXCEPT ![l] = seq[m], ![m] = <<>>] /\ UNCHANGED <<held, gone>>

\* of lists of plain values only
Ordered(s) == \A i, j \in DOMAIN s : i < j => s[i] <= s[j]
Kept(s, P) ==
  LET kept[n \in 0 .. Len(s)] ==
        IF n = 0 THEN <<>> ELSE IF s[n] \in P THEN Append(kept[n - 1], s[n]) ELSE kept[n - 1]
  IN  kept[Len(s)]
Reorder(l) ==
  \/ \E a, b \in Places(l) :
       \/ seq' = [seq EXCEPT ![l] = Swapped(@, a, b)]
       \/ seq' = [seq EXCEPT ![l] = Relocated(@, a, b)]
  \/ /\ \E p \in Bijection(Places(l), Places(l)) :
          seq' = [seq EXCEPT ![l] = [i \in Places(l) |-> seq[l][p[i]]]]
     /\ Ordered(seq'[l])
Resize(l, n, x) ==
  seq' = [seq EXCEPT ![l] = [i \in 1 .. n |-> IF i <= Len(@) THEN @[i] ELSE x]]
Select(l, m, P) == seq' = [seq EXCEPT ![l] = Kept(seq[m], P)]
OfValues ==
  /\ ~owned /\ UNCHANGED <<held, gone>>
  /\ \E l \in Lists : \/ Reorder(l)
                      \/ \E x \in Items : Resize(l, Len(seq'[l]), x)
                      \/ \E m \in Lists \ {l}, P \in SUBSET Items : Select(l, m, P)

Init == held \cap gone = {} /\ owned \in BOOLEAN
Next ==
  /\ UNCHANGED owned
  /\ \/ \E l \in Lists, x \in Items :
          \/ \E p \in 0 .. Len(seq[l]) : Insert(l, p, x)
          \/ \E p \in Places(l) : Replace(l, p, x)
     \/ \E l \in Lists : \E p \in 0 .. Len(seq[l]) :
          \/ \E n \in 1 .. Len(seq[l]) - p : RemoveRange(l, p, n)
          \/ p < Len(seq[l]) /\ Detach(l, p)
     \/ \E l \in Lists : DetachAll(l)
     \/ \E l, m \in Lists : l # m /\ (Assign(l, m) \/ \E p \in 0 .. Len(seq[l]) : Copy(l, p, m) \/ Transfer(l, p, m))
     \/ OfValues
Spec == Init /\ [][Next]_vars
=============================================================================
