----------------------------- MODULE LinkedLists -----------------------------
(***************************************************************************)
(* Facts about the singly linked lists of Threading/: MpmcStack chains its *)
(* nodes by item->next, AtomicPtrTransfer by Node::next.  The models walk  *)
(* them by a function defined by recursion over the number of steps; here  *)
(* a walk is shown to give the sequence of nodes it goes through, for any  *)
(* finite set of nodes, and the sequences are followed through the changes *)
(* the code makes to them.                                                 *)
(***************************************************************************)
EXTENDS Integers, Sequences, FiniteSets, Functions, FiniteSetTheorems,
        SequenceTheorems, WellFoundedInduction, TLAPS

\* The nodes at step 1, 2 ... of a walk from p, as the models compute them.
Follow(Nodes, NULL, next, p) ==
  CHOOSE at : at = [k \in 1 .. Cardinality(Nodes) |->
                      IF k = 1 THEN p
                      ELSE IF at[k - 1] = NULL THEN NULL ELSE next[at[k - 1]]]

\* c links each node to the one behind it.
Links(next, c) == \A i \in 1 .. Len(c) - 1 : next[c[i]] = c[i + 1]

\* c lists different nodes.
Distinct(Nodes, c) ==
  c \in Seq(Nodes) /\ \A i, j \in 1 .. Len(c) : c[i] = c[j] => i = j

\* c is what is reached from p along next, up to a null pointer.
Path(Nodes, NULL, next, c, p) ==
  /\ Distinct(Nodes, c) /\ Links(next, c)
  /\ p = (IF c = <<>> THEN NULL ELSE c[1])
  /\ c # <<>> => next[c[Len(c)]] = NULL
-----------------------------------------------------------------------------
(* Induction *)

\* A set that holds 1 and the successor of each of its members up to N holds
\* all the numbers up to N.
LEMMA UpTo ==
  ASSUME NEW N \in Nat, NEW S, N # 0 => 1 \in S,
         \A k \in 1 .. N - 1 : k \in S => k + 1 \in S
  PROVE  1 .. N \subseteq S
<1> SUFFICES ASSUME ~(1 .. N \subseteq S) PROVE FALSE
  OBVIOUS
<1> DEFINE T == (1 .. N) \ S
<1>1. T \subseteq Nat /\ T # {}
  OBVIOUS
<1> HIDE DEF T
<1>2. PICK x \in T : \A y \in T : ~(<<y, x>> \in OpToRel(<, Nat))
  BY <1>1, NatLessThanWellFounded, WFMin
<1>3. \A y \in T : ~(y < x)
  BY <1>1, <1>2 DEF OpToRel
<1>4. x \in 1 .. N /\ x \notin S /\ x # 1
  <2>1. x \in 1 .. N /\ x \notin S
    BY <1>2 DEF T
  <2>2. N # 0
    BY <2>1
  <2> QED BY <2>1, <2>2
<1>5. x - 1 \in 1 .. N - 1 /\ x - 1 < x
  BY <1>4
<1>6. x - 1 \in S
  BY <1>3, <1>5 DEF T
<1>7. (x - 1) + 1 \in S
  BY <1>5, <1>6
<1> QED BY <1>4, <1>7
\* A set of natural numbers has a least member, a bounded one a greatest.
LEMMA Least ==
  ASSUME NEW T \in SUBSET Nat, T # {}
  PROVE  \E x \in T : \A y \in T : x <= y
<1>1. PICK x \in T : \A y \in T : ~(<<y, x>> \in OpToRel(<, Nat))
  BY NatLessThanWellFounded, WFMin
<1>2. \A y \in T : ~(y < x)
  BY <1>1 DEF OpToRel
<1>3. \A y \in T : x <= y
  <2> TAKE y \in T
  <2>1. x \in Nat /\ y \in Nat
    OBVIOUS
  <2> QED BY <1>2, <2>1
<1> QED BY <1>3

LEMMA Greatest ==
  ASSUME NEW T \in SUBSET Nat, T # {}, NEW n \in Nat, \A x \in T : x <= n
  PROVE  \E x \in T : \A y \in T : x >= y
<1> DEFINE U == {n - x : x \in T}
<1>1. U \in SUBSET Nat /\ U # {}
  <2>1. \A x \in T : n - x \in Nat
    <3> TAKE x \in T
    <3>1. x \in Nat /\ x <= n
      OBVIOUS
    <3> QED BY <3>1
  <2>2. \A u \in U : u \in Nat
    BY <2>1
  <2>3. U # {}
    OBVIOUS
  <2> QED BY <2>2, <2>3
<1>2. PICK u \in U : \A v \in U : u <= v
  <2> HIDE DEF U
  <2> QED BY <1>1, Least
<1>3. PICK x \in T : u = n - x
  BY <1>2
<1>4. \A y \in T : n - y \in U
  OBVIOUS
<1>5. \A y \in T : x >= y
  <2> HIDE DEF U
  <2> TAKE y \in T
  <2>1. u <= n - y /\ x \in Nat /\ y \in Nat
    BY <1>2, <1>4
  <2> QED BY <1>3, <2>1
<1> QED BY <1>3, <1>5

\* f makes n steps from a on, the k-th by g[k].
Steps(X, g, n, a, f) ==
  f \in [0 .. n -> X] /\ f[0] = a /\ \A k \in 1 .. n : f[k] = g[k][f[k - 1]]

\* Steps can be made.
LEMMA StepsExist ==
  ASSUME NEW n \in Nat, NEW X, NEW g \in [1 .. n -> [X -> X]], NEW a \in X
  PROVE  \E f : Steps(X, g, n, a, f)
<1> DEFINE Good(f, m) == f \in [0 .. m -> X] /\ f[0] = a /\ \A k \in 1 .. m : f[k] = g[k][f[k - 1]]
           Some == {m \in 1 .. n : \E f : Good(f, m)}
<1>1. \E f : Good(f, 0)
  <2>1. Good([k \in 0 .. 0 |-> a], 0)
    OBVIOUS
  <2> QED BY <2>1
<1>2. ASSUME NEW m \in 0 .. n - 1, NEW f, Good(f, m) PROVE \E h : Good(h, m + 1)
  <2> DEFINE h == [k \in 0 .. m + 1 |-> IF k = m + 1 THEN g[m + 1][f[m]] ELSE f[k]]
  <2>1. f[m] \in X /\ g[m + 1] \in [X -> X] /\ g[m + 1][f[m]] \in X
    BY <1>2
  <2>2. h \in [0 .. m + 1 -> X] /\ h[0] = a
    BY <1>2, <2>1
  <2>3. ASSUME NEW k \in 1 .. m + 1 PROVE h[k] = g[k][h[k - 1]]
    <3>1. CASE k = m + 1
      <4>1. k - 1 \in 0 .. m + 1 /\ k - 1 = m /\ m # m + 1
        BY <3>1
      <4>2. h[k - 1] = f[m]
        BY <4>1
      <4> QED BY <3>1, <4>2
    <3>2. CASE k # m + 1
      <4>1. k \in 1 .. m /\ k - 1 \in 0 .. m
        BY <3>2
      <4>2. h[k] = f[k] /\ h[k - 1] = f[k - 1]
        BY <4>1
      <4> QED BY <1>2, <4>1, <4>2
    <3> QED BY <3>1, <3>2
  <2>4. Good(h, m + 1)
    BY <2>2, <2>3
  <2> QED BY <2>4
<1>3. n # 0 => 1 \in Some
  <2> SUFFICES ASSUME n # 0 PROVE 1 \in Some
    OBVIOUS
  <2>1. 0 \in 0 .. n - 1 /\ 0 + 1 = 1 /\ 1 \in 1 .. n
    OBVIOUS
  <2> HIDE DEF Good
  <2>2. \E h : Good(h, 0 + 1)
    BY <1>1, <1>2, <2>1
  <2> QED BY <2>1, <2>2
<1>4. \A m \in 1 .. n - 1 : m \in Some => m + 1 \in Some
  <2> TAKE m \in 1 .. n - 1
  <2> HAVE m \in Some
  <2>1. m \in 0 .. n - 1 /\ m + 1 \in 1 .. n
    OBVIOUS
  <2> HIDE DEF Good
  <2>2. \E h : Good(h, m + 1)
    BY <1>2, <2>1
  <2> QED BY <2>1, <2>2
<1>5. 1 .. n \subseteq Some
  <2> HIDE DEF Some
  <2> QED BY <1>3, <1>4, UpTo
<1>6. \E f : Good(f, n)
  <2>1. CASE n = 0
    BY <1>1, <2>1
  <2>2. CASE n # 0
    <3> HIDE DEF Good
    <3> QED BY <1>5, <2>2
  <2> QED BY <2>1, <2>2
<1> QED BY <1>6 DEF Steps

\* f applies g n times, from a on.
Iteration(X, g, n, a, f) ==
  f \in [0 .. n -> X] /\ f[0] = a /\ \A k \in 1 .. n : f[k] = g[f[k - 1]]

\* A function can be applied n times.
LEMMA Iterates ==
  ASSUME NEW n \in Nat, NEW X, NEW g \in [X -> X], NEW a \in X
  PROVE  \E f : Iteration(X, g, n, a, f)
<1> DEFINE G == [k \in 1 .. n |-> g]
<1>1. G \in [1 .. n -> [X -> X]]
  OBVIOUS
<1>2. \A k \in 1 .. n : G[k] = g
  OBVIOUS
<1> HIDE DEF G
<1>3. PICK f : Steps(X, G, n, a, f)
  BY <1>1, StepsExist
<1> QED BY <1>2, <1>3 DEF Iteration, Steps

\* As many steps as there are elements, less one: the elements met are all that a
\* walk along g ever meets.
LEMMA Orbit ==
  ASSUME NEW X, IsFiniteSet(X), NEW g \in [X -> X], NEW n \in Nat, Cardinality(X) = n + 1,
         NEW a, NEW f, Iteration(X, g, n, a, f)
  PROVE  \A k \in 0 .. n : \E j \in 0 .. n : f[j] = g[f[k]]
<1>0. f \in [0 .. n -> X] /\ \A k \in 1 .. n : f[k] = g[f[k - 1]]
  BY DEF Iteration
<1>1. \A k \in 0 .. n : k # n => f[k + 1] = g[f[k]]
  <2> TAKE k \in 0 .. n
  <2> HAVE k # n
  <2>1. k + 1 \in 1 .. n /\ (k + 1) - 1 = k
    OBVIOUS
  <2> QED BY <1>0, <2>1
<1>2. \E j \in 0 .. n : f[j] = g[f[n]]
  <2>0. n \in 0 .. n /\ f[n] \in X /\ g[f[n]] \in X
    BY <1>0
  <2>1. CASE \A i, j \in 0 .. n : f[i] = f[j] => i = j
    <3>1. f \in Injection(0 .. n, X)
      BY <1>0, <2>1 DEF Injection, IsInjective
    <3>2. Cardinality(0 .. n) = n + 1
      BY FS_Interval
    <3>3. f \in Surjection(0 .. n, X)
      BY <3>1, <3>2, FS_Injection
    <3> QED BY <2>0, <3>3 DEF Surjection
  <2>2. CASE \E i, j \in 0 .. n : i < j /\ f[i] = f[j]
    <3>1. PICK i \in 0 .. n, j \in 0 .. n : i < j /\ f[i] = f[j]
      BY <2>2
    <3> DEFINE T == {f[m] : m \in 0 .. j - 1}
               K == {m \in 1 .. n + 1 : f[m - 1] \in T}
    <3>2. \A m \in 0 .. j - 1 : g[f[m]] \in T
      <4> TAKE m \in 0 .. j - 1
      <4>1. m \in 0 .. n /\ m # n
        BY <3>1
      <4>2. g[f[m]] = f[m + 1]
        BY <1>1, <4>1
      <4>3. CASE m = j - 1
        <5>1. g[f[m]] = f[i] /\ i \in 0 .. j - 1
          BY <3>1, <4>2, <4>3
        <5> QED BY <5>1
      <4>4. CASE m # j - 1
        <5>1. m + 1 \in 0 .. j - 1
          BY <3>1, <4>4
        <5> QED BY <4>2, <5>1
      <4> QED BY <4>3, <4>4
    <3>3. \A x \in T : g[x] \in T
      BY <3>2
    <3>4. 1 \in K
      <4>1. 0 \in 0 .. j - 1
        BY <3>1
      <4>2. f[0] \in T
        BY <4>1
      <4> QED BY <4>2
    <3>5. \A k \in 1 .. (n + 1) - 1 : k \in K => k + 1 \in K
      <4> TAKE k \in 1 .. (n + 1) - 1
      <4> HAVE k \in K
      <4>1. f[k] = g[f[k - 1]] /\ k + 1 \in 1 .. n + 1 /\ (k + 1) - 1 = k
        BY <1>0
      <4>2. f[k - 1] \in T
        OBVIOUS
      <4>3. f[k] \in T
        BY <3>3, <4>1, <4>2
      <4> QED BY <4>1, <4>3
    <3> HIDE DEF T, K
    <3>6. n + 1 \in Nat /\ n + 1 \in 1 .. n + 1
      OBVIOUS
    <3>7. n + 1 \in K
      BY <3>4, <3>5, <3>6, UpTo
    <3>8. f[n] \in T
      BY <3>6, <3>7 DEF K
    <3>9. g[f[n]] \in T
      BY <3>3, <3>8
    <3> QED BY <3>1, <3>9 DEF T
  <2>3. ASSUME NEW i \in 0 .. n, NEW j \in 0 .. n, f[i] = f[j], i # j
        PROVE  \E k, m \in 0 .. n : k < m /\ f[k] = f[m]
    <3>1. i < j \/ j < i
      BY <2>3
    <3> QED BY <2>3, <3>1
  <2> QED BY <2>1, <2>2, <2>3
<1> QED
  <2> TAKE k \in 0 .. n
  <2>1. CASE k = n
    BY <1>2, <2>1
  <2>2. CASE k # n
    <3>1. k + 1 \in 0 .. n /\ f[k + 1] = g[f[k]]
      BY <1>1, <2>2
    <3> QED BY <3>1
  <2> QED BY <2>1, <2>2
-----------------------------------------------------------------------------
(* Walks *)

\* There are n numbers from 1 to n.
LEMMA OneTo ==
  ASSUME NEW n \in Nat
  PROVE  IsFiniteSet(1 .. n) /\ Cardinality(1 .. n) = n
  BY FS_Interval

\* A list of different nodes is no longer than there are nodes.
LEMMA DistinctLength ==
  ASSUME NEW Nodes, IsFiniteSet(Nodes), NEW c, Distinct(Nodes, c)
  PROVE  Len(c) \in Nat /\ Cardinality(Nodes) \in Nat /\ Len(c) <= Cardinality(Nodes)
<1>1. c \in [1 .. Len(c) -> Nodes] /\ Len(c) \in Nat
  BY DEF Distinct
<1>2. c \in Injection(1 .. Len(c), Nodes)
  BY <1>1 DEF Distinct, Injection, IsInjective
<1>3. Cardinality(1 .. Len(c)) = Len(c)
  BY <1>1, OneTo
<1>4. Cardinality(1 .. Len(c)) <= Cardinality(Nodes)
  BY <1>2, FS_Injection
<1> QED BY <1>1, <1>3, <1>4, FS_CardinalityType

\* The walk along a path goes through its nodes and stays at the null pointer;
\* it is the only solution of the equation that defines it.
LEMMA FollowPath ==
  ASSUME NEW Nodes, IsFiniteSet(Nodes), NEW NULL, NULL \notin Nodes,
         NEW next, NEW c, NEW p, Path(Nodes, NULL, next, c, p),
         NEW at, at = Follow(Nodes, NULL, next, p)
  PROVE  /\ at = [k \in 1 .. Cardinality(Nodes) |-> IF k <= Len(c) THEN c[k] ELSE NULL]
         /\ at = [k \in 1 .. Cardinality(Nodes) |->
                    IF k = 1 THEN p
                    ELSE IF at[k - 1] = NULL THEN NULL ELSE next[at[k - 1]]]
         /\ \A g : g = [k \in 1 .. Cardinality(Nodes) |->
                          IF k = 1 THEN p
                          ELSE IF g[k - 1] = NULL THEN NULL ELSE next[g[k - 1]]]
                   => g = at
<1> DEFINE N == Cardinality(Nodes)
           R(g) == [k \in 1 .. N |->
                      IF k = 1 THEN p
                      ELSE IF g[k - 1] = NULL THEN NULL ELSE next[g[k - 1]]]
           f == [k \in 1 .. N |-> IF k <= Len(c) THEN c[k] ELSE NULL]
<1>1. N \in Nat /\ Len(c) \in Nat /\ Len(c) <= N /\ c \in [1 .. Len(c) -> Nodes]
  BY DistinctLength DEF Path, Distinct
<1>2. p = (IF c = <<>> THEN NULL ELSE c[1]) /\ (c = <<>> <=> Len(c) = 0)
  BY EmptySeq DEF Path, Distinct
<1>3. \A i \in 1 .. Len(c) : next[c[i]] = IF i = Len(c) THEN NULL ELSE c[i + 1]
  <2> TAKE i \in 1 .. Len(c)
  <2>1. CASE i = Len(c)
    BY <1>1, <1>2, <2>1 DEF Path
  <2>2. CASE i # Len(c)
    <3>0. Len(c) \in Nat
      BY <1>1
    <3>1. i \in 1 .. Len(c) - 1
      BY <2>2, <3>0
    <3> QED BY <2>2, <3>1 DEF Path, Links
  <2> QED BY <2>1, <2>2
<1>4. f = R(f)
  <2>1. ASSUME NEW k \in 1 .. N
        PROVE  f[k] = IF k = 1 THEN p
                      ELSE IF f[k - 1] = NULL THEN NULL ELSE next[f[k - 1]]
    <3>1. CASE k = 1
      BY <1>1, <1>2, <3>1
    <3>2. CASE k # 1 /\ k - 1 <= Len(c)
      <4>1. k - 1 \in 1 .. Len(c) /\ k - 1 \in 1 .. N
        BY <1>1, <3>2
      <4>2. f[k - 1] = c[k - 1] /\ c[k - 1] \in Nodes
        BY <1>1, <4>1
      <4>3. next[c[k - 1]] = IF k - 1 = Len(c) THEN NULL ELSE c[(k - 1) + 1]
        BY <1>3, <4>1
      <4>4. (k - 1) + 1 = k /\ (k <= Len(c) <=> k - 1 # Len(c))
        BY <1>1, <3>2
      <4> QED BY <3>2, <4>2, <4>3, <4>4
    <3>3. CASE k # 1 /\ ~(k - 1 <= Len(c))
      BY <1>1, <3>3
    <3> QED BY <3>1, <3>2, <3>3
  <2> QED BY <2>1
<1>5. ASSUME NEW g, g = R(g) PROVE g = f
  <2> HIDE DEF f
  <2>0. f = [k \in 1 .. N |-> f[k]]
    BY DEF f
  <2> DEFINE S == {k \in 1 .. N : g[k] = f[k]}
  <2>1. N # 0 => 1 \in S
    <3>1. N # 0 => 1 \in 1 .. N
      BY <1>1
    <3> QED BY <1>4, <1>5, <3>1
  <2>2. ASSUME NEW k \in 1 .. N - 1, k \in S PROVE k + 1 \in S
    <3>1. k + 1 \in 1 .. N /\ (k + 1) - 1 = k /\ k + 1 # 1 /\ g[k] = f[k]
      BY <1>1, <2>2
    <3>2. f[k + 1] = IF f[k] = NULL THEN NULL ELSE next[f[k]]
      BY <1>4, <3>1
    <3>3. g[k + 1] = IF g[k] = NULL THEN NULL ELSE next[g[k]]
      BY <1>5, <3>1
    <3> QED BY <3>1, <3>2, <3>3
  <2> HIDE DEF S
  <2>3. 1 .. N \subseteq S
    BY <1>1, <2>1, <2>2, UpTo
  <2>4. \A k \in 1 .. N : g[k] = f[k]
    BY <2>3 DEF S
  <2>5. g = [k \in 1 .. N |-> g[k]]
    BY <1>5
  <2> QED BY <2>0, <2>4, <2>5
<1> HIDE DEF f
<1>6. (CHOOSE g : g = R(g)) = f
  BY <1>4, <1>5
<1>7. at = f
  BY <1>6 DEF Follow
<1>8. f = [k \in 1 .. N |-> IF k <= Len(c) THEN c[k] ELSE NULL]
  BY DEF f
<1> HIDE DEF R
<1>9. at = R(at) /\ \A g : g = R(g) => g = at
  BY <1>4, <1>5, <1>7
<1>10. at = [k \in 1 .. N |-> IF k <= Len(c) THEN c[k] ELSE NULL]
  BY <1>7, <1>8
<1> QED BY <1>9, <1>10, Zenon DEF R

\* So the walk up to the null pointer is the path.
LEMMA WalkPath ==
  ASSUME NEW Nodes, IsFiniteSet(Nodes), NEW NULL, NULL \notin Nodes,
         NEW next, NEW c, NEW p, Path(Nodes, NULL, next, c, p),
         NEW at, at = Follow(Nodes, NULL, next, p)
  PROVE  [k \in 1 .. Cardinality({j \in DOMAIN at : at[j] # NULL}) |-> at[k]] = c
<1> DEFINE N == Cardinality(Nodes)
<1>1. at = [k \in 1 .. N |-> IF k <= Len(c) THEN c[k] ELSE NULL]
  BY FollowPath
<1>2. /\ N \in Nat /\ Len(c) \in Nat /\ Len(c) <= N /\ c \in [1 .. Len(c) -> Nodes]
  BY DistinctLength DEF Path, Distinct
<1> HIDE DEF N
<1>3. {j \in DOMAIN at : at[j] # NULL} = 1 .. Len(c)
  BY <1>1, <1>2
<1>4. Cardinality(1 .. Len(c)) = Len(c)
  BY <1>2, OneTo
<1>5. \A k \in 1 .. Len(c) : at[k] = c[k]
  BY <1>1, <1>2
<1>6. [k \in 1 .. Len(c) |-> at[k]] = c
  BY <1>2, <1>5
<1> QED BY <1>2, <1>3, <1>4, <1>6

\* The nodes it meets are those of the path.
LEMMA WalkNodes ==
  ASSUME NEW Nodes, IsFiniteSet(Nodes), NEW NULL, NULL \notin Nodes,
         NEW next, NEW c, NEW p, Path(Nodes, NULL, next, c, p),
         NEW at, at = Follow(Nodes, NULL, next, p)
  PROVE  {at[k] : k \in DOMAIN at} \ {NULL} = Range(c)
<1> DEFINE N == Cardinality(Nodes)
<1>1. at = [k \in 1 .. N |-> IF k <= Len(c) THEN c[k] ELSE NULL]
  BY FollowPath
<1>2. /\ N \in Nat /\ Len(c) \in Nat /\ Len(c) <= N /\ c \in [1 .. Len(c) -> Nodes]
  BY DistinctLength DEF Path, Distinct
<1> HIDE DEF N
<1>3. {at[k] : k \in DOMAIN at} \ {NULL} = {c[k] : k \in 1 .. Len(c)}
  BY <1>1, <1>2
<1> QED BY <1>2, <1>3 DEF Range
-----------------------------------------------------------------------------
(* What the code does to lists *)

\* The empty list is what a null pointer leads to.
LEMMA PathNull ==
  ASSUME NEW Nodes, NEW NULL, NULL \notin Nodes, NEW next, NEW c, NEW p,
         Path(Nodes, NULL, next, c, p)
  PROVE  /\ p = NULL <=> c = <<>>
         /\ p \in Nodes <=> c # <<>>
         /\ p \in Nodes \union {NULL}
         /\ p # NULL => p \in Range(c)
<1>1. c \in Seq(Nodes) /\ Len(c) \in Nat /\ DOMAIN c = 1 .. Len(c)
      /\ (c = <<>> <=> Len(c) = 0)
  BY EmptySeq DEF Path, Distinct
<1>2. CASE c = <<>>
  BY <1>2 DEF Path
<1>3. CASE c # <<>>
  <2>1. 1 \in 1 .. Len(c)
    BY <1>1, <1>3
  <2> QED BY <1>1, <1>3, <2>1 DEF Path, Range
<1> QED BY <1>2, <1>3

\* The members of a path, by their places in it.
LEMMA PathRange ==
  ASSUME NEW Nodes, NEW c, Distinct(Nodes, c)
  PROVE  /\ Range(c) = {c[i] : i \in 1 .. Len(c)} /\ Range(c) \subseteq Nodes
         /\ Len(c) \in Nat /\ (c = <<>> <=> Len(c) = 0)
  BY EmptySeq DEF Distinct, Range

\* An empty path.
LEMMA PathEmpty ==
  ASSUME NEW Nodes, NEW NULL, NEW next
  PROVE  Path(Nodes, NULL, next, <<>>, NULL) /\ Range(<<>>) = {} /\ Distinct(Nodes, <<>>)
<1>1. <<>> \in Seq(Nodes) /\ Len(<<>>) = 0
  OBVIOUS
<1> QED BY <1>1 DEF Path, Distinct, Links, Range

\* Links of nodes that are not on a path do not matter to it.
LEMMA PathKept ==
  ASSUME NEW Nodes, NEW NULL, NEW next, NEW nextnew, NEW c, NEW p,
         Path(Nodes, NULL, next, c, p), \A n \in Range(c) : nextnew[n] = next[n]
  PROVE  Path(Nodes, NULL, nextnew, c, p)
<1>1. Range(c) = {c[i] : i \in 1 .. Len(c)} /\ Len(c) \in Nat /\ (c = <<>> <=> Len(c) = 0)
  BY PathRange DEF Path
<1>2. \A i \in 1 .. Len(c) : nextnew[c[i]] = next[c[i]]
  BY <1>1
<1>3. c # <<>> => Len(c) \in 1 .. Len(c)
  BY <1>1
<1>4. \A i \in 1 .. Len(c) - 1 : i \in 1 .. Len(c)
  BY <1>1
<1> QED BY <1>2, <1>3, <1>4 DEF Path, Links

\* The first node taken off.
LEMMA PathTail ==
  ASSUME NEW Nodes, NEW NULL, NEW next, NEW c, NEW p,
         Path(Nodes, NULL, next, c, p), c # <<>>
  PROVE  /\ Path(Nodes, NULL, next, Tail(c), next[p])
         /\ p = Head(c) /\ p \in Range(c) /\ p \notin Range(Tail(c))
         /\ Range(c) = Range(Tail(c)) \union {p}
         /\ Len(Tail(c)) = Len(c) - 1
<1> DEFINE d == Tail(c)
           n == Len(c)
<1>1. /\ c \in Seq(Nodes) /\ n \in Nat \ {0} /\ p = c[1]
      /\ \A i, j \in 1 .. n : c[i] = c[j] => i = j
      /\ \A i \in 1 .. n - 1 : next[c[i]] = c[i + 1]
      /\ next[c[n]] = NULL
      /\ Range(c) = {c[i] : i \in 1 .. n}
  BY EmptySeq, PathRange DEF Path, Distinct, Links
<1>2. d \in Seq(Nodes) /\ Len(d) = n - 1 /\ \A i \in 1 .. n - 1 : d[i] = c[i + 1]
  BY <1>1, HeadTailProperties
<1> HIDE DEF d, n
<1>3. Distinct(Nodes, d)
  <2>1. ASSUME NEW i \in 1 .. n - 1, NEW j \in 1 .. n - 1, d[i] = d[j] PROVE i = j
    <3>1. i + 1 \in 1 .. n /\ j + 1 \in 1 .. n /\ c[i + 1] = c[j + 1]
      BY <1>1, <1>2, <2>1
    <3>2. i + 1 = j + 1
      BY <1>1, <3>1
    <3> QED BY <3>2
  <2> QED BY <1>2, <2>1 DEF Distinct
<1>4. Range(d) = {d[i] : i \in 1 .. n - 1}
  BY <1>2, <1>3, PathRange
<1>5. Links(next, d)
  <2> SUFFICES ASSUME NEW i \in 1 .. n - 2 PROVE next[d[i]] = d[i + 1]
    BY <1>1, <1>2 DEF Links
  <2>1. i \in 1 .. n - 1 /\ i + 1 \in 1 .. n - 1
    BY <1>1
  <2> QED BY <1>1, <1>2, <2>1
<1>6. next[p] = IF d = <<>> THEN NULL ELSE d[1]
  <2>1. CASE n = 1
    BY <1>1, <1>2, <2>1, EmptySeq
  <2>2. CASE n # 1
    <3>1. 1 \in 1 .. n - 1 /\ d # <<>>
      BY <1>1, <1>2, <2>2
    <3> QED BY <1>1, <1>2, <3>1
  <2> QED BY <2>1, <2>2
<1>7. d # <<>> => next[d[Len(d)]] = NULL
  <2> HAVE d # <<>>
  <2>1. n - 1 \in 1 .. n - 1
    BY <1>1, <1>2, EmptySeq
  <2>2. d[n - 1] = c[n]
    BY <1>1, <1>2, <2>1
  <2> QED BY <1>1, <1>2, <2>2
<1>8. p \notin Range(d)
  <2> SUFFICES ASSUME NEW i \in 1 .. n - 1, d[i] = p PROVE FALSE
    BY <1>4
  <2>1. c[i + 1] = c[1] /\ i + 1 \in 1 .. n /\ 1 \in 1 .. n
    BY <1>1, <1>2
  <2> QED BY <1>1, <2>1
<1>9. Range(c) = Range(d) \union {p}
  <2>1. ASSUME NEW i \in 1 .. n PROVE c[i] = p \/ c[i] \in Range(d)
    <3>1. CASE i = 1
      BY <1>1, <3>1
    <3>2. CASE i # 1
      <4>1. i - 1 \in 1 .. n - 1 /\ (i - 1) + 1 = i
        BY <1>1, <3>2
      <4> QED BY <1>2, <1>4, <4>1
    <3> QED BY <3>1, <3>2
  <2>2. ASSUME NEW i \in 1 .. n - 1 PROVE d[i] \in Range(c)
    BY <1>1, <1>2, i + 1 \in 1 .. n
  <2>3. p \in Range(c)
    BY <1>1, 1 \in 1 .. n
  <2>4. Range(c) \subseteq Range(d) \union {p}
    BY <1>1, <2>1
  <2>5. Range(d) \subseteq Range(c)
    BY <1>4, <2>2
  <2> QED BY <2>3, <2>4, <2>5
<1>10. p = Head(c)
  BY <1>1
<1> QED BY <1>2, <1>3, <1>5, <1>6, <1>7, <1>8, <1>9, <1>10 DEF Path, d, n

\* The nodes of two lists put together.
LEMMA RangeConcat ==
  ASSUME NEW Nodes, NEW c, NEW d, Distinct(Nodes, c), Distinct(Nodes, d)
  PROVE  Range(d \o c) = Range(d) \union Range(c) /\ Len(d \o c) = Len(d) + Len(c)
<1> DEFINE e == d \o c
           m == Len(d)
           n == Len(c)
<1>1. /\ c \in Seq(Nodes) /\ n \in Nat /\ d \in Seq(Nodes) /\ m \in Nat
      /\ Range(c) = {c[i] : i \in 1 .. n} /\ Range(d) = {d[i] : i \in 1 .. m}
  BY PathRange DEF Distinct
<1>2. /\ e \in Seq(Nodes) /\ Len(e) = m + n
      /\ \A i \in 1 .. m + n : e[i] = IF i <= m THEN d[i] ELSE c[i - m]
  BY <1>1, ConcatProperties
<1> HIDE DEF e, m, n
<1>3. Range(e) = {e[i] : i \in 1 .. m + n}
  <2>1. DOMAIN e = 1 .. m + n
    BY <1>1, <1>2
  <2> QED BY <2>1 DEF Range
<1>4. \A i \in 1 .. m + n : (i \in 1 .. m /\ e[i] = d[i]) \/ (i - m \in 1 .. n /\ e[i] = c[i - m])
  BY <1>1, <1>2
<1>5. \A i \in 1 .. m : i \in 1 .. m + n /\ e[i] = d[i]
  BY <1>1, <1>2
<1>6. \A i \in 1 .. n : m + i \in 1 .. m + n /\ e[m + i] = c[i]
  <2> TAKE i \in 1 .. n
  <2>1. m + i \in 1 .. m + n /\ ~(m + i <= m) /\ (m + i) - m = i
    BY <1>1
  <2> QED BY <1>2, <2>1
<1>7. Range(e) \subseteq Range(d) \union Range(c)
  BY <1>1, <1>3, <1>4
<1>8. Range(d) \union Range(c) \subseteq Range(e)
  BY <1>1, <1>3, <1>5, <1>6
<1>9. Range(e) = Range(d) \union Range(c)
  BY <1>7, <1>8
<1> QED BY <1>2, <1>9 DEF e, m, n

\* A chain put in front.
LEMMA PathConcat ==
  ASSUME NEW Nodes, NEW NULL, NEW next, NEW c, NEW p, NEW d,
         Path(Nodes, NULL, next, c, p),
         Distinct(Nodes, d), Links(next, d), d # <<>>, next[d[Len(d)]] = p,
         Range(c) \cap Range(d) = {}
  PROVE  Path(Nodes, NULL, next, d \o c, d[1])
<1> DEFINE e == d \o c
           m == Len(d)
           n == Len(c)
<1>1. /\ c \in Seq(Nodes) /\ n \in Nat /\ d \in Seq(Nodes) /\ m \in Nat \ {0}
      /\ Range(c) = {c[i] : i \in 1 .. n} /\ Range(d) = {d[i] : i \in 1 .. m}
      /\ (c = <<>> <=> n = 0)
  BY PathRange, EmptySeq DEF Path, Distinct
<1>2. /\ e \in Seq(Nodes) /\ Len(e) = m + n
      /\ \A i \in 1 .. m + n : e[i] = IF i <= m THEN d[i] ELSE c[i - m]
  BY <1>1, ConcatProperties
<1>3. /\ \A i, j \in 1 .. n : c[i] = c[j] => i = j
      /\ \A i, j \in 1 .. m : d[i] = d[j] => i = j
      /\ \A i \in 1 .. n - 1 : next[c[i]] = c[i + 1]
      /\ \A i \in 1 .. m - 1 : next[d[i]] = d[i + 1]
      /\ next[d[m]] = p /\ p = (IF c = <<>> THEN NULL ELSE c[1])
      /\ c # <<>> => next[c[n]] = NULL
  BY DEF Path, Distinct, Links
<1> HIDE DEF e, m, n
<1>4. \A i \in 1 .. m : i \in 1 .. m + n /\ e[i] = d[i]
  BY <1>1, <1>2
<1>5. \A i \in 1 .. n : m + i \in 1 .. m + n /\ e[m + i] = c[i]
  <2> TAKE i \in 1 .. n
  <2>1. m + i \in 1 .. m + n /\ ~(m + i <= m) /\ (m + i) - m = i
    BY <1>1
  <2> QED BY <1>2, <2>1
<1>6. \A i \in 1 .. m + n : i \in 1 .. m \/ (i - m \in 1 .. n /\ i = m + (i - m))
  BY <1>1
<1>7. \A i \in 1 .. n, j \in 1 .. m : c[i] # d[j]
  BY <1>1
<1>8. Distinct(Nodes, e)
  <2> SUFFICES ASSUME NEW i \in 1 .. m + n, NEW j \in 1 .. m + n, e[i] = e[j]
               PROVE  i = j
    BY <1>2 DEF Distinct
  <2>1. CASE i \in 1 .. m /\ j \in 1 .. m
    BY <1>3, <1>4, <2>1
  <2>2. CASE i \in 1 .. m /\ j - m \in 1 .. n /\ j = m + (j - m)
    <3>1. e[i] = d[i] /\ e[j] = c[j - m]
      BY <1>4, <1>5, <2>2
    <3> QED BY <1>7, <2>2, <3>1
  <2>3. CASE i - m \in 1 .. n /\ i = m + (i - m) /\ j \in 1 .. m
    <3>1. e[j] = d[j] /\ e[i] = c[i - m]
      BY <1>4, <1>5, <2>3
    <3> QED BY <1>7, <2>3, <3>1
  <2>4. CASE i - m \in 1 .. n /\ j - m \in 1 .. n /\ i = m + (i - m) /\ j = m + (j - m)
    <3>1. c[i - m] = c[j - m]
      BY <1>5, <2>4
    <3>2. i - m = j - m
      BY <1>3, <2>4, <3>1
    <3> QED BY <2>4, <3>2
  <2> QED BY <1>6, <2>1, <2>2, <2>3, <2>4
<1>9. Links(next, e)
  <2>0. m + n = Len(e) /\ Len(e) \in Nat
    BY <1>1, <1>2
  <2> SUFFICES ASSUME NEW i \in 1 .. Len(e) - 1 PROVE next[e[i]] = e[i + 1]
    BY DEF Links
  <2>1. CASE i \in 1 .. m - 1
    <3>1. i \in 1 .. m /\ i + 1 \in 1 .. m
      BY <1>1, <2>1
    <3> QED BY <1>3, <1>4, <2>1, <3>1
  <2>2. CASE i = m
    <3>1. 1 \in 1 .. n /\ c # <<>> /\ m \in 1 .. m
      BY <1>1, <2>0, <2>2
    <3> QED BY <1>3, <1>4, <1>5, <2>2, <3>1
  <2>3. CASE i - m \in 1 .. n - 1
    <3>1. /\ i - m \in 1 .. n /\ (i - m) + 1 \in 1 .. n /\ i = m + (i - m)
          /\ i + 1 = m + ((i - m) + 1)
      BY <1>1, <2>3
    <3>2. e[i] = c[i - m] /\ e[i + 1] = c[(i - m) + 1]
      BY <1>5, <3>1
    <3> QED BY <1>3, <2>3, <3>2
  <2>4. i \in 1 .. m - 1 \/ i = m \/ i - m \in 1 .. n - 1
    BY <1>1, <2>0
  <2> QED BY <2>1, <2>2, <2>3, <2>4
<1>10. e # <<>> /\ e[1] = d[1]
  BY <1>1, <1>2, <1>4, EmptySeq
<1>11. next[e[m + n]] = NULL
  <2>1. CASE n = 0
    BY <1>1, <1>3, <1>4, <2>1
  <2>2. CASE n # 0
    BY <1>1, <1>3, <1>5, <2>2, n \in 1 .. n
  <2> QED BY <2>1, <2>2
<1> QED BY <1>2, <1>8, <1>9, <1>10, <1>11 DEF Path, e, m, n
-----------------------------------------------------------------------------
(* Lists whose order does not matter *)

\* The nodes reached from p along next, up to a null pointer, are those of S.
ListOf(Nodes, NULL, next, p, S) ==
  \E c : Path(Nodes, NULL, next, c, p) /\ Range(c) = S

\* The walk from the head of such a list meets the nodes of S; the equation that
\* defines the walk has no other solution.
LEMMA ListWalk ==
  ASSUME NEW Nodes, IsFiniteSet(Nodes), NEW NULL, NULL \notin Nodes,
         NEW next, NEW p, NEW S, ListOf(Nodes, NULL, next, p, S),
         NEW at, at = Follow(Nodes, NULL, next, p)
  PROVE  /\ {at[k] : k \in DOMAIN at} \ {NULL} = S
         /\ at = [k \in 1 .. Cardinality(Nodes) |->
                    IF k = 1 THEN p
                    ELSE IF at[k - 1] = NULL THEN NULL ELSE next[at[k - 1]]]
         /\ \A g : g = [k \in 1 .. Cardinality(Nodes) |->
                          IF k = 1 THEN p
                          ELSE IF g[k - 1] = NULL THEN NULL ELSE next[g[k - 1]]]
                   => g = at
<1>1. PICK c : Path(Nodes, NULL, next, c, p) /\ Range(c) = S
  BY DEF ListOf
<1>2. {at[k] : k \in DOMAIN at} \ {NULL} = Range(c)
  BY <1>1, WalkNodes
<1> QED BY <1>1, <1>2, FollowPath

\* What a list is made of.
LEMMA ListHas ==
  ASSUME NEW Nodes, NEW NULL, NULL \notin Nodes, NEW next, NEW p, NEW S,
         ListOf(Nodes, NULL, next, p, S)
  PROVE  /\ S \subseteq Nodes /\ p \in Nodes \union {NULL}
         /\ p = NULL <=> S = {}
         /\ p # NULL => p \in S
<1>1. PICK c : Path(Nodes, NULL, next, c, p) /\ Range(c) = S
  BY DEF ListOf
<1>2. /\ p = NULL <=> c = <<>>
      /\ p \in Nodes \union {NULL} /\ (p # NULL => p \in Range(c))
  BY <1>1, PathNull
<1>3. Range(c) \subseteq Nodes
  BY <1>1, PathRange DEF Path
<1>4. c = <<>> => Range(c) = {}
  BY PathEmpty
<1> QED BY <1>1, <1>2, <1>3, <1>4

\* A null pointer heads the empty list.
LEMMA ListNone ==
  ASSUME NEW Nodes, NEW NULL, NEW next
  PROVE  ListOf(Nodes, NULL, next, NULL, {})
  BY PathEmpty DEF ListOf

\* Links of other nodes do not matter.
LEMMA ListKept ==
  ASSUME NEW Nodes, NEW NULL, NEW next, NEW nextnew, NEW p, NEW S,
         ListOf(Nodes, NULL, next, p, S), \A n \in S : nextnew[n] = next[n]
  PROVE  ListOf(Nodes, NULL, nextnew, p, S)
<1>1. PICK c : Path(Nodes, NULL, next, c, p) /\ Range(c) = S
  BY DEF ListOf
<1>2. Path(Nodes, NULL, nextnew, c, p)
  BY <1>1, PathKept
<1> QED BY <1>1, <1>2 DEF ListOf

\* The first node taken off.
LEMMA ListRest ==
  ASSUME NEW Nodes, NEW NULL, NULL \notin Nodes, NEW next, NEW p, NEW S,
         ListOf(Nodes, NULL, next, p, S), p # NULL
  PROVE  ListOf(Nodes, NULL, next, next[p], S \ {p})
<1>1. PICK c : Path(Nodes, NULL, next, c, p) /\ Range(c) = S
  BY DEF ListOf
<1>2. c # <<>>
  BY <1>1, PathNull
<1>3. /\ Path(Nodes, NULL, next, Tail(c), next[p])
      /\ p \notin Range(Tail(c)) /\ Range(c) = Range(Tail(c)) \union {p}
  BY <1>1, <1>2, PathTail
<1>4. Range(Tail(c)) = S \ {p}
  BY <1>1, <1>3
<1> QED BY <1>3, <1>4 DEF ListOf

\* A node put in front.
LEMMA ListAdd ==
  ASSUME NEW Nodes, NEW NULL, NULL \notin Nodes, NEW next, NEW nextnew, NEW p, NEW S,
         ListOf(Nodes, NULL, next, p, S), NEW n \in Nodes, n \notin S,
         nextnew[n] = p, \A m \in S : nextnew[m] = next[m]
  PROVE  ListOf(Nodes, NULL, nextnew, n, S \union {n})
<1>0. ListOf(Nodes, NULL, nextnew, p, S)
  BY ListKept
<1>1. PICK c : Path(Nodes, NULL, nextnew, c, p) /\ Range(c) = S
  BY <1>0 DEF ListOf
<1>2. PICK d : d = <<n>>
  OBVIOUS
<1>3. /\ d \in Seq(Nodes) /\ Len(d) = 1 /\ d[1] = n /\ d # <<>>
      /\ Range(d) = {n} /\ Distinct(Nodes, d) /\ Links(nextnew, d)
  BY <1>2 DEF Range, Distinct, Links
<1>4. Range(c) \cap Range(d) = {} /\ nextnew[d[Len(d)]] = p
  BY <1>1, <1>3
<1>5. Path(Nodes, NULL, nextnew, d \o c, d[1])
  BY <1>1, <1>3, <1>4, PathConcat
<1>6. Range(d \o c) = Range(d) \union Range(c)
  BY <1>1, <1>3, RangeConcat DEF Path
<1>7. Range(d \o c) = S \union {n}
  BY <1>1, <1>3, <1>6
<1> QED BY <1>3, <1>5, <1>7 DEF ListOf

\* A node taken out, wherever it is.
LEMMA ListRemove ==
  ASSUME NEW Nodes, NEW NULL, NULL \notin Nodes, NEW next, NEW nextnew, NEW p, NEW S,
         ListOf(Nodes, NULL, next, p, S), NEW n \in S,
         \A m \in S \ {n} : nextnew[m] = IF next[m] = n THEN next[n] ELSE next[m]
  PROVE  ListOf(Nodes, NULL, nextnew, IF p = n THEN next[n] ELSE p, S \ {n})
<1>1. PICK c : Path(Nodes, NULL, next, c, p) /\ Range(c) = S
  BY DEF ListOf
<1> DEFINE l == Len(c)
<1>2. /\ c \in Seq(Nodes) /\ l \in Nat /\ S = {c[i] : i \in 1 .. l} /\ S \subseteq Nodes
      /\ \A i, j \in 1 .. l : c[i] = c[j] => i = j
      /\ \A i \in 1 .. l - 1 : next[c[i]] = c[i + 1]
      /\ p = (IF c = <<>> THEN NULL ELSE c[1])
      /\ c # <<>> => next[c[l]] = NULL
  BY <1>1, PathRange DEF Path, Distinct, Links
<1>3. PICK i \in 1 .. l : c[i] = n
  BY <1>2
<1>4. l # 0 /\ c # <<>> /\ p = c[1] /\ next[c[l]] = NULL /\ 1 \in 1 .. l
  BY <1>2, <1>3, EmptySeq
<1> HIDE DEF l
<1> DEFINE d == [k \in 1 .. l - 1 |-> IF k < i THEN c[k] ELSE c[k + 1]]
<1>5. \A k \in 1 .. l - 1 : /\ k \in 1 .. l /\ k + 1 \in 1 .. l
                            /\ c[k] \in Nodes /\ c[k + 1] \in Nodes
  BY <1>2, <1>3
<1>6. d \in Seq(Nodes) /\ Len(d) = l - 1 /\ l - 1 \in Nat
  <2>1. l - 1 \in Nat
    BY <1>2, <1>4
  <2>2. d \in [1 .. l - 1 -> Nodes]
    BY <1>5
  <2> QED BY <2>1, <2>2
<1>7. \A k \in 1 .. l - 1 : d[k] = IF k < i THEN c[k] ELSE c[k + 1]
  OBVIOUS
<1> HIDE DEF d
<1>8. Distinct(Nodes, d)
  <2> SUFFICES ASSUME NEW j \in 1 .. l - 1, NEW k \in 1 .. l - 1, d[j] = d[k]
      PROVE  j = k
    BY <1>6 DEF Distinct
  <2> DEFINE J == IF j < i THEN j ELSE j + 1
             K == IF k < i THEN k ELSE k + 1
  <2>1. J \in 1 .. l /\ K \in 1 .. l /\ c[J] = c[K]
    BY <1>5, <1>7
  <2>2. J = K
    BY <1>2, <2>1
  <2> QED BY <1>3, <2>2
<1>9. Range(d) = S \ {n}
  <2>1. Range(d) = {d[k] : k \in 1 .. l - 1}
    <3>1. DOMAIN d = 1 .. l - 1
      BY <1>6
    <3> QED BY <3>1 DEF Range
  <2>2. ASSUME NEW k \in 1 .. l - 1 PROVE d[k] \in S /\ d[k] # n
    <3>1. CASE k < i
      BY <1>2, <1>3, <1>5, <1>7, <3>1
    <3>2. CASE ~(k < i)
      <4>1. k + 1 # i
        BY <1>3, <3>2
      <4> QED BY <1>2, <1>3, <1>5, <1>7, <3>2, <4>1
    <3> QED BY <3>1, <3>2
  <2>3. ASSUME NEW j \in 1 .. l, c[j] # n PROVE \E k \in 1 .. l - 1 : d[k] = c[j]
    <3>1. CASE j < i
      <4>1. j \in 1 .. l - 1
        BY <1>2, <1>3, <3>1
      <4> QED BY <1>7, <3>1, <4>1
    <3>2. CASE j > i
      <4>1. j - 1 \in 1 .. l - 1 /\ ~(j - 1 < i) /\ (j - 1) + 1 = j
        BY <1>2, <1>3, <3>2
      <4> QED BY <1>7, <4>1
    <3> QED BY <1>3, <2>3, <3>1, <3>2
  <2>4. Range(d) \subseteq S \ {n}
    BY <2>1, <2>2
  <2>5. S \ {n} \subseteq Range(d)
    <3> SUFFICES ASSUME NEW m \in S \ {n} PROVE m \in Range(d)
      OBVIOUS
    <3>1. PICK j \in 1 .. l : c[j] = m
      BY <1>2
    <3>2. PICK k \in 1 .. l - 1 : d[k] = c[j]
      BY <2>3, <3>1
    <3> QED BY <2>1, <3>1, <3>2
  <2> QED BY <2>4, <2>5
<1>10. \A k \in 1 .. l - 1 :
         nextnew[d[k]] = IF next[d[k]] = n THEN next[n] ELSE next[d[k]]
  <2>1. \A k \in 1 .. l - 1 : d[k] \in S \ {n}
    <3>1. DOMAIN d = 1 .. l - 1
      BY <1>6
    <3> QED BY <1>9, <3>1 DEF Range
  <2> QED BY <2>1
<1>11. ASSUME NEW k \in 1 .. l - 1, k < i
       PROVE  nextnew[d[k]] = IF k + 1 = i THEN next[n] ELSE c[k + 1]
  <2>1. d[k] = c[k] /\ next[c[k]] = c[k + 1]
    BY <1>2, <1>7, <1>11
  <2>2. c[k + 1] = n <=> k + 1 = i
    BY <1>2, <1>3, <1>5
  <2> QED BY <1>10, <2>1, <2>2
<1>12. ASSUME NEW k \in 1 .. l - 1, ~(k < i)
       PROVE  nextnew[d[k]] = IF k = l - 1 THEN NULL ELSE c[(k + 1) + 1]
  <2>1. d[k] = c[k + 1]
    BY <1>7, <1>12
  <2>2. CASE k = l - 1
    <3>1. k + 1 = l
      BY <1>2, <2>2
    <3>2. next[d[k]] = NULL
      BY <1>4, <2>1, <3>1
    <3>3. n # NULL
      BY <1>2
    <3> QED BY <1>10, <2>2, <3>2, <3>3
  <2>3. CASE k # l - 1
    <3>1. k + 1 \in 1 .. l - 1 /\ (k + 1) + 1 \in 1 .. l /\ (k + 1) + 1 # i
      BY <1>2, <1>3, <1>12, <2>3
    <3>2. next[d[k]] = c[(k + 1) + 1] /\ c[(k + 1) + 1] # n
      BY <1>2, <1>3, <2>1, <3>1
    <3> QED BY <1>10, <2>3, <3>2
  <2> QED BY <2>2, <2>3
<1>13. next[n] = IF i = l THEN NULL ELSE c[i + 1]
  <2>1. i # l => i \in 1 .. l - 1
    BY <1>2, <1>3
  <2> QED BY <1>2, <1>3, <1>4, <2>1
<1>14. Links(nextnew, d)
  <2> SUFFICES ASSUME NEW k \in 1 .. (l - 1) - 1 PROVE nextnew[d[k]] = d[k + 1]
    BY <1>6 DEF Links
  <2>1. /\ k \in 1 .. l - 1 /\ k + 1 \in 1 .. l - 1 /\ k # l - 1
        /\ (k + 1) + 1 \in Int
    BY <1>2, <1>4
  <2>2. CASE k < i /\ k + 1 # i
    <3>1. k + 1 < i
      BY <1>3, <2>1, <2>2
    <3> QED BY <1>7, <1>11, <2>1, <2>2, <3>1
  <2>3. CASE k < i /\ k + 1 = i
    <3>1. i # l /\ d[k + 1] = c[i + 1]
      BY <1>2, <1>7, <2>1, <2>3
    <3> QED BY <1>11, <1>13, <2>1, <2>3, <3>1
  <2>4. CASE ~(k < i)
    <3>1. ~(k + 1 < i)
      BY <1>3, <2>1, <2>4
    <3> QED BY <1>7, <1>12, <2>1, <2>4, <3>1
  <2> QED BY <2>2, <2>3, <2>4
<1>15. (IF p = n THEN next[n] ELSE p) = IF d = <<>> THEN NULL ELSE d[1]
  <2>1. d = <<>> <=> l = 1
    BY <1>2, <1>6, EmptySeq
  <2>2. p = n <=> i = 1
    BY <1>2, <1>3, <1>4
  <2>3. CASE l = 1
    BY <1>3, <1>13, <2>1, <2>2, <2>3
  <2>4. CASE l # 1
    <3>1. 1 \in 1 .. l - 1 /\ (i = 1 => i # l) /\ (1 < i <=> i # 1)
      BY <1>2, <1>3, <1>4, <2>4
    <3>2. d[1] = IF i = 1 THEN c[1 + 1] ELSE c[1]
      BY <1>7, <3>1
    <3> QED BY <1>4, <1>13, <2>1, <2>2, <2>4, <3>1, <3>2
  <2> QED BY <2>3, <2>4
<1>16. d # <<>> => nextnew[d[l - 1]] = NULL
  <2> SUFFICES ASSUME d # <<>> PROVE nextnew[d[l - 1]] = NULL
    OBVIOUS
  <2>1. l - 1 \in 1 .. l - 1
    BY <1>2, <1>4, <1>6, EmptySeq
  <2>2. CASE l - 1 < i
    <3>1. (l - 1) + 1 = i /\ i = l
      BY <1>2, <1>3, <2>2
    <3> QED BY <1>11, <1>13, <2>1, <2>2, <3>1
  <2>3. CASE ~(l - 1 < i)
    BY <1>12, <2>1, <2>3
  <2> QED BY <2>2, <2>3
<1>17. Path(Nodes, NULL, nextnew, d, IF p = n THEN next[n] ELSE p)
  BY <1>6, <1>8, <1>14, <1>15, <1>16 DEF Path
<1> QED BY <1>9, <1>17 DEF ListOf
=============================================================================
