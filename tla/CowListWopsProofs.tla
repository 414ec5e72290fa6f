-------------------------- MODULE CowListWopsProofs --------------------------
(***************************************************************************)
(* Proofs about CowListWops, for any finite set of addresses, any items,   *)
(* and any bounds on the length of the list and of what it changes.        *)
(***************************************************************************)
EXTENDS CowListWops, LinkedLists

-----------------------------------------------------------------------------
(* How often an item occurs in a sequence *)

Times(s, x) == Cardinality({i \in DOMAIN s : s[i] = x})
One(b) == IF b THEN 1 ELSE 0

\* Finitely often.
LEMMA TimesType ==
  ASSUME NEW S, NEW s \in Seq(S), NEW x
  PROVE  /\ Times(s, x) \in Nat /\ IsFiniteSet({i \in DOMAIN s : s[i] = x})
         /\ Times(s, x) = 0 <=> \A i \in DOMAIN s : s[i] # x
<1> DEFINE D == {i \in DOMAIN s : s[i] = x}
<1>1. DOMAIN s = 1 .. Len(s) /\ Len(s) \in Nat
  OBVIOUS
<1>2. IsFiniteSet(1 .. Len(s))
  BY <1>1, OneTo
<1>3. D \in SUBSET (1 .. Len(s))
  BY <1>1
<1> HIDE DEF D
<1>4. IsFiniteSet(D)
  BY <1>2, <1>3, FS_Subset
<1>5. Cardinality(D) \in Nat /\ (Cardinality(D) = 0 <=> D = {})
  BY <1>4, FS_EmptySet, FS_CardinalityType
<1> QED BY <1>4, <1>5 DEF Times, D

\* t is s but for one item more, at place i, wherever the others are: h tells
\* where each of them was.
OneMore(s, t, i, h) ==
  /\ h \in Bijection(DOMAIN t \ {i}, DOMAIN s)
  /\ \A k \in DOMAIN t \ {i} : t[k] = s[h[k]]

LEMMA TimesMore ==
  ASSUME NEW S, NEW s \in Seq(S), NEW t \in Seq(S), NEW i \in DOMAIN t,
         NEW h, OneMore(s, t, i, h), NEW x
  PROVE  Times(t, x) = Times(s, x) + One(t[i] = x)
<1> DEFINE A == {k \in DOMAIN t : t[k] = x}
           B == {k \in DOMAIN s : s[k] = x}
           C == A \ {i}
           g == [k \in C |-> h[k]]
<1>1. IsFiniteSet(A) /\ IsFiniteSet(B) /\ Cardinality(A) \in Nat /\ Cardinality(B) \in Nat
  <2>1. Times(t, x) \in Nat /\ IsFiniteSet({k \in DOMAIN t : t[k] = x})
    BY TimesType
  <2>2. Times(s, x) \in Nat /\ IsFiniteSet({k \in DOMAIN s : s[k] = x})
    BY TimesType
  <2> QED BY <2>1, <2>2 DEF Times
<1>2. IsFiniteSet(C) /\ Cardinality(C) = IF i \in A THEN Cardinality(A) - 1 ELSE Cardinality(A)
  BY <1>1, FS_RemoveElement
<1>3. g \in Bijection(C, B)
  <2>1. /\ h \in [DOMAIN t \ {i} -> DOMAIN s]
        /\ \A j, k \in DOMAIN t \ {i} : h[j] = h[k] => j = k
        /\ \A m \in DOMAIN s : \E k \in DOMAIN t \ {i} : h[k] = m
    BY DEF OneMore, Bijection, Injection, Surjection, IsInjective
  <2>2. g \in [C -> B] /\ \A j, k \in C : g[j] = g[k] => j = k
    BY <2>1 DEF OneMore
  <2>3. \A m \in B : \E k \in C : g[k] = m
    BY <2>1 DEF OneMore
  <2> QED BY <2>2, <2>3 DEF Bijection, Injection, Surjection, IsInjective
<1>4. ExistsBijection(C, B)
  BY <1>3 DEF ExistsBijection
<1>5. Cardinality(C) = Cardinality(B)
  BY <1>2, <1>4, FS_Bijection
<1>6. i \in A <=> t[i] = x
  OBVIOUS
<1> HIDE DEF A, B, C
<1>7. Cardinality(A) = Cardinality(B) + One(t[i] = x)
  BY <1>1, <1>2, <1>5, <1>6 DEF One
<1> QED BY <1>7 DEF Times, A, B

\* No item, and one.
LEMMA TimesNone ==
  ASSUME NEW x
  PROVE  Times(<<>>, x) = 0
<1>1. {i \in DOMAIN <<>> : <<>>[i] = x} = {}
  OBVIOUS
<1> QED BY <1>1, FS_EmptySet DEF Times

LEMMA TimesOne ==
  ASSUME NEW v, NEW x
  PROVE  Times(<<v>>, x) = One(v = x)
<1>1. {i \in DOMAIN <<v>> : <<v>>[i] = x} = IF v = x THEN {1} ELSE {}
  OBVIOUS
<1>2. Cardinality({1}) = 1 /\ Cardinality({}) = 0
  BY FS_EmptySet, FS_Singleton
<1> QED BY <1>1, <1>2 DEF Times, One

\* The bijection of an insertion or a removal at place i.
LEMMA Shifted ==
  ASSUME NEW n \in Nat, NEW i \in 1 .. n + 1
  PROVE  [k \in (1 .. n + 1) \ {i} |-> IF k < i THEN k ELSE k - 1]
           \in Bijection((1 .. n + 1) \ {i}, 1 .. n)
<1> DEFINE h == [k \in (1 .. n + 1) \ {i} |-> IF k < i THEN k ELSE k - 1]
<1>1. h \in [(1 .. n + 1) \ {i} -> 1 .. n]
  OBVIOUS
<1>2. \A j, k \in (1 .. n + 1) \ {i} : h[j] = h[k] => j = k
  OBVIOUS
<1>3. ASSUME NEW m \in 1 .. n PROVE \E k \in (1 .. n + 1) \ {i} : h[k] = m
  <2>1. CASE m < i
    <3>1. m \in (1 .. n + 1) \ {i} /\ h[m] = m
      BY <2>1
    <3> QED BY <3>1
  <2>2. CASE ~(m < i)
    <3>1. m + 1 \in (1 .. n + 1) \ {i} /\ h[m + 1] = m
      BY <2>2
    <3> QED BY <3>1
  <2> QED BY <2>1, <2>2
<1> QED BY <1>1, <1>2, <1>3 DEF Bijection, Injection, Surjection, IsInjective

\* One sequence behind another.
LEMMA ConcatIs ==
  ASSUME NEW S, NEW a \in Seq(S), NEW b \in Seq(S)
  PROVE  /\ a \o b \in Seq(S) /\ Len(a \o b) = Len(a) + Len(b)
         /\ \A k \in 1 .. Len(a) + Len(b) :
              (a \o b)[k] = IF k <= Len(a) THEN a[k] ELSE b[k - Len(a)]
  OBVIOUS

\* InsertAt
LEMMA InsertIs ==
  ASSUME NEW S, NEW s \in Seq(S), NEW i \in 1 .. Len(s) + 1, NEW e \in S
  PROVE  /\ InsertAt(s, i, e) \in Seq(S) /\ Len(InsertAt(s, i, e)) = Len(s) + 1
         /\ \A x : Times(InsertAt(s, i, e), x) = Times(s, x) + One(e = x)
<1> DEFINE n == Len(s)
           a == SubSeq(s, 1, i - 1)
           b == SubSeq(s, i, n)
           h == [k \in (1 .. n + 1) \ {i} |-> IF k < i THEN k ELSE k - 1]
<1>0. n \in Nat
  OBVIOUS
<1>1. /\ a \in Seq(S) /\ Len(a) = i - 1 /\ \A k \in 1 .. i - 1 : a[k] = s[k]
  OBVIOUS
<1>2. /\ b \in Seq(S) /\ Len(b) = (n + 1) - i
      /\ \A k \in 1 .. (n + 1) - i : b[k] = s[(i + k) - 1]
  OBVIOUS
<1>3. PICK c : c = a \o <<e>>
  OBVIOUS
<1>4. /\ c \in Seq(S) /\ Len(c) = i
      /\ \A k \in 1 .. i : c[k] = IF k = i THEN e ELSE s[k]
  BY <1>1, <1>3
<1>5. PICK t : t = InsertAt(s, i, e)
  OBVIOUS
<1>6. t = c \o b
  BY <1>3, <1>5 DEF InsertAt
<1> HIDE DEF n, a, b
<1>7. /\ t \in Seq(S) /\ Len(t) = n + 1
      /\ \A k \in 1 .. n + 1 : t[k] = IF k <= i THEN c[k] ELSE b[k - i]
  <2>1. /\ t \in Seq(S) /\ Len(t) = Len(c) + Len(b)
        /\ \A k \in 1 .. Len(c) + Len(b) :
             t[k] = IF k <= Len(c) THEN c[k] ELSE b[k - Len(c)]
    BY <1>2, <1>4, <1>6, ConcatIs
  <2>2. Len(c) + Len(b) = n + 1
    BY <1>0, <1>2, <1>4
  <2> QED BY <1>4, <2>1, <2>2
<1>8. \A k \in (1 .. n + 1) \ {i} : t[k] = s[h[k]]
  <2> TAKE k \in (1 .. n + 1) \ {i}
  <2>1. CASE k < i
    BY <1>0, <1>4, <1>7, <2>1
  <2>2. CASE ~(k < i)
    <3>1. k - i \in 1 .. (n + 1) - i /\ (i + (k - i)) - 1 = k - 1 /\ ~(k <= i)
      BY <1>0, <2>2 DEF n
    <3> QED BY <1>2, <1>7, <2>2, <3>1
  <2> QED BY <2>1, <2>2
<1>9. t[i] = e
  BY <1>0, <1>4, <1>7 DEF n
<1>10. h \in Bijection((1 .. n + 1) \ {i}, 1 .. n)
  BY <1>0, Shifted DEF n
<1>11. DOMAIN t = 1 .. n + 1 /\ DOMAIN s = 1 .. n /\ i \in 1 .. n + 1
  BY <1>7 DEF n
<1> HIDE DEF h
<1>12. \A x : Times(t, x) = Times(s, x) + One(e = x)
  <2> TAKE x
  <2>1. OneMore(s, t, i, h) /\ i \in DOMAIN t
    BY <1>8, <1>10, <1>11 DEF OneMore
  <2>2. Times(t, x) = Times(s, x) + One(t[i] = x)
    BY <1>7, <2>1, TimesMore
  <2> QED BY <1>9, <2>2
<1> QED BY <1>5, <1>7, <1>12 DEF n

\* RemoveAt
LEMMA RemoveIs ==
  ASSUME NEW S, NEW s \in Seq(S), NEW i \in 1 .. Len(s)
  PROVE  /\ RemoveAt(s, i) \in Seq(S) /\ Len(RemoveAt(s, i)) = Len(s) - 1
         /\ \A x : Times(s, x) = Times(RemoveAt(s, i), x) + One(s[i] = x)
<1> DEFINE n == Len(s) - 1
           a == SubSeq(s, 1, i - 1)
           b == SubSeq(s, i + 1, n + 1)
           h == [k \in (1 .. n + 1) \ {i} |-> IF k < i THEN k ELSE k - 1]
<1>0. n \in Nat /\ i \in 1 .. n + 1 /\ n + 1 = Len(s)
  OBVIOUS
<1>1. /\ a \in Seq(S) /\ Len(a) = i - 1 /\ \A k \in 1 .. i - 1 : a[k] = s[k]
  OBVIOUS
<1>2. /\ b \in Seq(S) /\ Len(b) = (n + 1) - i
      /\ \A k \in 1 .. (n + 1) - i : b[k] = s[i + k]
  OBVIOUS
<1>3. PICK t : t = RemoveAt(s, i)
  OBVIOUS
<1>4. t = a \o b
  BY <1>0, <1>3 DEF RemoveAt
<1> HIDE DEF n, a, b
<1>5. /\ t \in Seq(S) /\ Len(t) = n
      /\ \A k \in 1 .. n : t[k] = IF k < i THEN a[k] ELSE b[(k - i) + 1]
  <2>1. /\ t \in Seq(S) /\ Len(t) = Len(a) + Len(b)
        /\ \A k \in 1 .. Len(a) + Len(b) :
             t[k] = IF k <= Len(a) THEN a[k] ELSE b[k - Len(a)]
    BY <1>1, <1>2, <1>4, ConcatIs
  <2>2. Len(a) + Len(b) = n
    BY <1>0, <1>1, <1>2
  <2>3. \A k \in 1 .. n : (k <= Len(a) <=> k < i) /\ k - Len(a) = (k - i) + 1
    BY <1>0, <1>1
  <2> QED BY <2>1, <2>2, <2>3
<1>6. \A k \in (1 .. n + 1) \ {i} : s[k] = t[h[k]]
  <2> TAKE k \in (1 .. n + 1) \ {i}
  <2>1. CASE k < i
    BY <1>0, <1>1, <1>5, <2>1
  <2>2. CASE ~(k < i)
    <3>1. /\ k - 1 \in 1 .. n /\ ~(k - 1 < i) /\ ((k - 1) - i) + 1 \in 1 .. (n + 1) - i
          /\ i + (((k - 1) - i) + 1) = k
      BY <1>0, <2>2
    <3> QED BY <1>2, <1>5, <2>2, <3>1
  <2> QED BY <2>1, <2>2
<1>7. h \in Bijection((1 .. n + 1) \ {i}, 1 .. n)
  BY <1>0, Shifted
<1>8. DOMAIN s = 1 .. n + 1 /\ DOMAIN t = 1 .. n
  BY <1>0, <1>5
<1> HIDE DEF h
<1>9. \A x : Times(s, x) = Times(t, x) + One(s[i] = x)
  <2> TAKE x
  <2>1. OneMore(t, s, i, h) /\ i \in DOMAIN s
    BY <1>0, <1>6, <1>7, <1>8 DEF OneMore
  <2> QED BY <1>5, <2>1, TimesMore
<1> QED BY <1>3, <1>5, <1>9 DEF n

\* e is one sequence behind another.
Joined(e, a, b) == e = a \o b

LEMMA TimesConcat ==
  ASSUME NEW S, NEW a \in Seq(S), NEW b \in Seq(S), NEW e, Joined(e, a, b), NEW x
  PROVE  Times(e, x) = Times(a, x) + Times(b, x)
<1> DEFINE A == {k \in DOMAIN a : a[k] = x}
           B == {k \in DOMAIN b : b[k] = x}
           E == {k \in DOMAIN e : e[k] = x}
           m == Len(a)
           n == Len(b)
           C == {k \in E : k > m}
           h == [k \in B |-> m + k]
<1>1. /\ Times(a, x) \in Nat /\ IsFiniteSet({k \in DOMAIN a : a[k] = x})
      /\ Times(b, x) \in Nat /\ IsFiniteSet({k \in DOMAIN b : b[k] = x})
  BY TimesType
<1>2. /\ m \in Nat /\ n \in Nat /\ DOMAIN a = 1 .. m /\ DOMAIN b = 1 .. n
      /\ e \in Seq(S) /\ DOMAIN e = 1 .. m + n
      /\ \A k \in 1 .. m + n : e[k] = IF k <= m THEN a[k] ELSE b[k - m]
  <2>1. /\ e \in Seq(S) /\ Len(e) = m + n
        /\ \A k \in 1 .. m + n : e[k] = IF k <= m THEN a[k] ELSE b[k - m]
    BY ConcatIs DEF Joined
  <2> QED BY <2>1
<1>3. h \in Bijection(B, C)
  <2> HIDE DEF m, n
  <2>1. h \in [B -> C]
    <3>1. ASSUME NEW k \in B PROVE m + k \in C
      <4>1. k \in 1 .. n /\ b[k] = x
        BY <1>2
      <4>2. m + k \in 1 .. m + n /\ m + k > m /\ (m + k) - m = k /\ ~(m + k <= m)
        BY <1>2, <4>1
      <4> QED BY <1>2, <4>1, <4>2
    <3> QED BY <3>1
  <2>2. \A j, k \in B : h[j] = h[k] => j = k
    BY <1>2
  <2>3. ASSUME NEW k \in C PROVE \E j \in B : h[j] = k
    <3>1. k \in 1 .. m + n /\ k > m /\ e[k] = x
      BY <1>2
    <3>2. k - m \in 1 .. n /\ m + (k - m) = k /\ ~(k <= m)
      BY <1>2, <3>1
    <3>3. k - m \in B
      BY <1>2, <3>1, <3>2
    <3> QED BY <3>2, <3>3
  <2> QED BY <2>1, <2>2, <2>3 DEF Bijection, Injection, Surjection, IsInjective
<1>4. E = A \union C /\ A \cap C = {}
  <2> HIDE DEF m, n
  <2>1. \A k \in 1 .. m + n : (k <= m <=> ~(k > m)) /\ (k \in 1 .. m <=> k <= m)
    BY <1>2
  <2>2. \A k \in 1 .. m : k \in 1 .. m + n
    BY <1>2
  <2> QED BY <1>2, <2>1, <2>2
<1>5. IsFiniteSet(A) /\ Cardinality(A) = Times(a, x)
  BY <1>1 DEF Times
<1>6. IsFiniteSet(B) /\ Cardinality(B) = Times(b, x)
  BY <1>1 DEF Times
<1>7. Cardinality(E) = Times(e, x)
  BY DEF Times
<1> HIDE DEF A, B, C, E, h
<1>8. IsFiniteSet(C) /\ Cardinality(C) = Cardinality(B)
  BY <1>3, <1>6, FS_Bijection DEF ExistsBijection
<1>9. Cardinality(E) = Cardinality(A) + Cardinality(C) - Cardinality(A \cap C)
  BY <1>4, <1>5, <1>8, FS_Union
<1>10. Cardinality(A \cap C) = 0
  BY <1>4, FS_EmptySet
<1> QED BY <1>1, <1>5, <1>6, <1>7, <1>8, <1>9, <1>10

\* TrimFromInserted and TrimFromDeleted of place i
LEMMA TrimIs ==
  ASSUME NEW S, NEW s \in Seq(S), NEW i \in 1 .. Len(s)
  PROVE  /\ Trim(s, i) \in Seq(S) /\ Len(Trim(s, i)) = Len(s) - 1
         /\ \A k \in 1 .. Len(s) - 1 : Trim(s, i)[k] = IF k = i THEN s[Len(s)] ELSE s[k]
         /\ \A x : Times(s, x) = Times(Trim(s, i), x) + One(s[i] = x)
<1> DEFINE n == Len(s) - 1
           h == [k \in (1 .. n + 1) \ {i} |-> IF k = n + 1 THEN i ELSE k]
<1>1. /\ n \in Nat /\ i \in 1 .. n + 1 /\ n + 1 = Len(s) /\ n + 1 \in 1 .. n + 1
      /\ DOMAIN s = 1 .. n + 1
  OBVIOUS
<1>2. PICK t : t = Trim(s, i)
  OBVIOUS
<1>3. PICK r : r = [s EXCEPT ![i] = s[Len(s)]]
  OBVIOUS
<1>4. /\ r \in Seq(S) /\ Len(r) = Len(s)
      /\ \A k \in 1 .. n + 1 : r[k] = IF k = i THEN s[n + 1] ELSE s[k]
  BY <1>1, <1>3
<1>5. t = SubSeq(r, 1, n)
  BY <1>2, <1>3 DEF Trim
<1> HIDE DEF n
<1>6. /\ t \in Seq(S) /\ Len(t) = n /\ DOMAIN t = 1 .. n
      /\ \A k \in 1 .. n : t[k] = IF k = i THEN s[n + 1] ELSE s[k]
  BY <1>1, <1>4, <1>5
<1>7. h \in Bijection((1 .. n + 1) \ {i}, 1 .. n)
  <2>1. h \in [(1 .. n + 1) \ {i} -> 1 .. n]
    BY <1>1
  <2>2. \A j, k \in (1 .. n + 1) \ {i} : h[j] = h[k] => j = k
    BY <1>1
  <2>3. ASSUME NEW m \in 1 .. n PROVE \E k \in (1 .. n + 1) \ {i} : h[k] = m
    <3>1. CASE m = i
      <4>1. n + 1 \in (1 .. n + 1) \ {i} /\ h[n + 1] = m
        BY <1>1, <3>1
      <4> QED BY <4>1
    <3>2. CASE m # i
      <4>1. m \in (1 .. n + 1) \ {i} /\ h[m] = m
        BY <1>1, <3>2
      <4> QED BY <4>1
    <3> QED BY <3>1, <3>2
  <2> QED BY <2>1, <2>2, <2>3 DEF Bijection, Injection, Surjection, IsInjective
<1>8. \A k \in (1 .. n + 1) \ {i} : s[k] = t[h[k]]
  <2> TAKE k \in (1 .. n + 1) \ {i}
  <2>1. CASE k = n + 1
    <3>1. i \in 1 .. n /\ h[k] = i
      BY <1>1, <2>1
    <3> QED BY <1>6, <2>1, <3>1
  <2>2. CASE k # n + 1
    <3>1. k \in 1 .. n /\ k # i /\ h[k] = k
      BY <1>1, <2>2
    <3> QED BY <1>6, <3>1
  <2> QED BY <2>1, <2>2
<1>9. OneMore(t, s, i, h) /\ i \in DOMAIN s
  BY <1>1, <1>6, <1>7, <1>8 DEF OneMore
<1>10. \A x : Times(s, x) = Times(t, x) + One(s[i] = x)
  BY <1>6, <1>9, TimesMore
<1> QED BY <1>1, <1>2, <1>6, <1>10 DEF n

\* The bags of two differences are the same if the differences are, item by item.
LEMMA SameDifference ==
  ASSUME NEW S, NEW a \in Seq(S), NEW b \in Seq(S), NEW c \in Seq(S), NEW d \in Seq(S),
         \A x \in S : Times(a, x) - Times(b, x) = Times(c, x) - Times(d, x)
  PROVE  ToBag(a) (-) ToBag(b) = ToBag(c) (-) ToBag(d)
<1> DEFINE M(u, v) == [e \in {x \in S : Times(u, x) - Times(v, x) > 0}
                         |-> Times(u, e) - Times(v, e)]
<1>1. ASSUME NEW u \in Seq(S), NEW v \in Seq(S)
      PROVE  ToBag(u) (-) ToBag(v) = M(u, v)
  <2>1. \A x : /\ Times(u, x) \in Nat /\ Times(v, x) \in Nat
               /\ Times(u, x) = 0 <=> x \notin Range(u)
               /\ Times(v, x) = 0 <=> x \notin Range(v)
    <3> TAKE x
    <3>1. /\ Times(u, x) \in Nat /\ (Times(u, x) = 0 <=> \A i \in DOMAIN u : u[i] # x)
          /\ Times(v, x) \in Nat /\ (Times(v, x) = 0 <=> \A i \in DOMAIN v : v[i] # x)
      BY TimesType
    <3> QED BY <3>1 DEF Range
  <2>2. ToBag(u) = [x \in Range(u) |-> Times(u, x)] /\ ToBag(v) = [x \in Range(v) |-> Times(v, x)]
    BY DEF ToBag, Times
  <2>3. PICK B : B = [e \in DOMAIN ToBag(u) |->
                        IF e \in DOMAIN ToBag(v) THEN ToBag(u)[e] - ToBag(v)[e] ELSE ToBag(u)[e]]
    OBVIOUS
  <2>4. ToBag(u) (-) ToBag(v) = [e \in {x \in DOMAIN B : B[x] > 0} |-> B[e]]
    BY <2>3 DEF (-)
  <2>5. DOMAIN B = Range(u) /\ \A e \in Range(u) : B[e] = Times(u, e) - Times(v, e)
    BY <2>1, <2>2, <2>3
  <2>6. Range(u) \subseteq S
    BY DEF Range
  <2>7. {x \in DOMAIN B : B[x] > 0} = {x \in S : Times(u, x) - Times(v, x) > 0}
    BY <2>1, <2>5, <2>6
  <2> QED BY <2>4, <2>5, <2>7
<1>2. M(a, b) = M(c, d)
  OBVIOUS
<1> HIDE DEF M
<1>3. ToBag(a) (-) ToBag(b) = M(a, b)
  BY <1>1
<1>4. ToBag(c) (-) ToBag(d) = M(c, d)
  BY <1>1
<1> QED BY <1>2, <1>3, <1>4

\* Two orders of the same items.
LEMMA SameBag ==
  ASSUME NEW S, NEW a \in Seq(S), NEW b \in Seq(S), ToBag(a) = ToBag(b), NEW x
  PROVE  Times(a, x) = Times(b, x)
<1>1. /\ ToBag(a) = [y \in Range(a) |-> Times(a, y)]
      /\ ToBag(b) = [y \in Range(b) |-> Times(b, y)]
  BY DEF ToBag, Times
<1>2. Range(a) = Range(b) /\ (x \in Range(a) => Times(a, x) = Times(b, x))
  BY <1>1
<1>3. /\ Times(a, x) = 0 <=> \A i \in DOMAIN a : a[i] # x
      /\ Times(b, x) = 0 <=> \A i \in DOMAIN b : b[i] # x
  BY TimesType
<1> QED BY <1>2, <1>3 DEF Range
-----------------------------------------------------------------------------
(* The reconciliation of GetSnapshot *)

Record ==
  [live : {TRUE}, items : Seq(Items), ins : Seq(Items), del : Seq(Items), next : Pointer]

\* s came of r by turns of the loop that had k deleted items left to go: those
\* behind are not inserted items as well, and every item is still inserted as
\* much more often than it is deleted.
Reconciling(r, s, k) ==
  /\ s \in Record /\ s.items = r.items /\ s.next = r.next
  /\ k \in Nat /\ k <= Len(s.del)
  /\ \A j \in 1 .. Len(s.del) : j > k => \A i \in DOMAIN s.ins : s.ins[i] # s.del[j]
  /\ \A x : Times(s.ins, x) - Times(s.del, x) = Times(r.ins, x) - Times(r.del, x)

\* The search of TrimFromInserted.
LEMMA FirstIs ==
  ASSUME NEW S, NEW s \in Seq(S), NEW v, \E j \in DOMAIN s : s[j] = v
  PROVE  /\ SelectInSeq(s, LAMBDA x : x = v) \in 1 .. Len(s)
         /\ s[SelectInSeq(s, LAMBDA x : x = v)] = v
<1> DEFINE T == {i \in 1 .. Len(s) : s[i] = v}
<1>1. T \subseteq Nat /\ T # {} /\ T \subseteq 1 .. Len(s)
  OBVIOUS
<1>2. \A i \in T : i \in 1 .. Len(s) /\ s[i] = v
  OBVIOUS
<1>3. SelectInSeq(s, LAMBDA x : x = v) = IF T # {} THEN Min(T) ELSE 0
  BY DEF SelectInSeq
<1> HIDE DEF T
<1>4. PICK x \in T : \A y \in T : ~(<<y, x>> \in OpToRel(<, Nat))
  BY <1>1, NatLessThanWellFounded, WFMin
<1>5. \A y \in T : x <= y
  <2>1. \A y \in T : ~(y < x)
    BY <1>1, <1>4 DEF OpToRel
  <2>2. x \in Nat /\ \A y \in T : y \in Nat
    BY <1>1
  <2> QED BY <2>1, <2>2
<1>6. Min(T) \in T
  BY <1>5 DEF Min
<1> QED BY <1>1, <1>2, <1>3, <1>6

\* One turn of the loop.
LEMMA CancelTurn ==
  ASSUME NEW r \in Record, NEW s, NEW k \in Nat, Reconciling(r, s, k + 1)
  PROVE  Reconciling(r, CancelAt(s, k + 1), k)
<1> DEFINE i == k + 1
           v == s.del[i]
           t == CancelAt(s, i)
<1>1. /\ s \in Record /\ s.ins \in Seq(Items) /\ s.del \in Seq(Items)
      /\ s.items = r.items /\ s.next = r.next /\ i <= Len(s.del) /\ i \in Nat
      /\ i \in 1 .. Len(s.del) /\ k = i - 1
  <2>1. s \in Record /\ s.items = r.items /\ s.next = r.next /\ i <= Len(s.del)
    BY DEF Reconciling
  <2>2. s.ins \in Seq(Items) /\ s.del \in Seq(Items)
    BY <2>1 DEF Record
  <2>3. PICK l : l = Len(s.del)
    OBVIOUS
  <2>4. l \in Nat
    BY <2>2, <2>3
  <2>5. i \in 1 .. l /\ i \in Nat /\ k = i - 1
    BY <2>1, <2>3, <2>4
  <2> QED BY <2>1, <2>2, <2>3, <2>5
<1>2. /\ \A j \in 1 .. Len(s.del) : j > i => \A m \in DOMAIN s.ins : s.ins[m] # s.del[j]
      /\ \A x : Times(s.ins, x) - Times(s.del, x) = Times(r.ins, x) - Times(r.del, x)
  BY DEF Reconciling
<1>3. CASE ~ \E j \in DOMAIN s.ins : s.ins[j] = v
  <2>1. t = s
    BY <1>3 DEF CancelAt
  <2>2. \A j \in 1 .. Len(s.del) : j > k => \A m \in DOMAIN s.ins : s.ins[m] # s.del[j]
    <3> TAKE j \in 1 .. Len(s.del)
    <3>1. j > k => j > i \/ j = i
      BY <1>1
    <3> QED BY <1>2, <1>3, <3>1
  <2>3. k <= Len(s.del)
    BY <1>1
  <2> QED BY <1>1, <1>2, <2>1, <2>2, <2>3 DEF Reconciling
<1>4. CASE \E j \in DOMAIN s.ins : s.ins[j] = v
  <2>1. PICK g : g = SelectInSeq(s.ins, LAMBDA x : x = v)
    OBVIOUS
  <2>2. g \in 1 .. Len(s.ins) /\ s.ins[g] = v
    BY <1>1, <1>4, <2>1, FirstIs
  <2>3. PICK p, q : p = Trim(s.ins, g) /\ q = Trim(s.del, i)
    OBVIOUS
  <2>4. t = [s EXCEPT !.ins = p, !.del = q]
    BY <1>4, <2>1, <2>3 DEF CancelAt
  <2>5. /\ p \in Seq(Items) /\ Len(p) = Len(s.ins) - 1
        /\ \A m \in 1 .. Len(s.ins) - 1 : p[m] = IF m = g THEN s.ins[Len(s.ins)] ELSE s.ins[m]
        /\ \A x : Times(s.ins, x) = Times(p, x) + One(s.ins[g] = x)
    <3>1. PICK a \in Seq(Items) : a = s.ins
      BY <1>1
    <3>2. g \in 1 .. Len(a) /\ p = Trim(a, g)
      BY <2>2, <2>3, <3>1
    <3>3. /\ p \in Seq(Items) /\ Len(p) = Len(a) - 1
          /\ \A m \in 1 .. Len(a) - 1 : p[m] = IF m = g THEN a[Len(a)] ELSE a[m]
          /\ \A x : Times(a, x) = Times(p, x) + One(a[g] = x)
      BY <3>2, TrimIs
    <3> QED BY <3>1, <3>3
  <2>6. /\ q \in Seq(Items) /\ Len(q) = Len(s.del) - 1
        /\ \A m \in 1 .. Len(s.del) - 1 : q[m] = IF m = i THEN s.del[Len(s.del)] ELSE s.del[m]
        /\ \A x : Times(s.del, x) = Times(q, x) + One(s.del[i] = x)
    <3>1. PICK b \in Seq(Items) : b = s.del
      BY <1>1
    <3>2. i \in 1 .. Len(b) /\ q = Trim(b, i)
      BY <1>1, <2>3, <3>1
    <3> HIDE DEF i
    <3>3. /\ q \in Seq(Items) /\ Len(q) = Len(b) - 1
          /\ \A m \in 1 .. Len(b) - 1 : q[m] = IF m = i THEN b[Len(b)] ELSE b[m]
          /\ \A x : Times(b, x) = Times(q, x) + One(b[i] = x)
      BY <3>2, TrimIs
    <3> QED BY <3>1, <3>3
  <2>7. /\ t \in Record /\ t.ins = p /\ t.del = q /\ t.items = s.items /\ t.next = s.next
    BY <1>1, <2>4, <2>5, <2>6 DEF Record
  <2>8. \A m \in DOMAIN p : \E h \in DOMAIN s.ins : p[m] = s.ins[h]
    <3> TAKE m \in DOMAIN p
    <3>1. m \in 1 .. Len(s.ins) - 1 /\ m \in DOMAIN s.ins /\ Len(s.ins) \in DOMAIN s.ins
      BY <1>1, <2>2, <2>5
    <3> QED BY <2>5, <3>1
  <2>9. \A j \in 1 .. Len(q) : j > k => \A m \in DOMAIN p : p[m] # q[j]
    <3> SUFFICES ASSUME NEW j \in 1 .. Len(q), j > k
        PROVE  \E h \in 1 .. Len(s.del) : h > i /\ q[j] = s.del[h]
      BY <1>2, <2>8
    <3>1. j \in 1 .. Len(s.del) - 1 /\ Len(s.del) \in 1 .. Len(s.del)
      BY <1>1, <2>6
    <3>2. CASE j = i
      <4>1. Len(s.del) > i
        BY <1>1, <3>1, <3>2
      <4> QED BY <2>6, <3>1, <3>2, <4>1
    <3>3. CASE j # i
      <4>1. j > i /\ j \in 1 .. Len(s.del)
        BY <1>1, <3>1, <3>3
      <4> QED BY <2>6, <3>1, <3>3, <4>1
    <3> QED BY <3>2, <3>3
  <2>10. \A x : Times(p, x) - Times(q, x) = Times(r.ins, x) - Times(r.del, x)
    <3> TAKE x
    <3>1. /\ Times(s.ins, x) = Times(p, x) + One(v = x)
          /\ Times(s.del, x) = Times(q, x) + One(v = x)
          /\ Times(s.ins, x) - Times(s.del, x) = Times(r.ins, x) - Times(r.del, x)
      BY <1>2, <2>2, <2>5, <2>6
    <3>2. Times(p, x) \in Nat /\ Times(q, x) \in Nat /\ One(v = x) \in Nat
      BY <2>5, <2>6, TimesType DEF One
    <3> QED BY <3>1, <3>2
  <2>11. k <= Len(q)
    BY <1>1, <2>6
  <2> QED BY <1>1, <2>7, <2>9, <2>10, <2>11 DEF Reconciling
<1> QED BY <1>3, <1>4

\* The whole loop: nothing is left in both lists, and neither the items nor the
\* difference of the lists changes.
LEMMA CancelIs ==
  ASSUME NEW r \in Record
  PROVE  Reconciling(r, Cancel(r), 0)
<1> DEFINE n == Len(r.del)
           Turns(m, f) ==
             f = [k \in 0 .. m |-> IF k = 0 THEN r ELSE CancelAt(f[k - 1], n + 1 - k)]
<1>1. n \in Nat
  BY DEF Record
<1> HIDE DEF n
<1>2. \A m \in 0 .. n : \E f : Turns(m, f)
  <2> DEFINE T == {m \in 1 .. n + 1 : \E f : Turns(m - 1, f)}
  <2>1. 1 \in T
    <3>1. Turns(0, [k \in 0 .. 0 |-> r])
      BY DEF Turns
    <3>2. 1 \in 1 .. n + 1 /\ 1 - 1 = 0
      BY <1>1
    <3> QED BY <3>1, <3>2
  <2>2. ASSUME NEW m \in 1 .. n, m \in T PROVE m + 1 \in T
    <3>1. PICK f : Turns(m - 1, f)
      BY <2>2
    <3> DEFINE g == [k \in 0 .. m |-> IF k = m THEN CancelAt(f[m - 1], n + 1 - m) ELSE f[k]]
    <3>2. ASSUME NEW k \in 0 .. m
          PROVE  g[k] = IF k = 0 THEN r ELSE CancelAt(g[k - 1], n + 1 - k)
      <4>1. CASE k = 0
        <5>1. k # m /\ 0 \in 0 .. m - 1
          BY <1>1, <4>1
        <5>2. f[0] = r
          BY <3>1, <5>1 DEF Turns
        <5> QED BY <4>1, <5>1, <5>2
      <4>2. CASE k = m
        <5>1. k - 1 # m /\ k - 1 \in 0 .. m /\ k # 0
          BY <1>1, <4>2
        <5> QED BY <4>2, <5>1
      <4>3. CASE k # 0 /\ k # m
        <5>1. k \in 0 .. m - 1 /\ k - 1 \in 0 .. m /\ k - 1 # m
          BY <1>1, <4>3
        <5>2. f[k] = CancelAt(f[k - 1], n + 1 - k)
          BY <3>1, <4>3, <5>1 DEF Turns
        <5> QED BY <4>3, <5>1, <5>2
      <4> QED BY <4>1, <4>2, <4>3
    <3>3. g = [k \in 0 .. m |-> g[k]]
      OBVIOUS
    <3> HIDE DEF g
    <3>4. Turns(m, g)
      BY <3>2, <3>3 DEF Turns
    <3>5. m + 1 \in 1 .. n + 1 /\ (m + 1) - 1 = m
      BY <1>1
    <3> QED BY <3>4, <3>5
  <2>3. 1 .. n + 1 \subseteq T
    <3>1. PICK N \in Nat : N = n + 1
      BY <1>1
    <3>2. N - 1 = n
      BY <1>1, <3>1
    <3> HIDE DEF T
    <3> QED BY <2>1, <2>2, <3>1, <3>2, UpTo
  <2> TAKE m \in 0 .. n
  <2>4. m + 1 \in 1 .. n + 1 /\ (m + 1) - 1 = m
    BY <1>1
  <2>5. m + 1 \in T
    BY <2>3, <2>4
  <2> QED BY <2>4, <2>5
<1>3. PICK f : f = CHOOSE g : Turns(n, g)
  OBVIOUS
<1>4. Turns(n, f)
  <2>1. n \in 0 .. n
    BY <1>1
  <2>2. \E g : Turns(n, g)
    BY <1>2, <2>1
  <2> QED BY <1>3, <2>2
<1>5. Cancel(r) = f[n]
  BY <1>3 DEF Cancel, n
<1>6. f[0] = r
  BY <1>1, <1>4 DEF Turns
<1>9. \A k \in 1 .. n : f[k] = CancelAt(f[k - 1], (n + 1) - k)
  BY <1>1, <1>4 DEF Turns
<1> HIDE DEF Turns
<1>7. \A k \in 0 .. n : Reconciling(r, f[k], n - k)
  <2> DEFINE T == {m \in 1 .. n + 1 : Reconciling(r, f[m - 1], (n + 1) - m)}
  <2>1. 1 \in T
    <3>1. /\ r \in Record /\ n \in Nat /\ n <= Len(r.del)
          /\ \A j \in 1 .. Len(r.del) : ~(j > n)
      BY <1>1 DEF n
    <3>2. Reconciling(r, r, n)
      BY <3>1 DEF Reconciling
    <3>3. 1 \in 1 .. n + 1 /\ 1 - 1 = 0 /\ (n + 1) - 1 = n
      BY <1>1
    <3> QED BY <1>6, <3>2, <3>3
  <2>2. ASSUME NEW m \in 1 .. n, m \in T PROVE m + 1 \in T
    <3>1. PICK k \in Nat : k = n - m
      BY <1>1
    <3>2. /\ (n + 1) - m = k + 1 /\ m + 1 \in 1 .. n + 1 /\ (m + 1) - 1 = m
          /\ (n + 1) - (m + 1) = k
      BY <1>1, <3>1
    <3>3. Reconciling(r, f[m - 1], k + 1)
      BY <2>2, <3>2
    <3>4. Reconciling(r, CancelAt(f[m - 1], k + 1), k)
      BY <3>3, CancelTurn
    <3>5. f[m] = CancelAt(f[m - 1], (n + 1) - m)
      BY <1>9
    <3>6. f[m] = CancelAt(f[m - 1], k + 1)
      BY <3>2, <3>5
    <3> QED BY <3>2, <3>4, <3>6
  <2>3. 1 .. n + 1 \subseteq T
    <3>1. PICK N \in Nat : N = n + 1
      BY <1>1
    <3>2. N - 1 = n
      BY <1>1, <3>1
    <3> HIDE DEF T
    <3> QED BY <2>1, <2>2, <3>1, <3>2, UpTo
  <2> TAKE k \in 0 .. n
  <2>4. k + 1 \in 1 .. n + 1 /\ (k + 1) - 1 = k /\ (n + 1) - (k + 1) = n - k
    BY <1>1
  <2>5. k + 1 \in T
    BY <2>3, <2>4
  <2> QED BY <2>4, <2>5
<1>8. n \in 0 .. n /\ n - n = 0
  BY <1>1
<1> QED BY <1>5, <1>7, <1>8
-----------------------------------------------------------------------------
(* The invariant *)

Heaps == [Snaps -> Record \union {Free}]
Backs == Chain(retired)
Held == {current, pending, taken, new} \ {NULL}

\* r reports no item as both inserted and deleted.
Apart(r) == \A i \in DOMAIN r.ins, j \in DOMAIN r.del : r.ins[i] # r.del[j]

Types ==
  /\ heap \in Heaps /\ current \in Snaps
  /\ pending \in Pointer /\ retired \in Pointer /\ base \in Pointer
  /\ new \in Pointer /\ taken \in Pointer /\ top \in Pointer
  /\ data \in Seq(Items) /\ ins \in Seq(Items) /\ del \in Seq(Items)
  /\ depth \in 0 .. MaxDepth /\ dirty \in BOOLEAN
  /\ wpc \in {"idle", "peek", "load", "build", "cas", "reclaim", "set"}
  /\ rpc \in {"idle", "reconcile", "retired", "push"}

\* What m_retired holds is a list.
Linked == ListOf(Snaps, NULL, nexts, retired, Backs)

\* What is allocated is handed back or held by one of the four other pointers,
\* and not by two.
Owners ==
  /\ current \in Live /\ Live = Held \union Backs /\ Held \cap Backs = {}
  /\ current \notin {pending, taken, new}
  /\ pending # NULL => pending \notin {taken, new}
  /\ taken # NULL => taken # new

\* What each of the two threads knows at the place it is at.
Places ==
  /\ rpc = "idle" <=> taken = NULL
  /\ rpc = "push" => heap[current].next = top /\ retired \in {top, NULL}
  /\ new # NULL <=> wpc \in {"cas", "reclaim", "set"}
  /\ wpc \in {"load", "build", "cas", "reclaim", "set"} => depth = 0
  /\ wpc = "peek" => depth > 0 /\ base = NULL
  /\ wpc = "idle" /\ depth = 0 => base = NULL
  /\ wpc \in {"build", "cas"} \/ depth > 0 => base \in Live \union {NULL}
  /\ wpc \in {"build", "cas"} \/ (depth > 0 /\ wpc = "idle") => pending \in {base, NULL}
  /\ wpc \in {"reclaim", "set"} => pending = NULL

\* Between ReclaimRetired and the next BuildSnapshot the reader hands back at
\* most one snapshot, for which it has taken the pending one.
Few == wpc \in {"peek", "load", "build"} \/ depth > 0 => Cardinality(Live) <= 3

\* Reconciliation is over when the reader turns to m_retired.
Rec == Apart(heap[current]) /\ (rpc \in {"retired", "push"} => Apart(heap[taken]))

CowInv == Types /\ Linked /\ Owners /\ Places /\ Few /\ Rec
-----------------------------------------------------------------------------
(* The heap *)

\* Free is no snapshot.
LEMMA Alive ==
  ASSUME NEW h \in Heaps, NEW a \in Snaps
  PROVE  /\ h[a].live <=> h[a] \in Record
         /\ h[a] \in Record \/ h[a] = Free
         /\ h[a] \in Record => /\ h[a].items \in Seq(Items) /\ h[a].ins \in Seq(Items)
                               /\ h[a].del \in Seq(Items) /\ h[a].next \in Pointer
<1>1. h[a] \in Record \/ h[a] = Free
  BY DEF Heaps
<1>2. CASE h[a] \in Record
  BY <1>2 DEF Record
<1>3. CASE h[a] = Free
  <2>1. h[a].live = FALSE
    BY <1>3 DEF Free
  <2>2. h[a] \notin Record
    BY <2>1 DEF Record
  <2> QED BY <1>3, <2>1, <2>2
<1> QED BY <1>1, <1>2, <1>3

\* A new snapshot.
LEMMA SnapshotIs ==
  ASSUME NEW s \in Seq(Items), NEW i \in Seq(Items), NEW d \in Seq(Items)
  PROVE  /\ Snapshot(s, i, d) \in Record
         /\ Snapshot(s, i, d).items = s /\ Snapshot(s, i, d).ins = i
         /\ Snapshot(s, i, d).del = d /\ Snapshot(s, i, d).next = NULL
BY DEF Snapshot, Record, Pointer

\* What is allocated, and its links, before and after a step.
LEMMA LiveNow ==
  ASSUME Types
  PROVE  /\ Live \subseteq Snaps
         /\ \A a \in Snaps : a \in Live <=> heap[a] \in Record
         /\ \A a \in Live : nexts[a] = heap[a].next
BY Alive DEF Types, Live, nexts

LEMMA LiveNext ==
  ASSUME heap' \in Heaps
  PROVE  /\ Live' \subseteq Snaps
         /\ \A a \in Snaps : a \in Live' <=> heap'[a] \in Record
         /\ \A a \in Live' : nexts'[a] = heap'[a].next
BY Alive DEF Live, nexts

\* Chain is the walk of LinkedLists.
LEMMA ChainFollow ==
  /\ Backs = LET f == Follow(Snaps, NULL, nexts, retired)
             IN  {f[k] : k \in DOMAIN f} \ {NULL}
  /\ Backs' = LET f == Follow(Snaps, NULL, nexts', retired')
              IN  {f[k] : k \in DOMAIN f} \ {NULL}
BY DEF Backs, Chain, Follow

\* What is handed back is the list of m_retired, before and after a step.
LEMMA BacksNow ==
  ASSUME NEW S, ListOf(Snaps, NULL, nexts, retired, S)
  PROVE  Backs = S /\ Linked
<1>1. PICK f : f = Follow(Snaps, NULL, nexts, retired)
  OBVIOUS
<1>2. {f[k] : k \in DOMAIN f} \ {NULL} = S
  BY <1>1, CowAssumption, ListWalk
<1>3. Backs = S
  BY <1>1, <1>2, ChainFollow
<1> QED BY <1>3 DEF Linked

LEMMA BacksNext ==
  ASSUME NEW S, ListOf(Snaps, NULL, nexts', retired', S)
  PROVE  Backs' = S /\ Linked'
<1>1. PICK f : f = Follow(Snaps, NULL, nexts', retired')
  OBVIOUS
<1>2. {f[k] : k \in DOMAIN f} \ {NULL} = S
  BY <1>1, CowAssumption, ListWalk
<1>3. Backs' = S
  BY <1>1, <1>2, ChainFollow
<1> QED BY <1>3 DEF Linked

\* The links of the snapshots handed back are those of the heap.
LEMMA BacksKept ==
  ASSUME CowInv, heap' \in Heaps, retired' = retired, Backs \subseteq Live',
         \A a \in Backs : heap'[a].next = heap[a].next
  PROVE  Backs' = Backs /\ Linked'
<1>1. ListOf(Snaps, NULL, nexts, retired, Backs)
  BY DEF CowInv, Linked
<1>2. Backs \subseteq Live
  BY DEF CowInv, Owners
<1>3. \A a \in Backs : nexts'[a] = nexts[a]
  BY <1>2, LiveNow, LiveNext DEF CowInv
<1>4. ListOf(Snaps, NULL, nexts', retired, Backs)
  BY <1>1, <1>3, ListKept
<1> QED BY <1>4, BacksNext

\* No list is left.
LEMMA BacksGone ==
  ASSUME retired' = NULL
  PROVE  Backs' = {} /\ Linked'
<1>1. ListOf(Snaps, NULL, nexts', retired', {})
  BY ListNone
<1> QED BY <1>1, BacksNext

\* The snapshots of S are deleted.
LEMMA Freed ==
  ASSUME Types, NEW S, heap' = Without(S)
  PROVE  /\ heap' \in Heaps /\ Live' = Live \ S
         /\ \A a \in Snaps \ S : heap'[a] = heap[a]
<1>1. heap' \in Heaps
  BY DEF Without, Types, Heaps
<1>2. \A a \in Snaps : heap'[a] = IF a \in S THEN Free ELSE heap[a]
  BY DEF Without
<1>3. \A a \in Snaps : a \in Live' <=> a \in Live /\ a \notin S
  <2> TAKE a \in Snaps
  <2>1. (a \in Live <=> heap[a].live) /\ (a \in Live' <=> heap'[a].live)
    BY DEF Live
  <2>2. a \in S => heap'[a].live = FALSE
    BY <1>2 DEF Free
  <2> QED BY <1>2, <2>1, <2>2
<1>4. Live \subseteq Snaps /\ Live' \subseteq Snaps
  BY DEF Live
<1> QED BY <1>1, <1>2, <1>3, <1>4

\* The snapshots of S are deleted, and then one is written.
LEMMA Written ==
  ASSUME Types, NEW S, NEW a \in Snaps, NEW r \in Record,
         heap' = [Without(S) EXCEPT ![a] = r]
  PROVE  /\ heap' \in Heaps /\ Live' = (Live \ S) \union {a} /\ heap'[a] = r
         /\ \A b \in Snaps \ (S \union {a}) : heap'[b] = heap[b]
<1>1. heap' \in Heaps
  BY DEF Without, Types, Heaps
<1>2. \A b \in Snaps : heap'[b] = IF b = a THEN r ELSE IF b \in S THEN Free ELSE heap[b]
  BY DEF Without
<1>3. \A b \in Snaps : b \in Live' <=> b = a \/ (b \in Live /\ b \notin S)
  <2> TAKE b \in Snaps
  <2>1. (b \in Live <=> heap[b].live) /\ (b \in Live' <=> heap'[b].live)
    BY DEF Live
  <2>2. Free.live = FALSE /\ r.live = TRUE
    BY DEF Free, Record
  <2> QED BY <1>2, <2>1, <2>2
<1>4. Live \subseteq Snaps /\ Live' \subseteq Snaps
  BY DEF Live
<1> QED BY <1>1, <1>2, <1>3, <1>4

\* One snapshot is written and none deleted.
LEMMA WrittenOne ==
  ASSUME Types, NEW a \in Snaps, NEW r \in Record, heap' = [heap EXCEPT ![a] = r]
  PROVE  /\ heap' \in Heaps /\ Live' = Live \union {a} /\ heap'[a] = r
         /\ \A b \in Snaps \ {a} : heap'[b] = heap[b]
<1>0. PICK S : S = {}
  OBVIOUS
<1>1. heap = Without(S)
  BY <1>0 DEF Without, Types, Heaps
<1>2. heap' = [Without(S) EXCEPT ![a] = r]
  BY <1>1
<1>3. /\ heap' \in Heaps /\ Live' = (Live \ S) \union {a} /\ heap'[a] = r
      /\ \A b \in Snaps \ (S \union {a}) : heap'[b] = heap[b]
  BY <1>2, Written
<1> QED BY <1>0, <1>3

\* One snapshot is deleted.
LEMMA FreedOne ==
  ASSUME Types, NEW a \in Snaps, heap' = [heap EXCEPT ![a] = Free]
  PROVE  /\ heap' \in Heaps /\ Live' = Live \ {a}
         /\ \A b \in Snaps \ {a} : heap'[b] = heap[b]
<1>1. heap' = Without({a})
  BY DEF Without, Types, Heaps
<1> QED BY <1>1, Freed

\* Three pointers hold at most three snapshots.
LEMMA Three ==
  ASSUME NEW a, NEW b, NEW c
  PROVE  IsFiniteSet({a, b, c}) /\ Cardinality({a, b, c}) <= 3
<1>1. IsFiniteSet({a}) /\ Cardinality({a}) = 1
  BY FS_Singleton
<1>2. /\ IsFiniteSet({a} \union {b})
      /\ Cardinality({a} \union {b}) = IF b \in {a} THEN 1 ELSE 2
  BY <1>1, FS_AddElement
<1>3. /\ IsFiniteSet(({a} \union {b}) \union {c})
      /\ Cardinality(({a} \union {b}) \union {c}) <= 3
  BY <1>2, FS_AddElement
<1>4. ({a} \union {b}) \union {c} = {a, b, c}
  OBVIOUS
<1> QED BY <1>3, <1>4
-----------------------------------------------------------------------------
(* The steps that neither allocate nor free *)

\* Neither the snapshots nor their owners change.
LEMMA SameOwners ==
  ASSUME CowInv, UNCHANGED <<heap, pending, retired, current, taken, new>>
  PROVE  /\ Live' = Live /\ Backs' = Backs /\ Linked' /\ Owners'
         /\ UNCHANGED <<rpc, top>> => Rec'
<1>1. heap' \in Heaps /\ Live' = Live /\ Backs \subseteq Live
  BY DEF CowInv, Types, Owners, Live
<1>2. Backs' = Backs /\ Linked'
  BY <1>1, BacksKept
<1>3. Owners'
  BY <1>1, <1>2 DEF CowInv, Owners, Held
<1>4. UNCHANGED <<rpc, top>> => Rec'
  BY DEF CowInv, Rec, Apart
<1> QED BY <1>1, <1>2, <1>3, <1>4

LEMMA LoadPendingStep ==
  ASSUME CowInv, LoadPending
  PROVE  CowInv'
<1>1. /\ Live' = Live /\ Backs' = Backs /\ Linked' /\ Owners' /\ Rec'
  BY SameOwners DEF LoadPending, reader
<1>2. Types'
  BY DEF CowInv, LoadPending, reader, Types
<1>3. pending \in Live \union {NULL}
  BY DEF CowInv, Owners, Held
<1>4. Places'
  BY <1>1, <1>3 DEF CowInv, LoadPending, reader, Places
<1>5. Few'
  BY <1>1 DEF CowInv, LoadPending, Few
<1> QED BY <1>1, <1>2, <1>4, <1>5 DEF CowInv

LEMMA PeekPendingStep ==
  ASSUME CowInv, PeekPending
  PROVE  CowInv'
<1>1. /\ Live' = Live /\ Backs' = Backs /\ Linked' /\ Owners' /\ Rec'
  BY SameOwners DEF PeekPending, reader
<1>2. Types'
  BY DEF CowInv, PeekPending, reader, Types
<1>3. pending \in Live \union {NULL}
  BY DEF CowInv, Owners, Held
<1>4. depth > 0
  BY DEF CowInv, Places, PeekPending
<1>5. Places'
  BY <1>1, <1>3, <1>4 DEF CowInv, Types, PeekPending, reader, Places
<1>6. Few'
  BY <1>1 DEF CowInv, PeekPending, Few
<1> QED BY <1>1, <1>2, <1>5, <1>6 DEF CowInv

\* What an edit leaves, and what it says came and went.
LEMMA EditIs ==
  ASSUME Types, NEW e \in Edits
  PROVE  /\ e.data \in Seq(Items) /\ e.ins \in Seq(Items) /\ e.del \in Seq(Items)
         /\ \A x : Times(e.data, x) - Times(data, x) = Times(e.ins, x) - Times(e.del, x)
<1>1. PICK d \in Seq(Items) : d = data
  BY DEF Types
<1>2. \A x : Times(<<>>, x) = 0
  BY TimesNone
<1>3. \A v : \A x : Times(<<v>>, x) = One(v = x)
  BY TimesOne
<1>4. \A x : Times(d, x) \in Nat /\ One(x) \in Nat
  BY TimesType DEF One
<1>5. CASE e \in Inserts
  <2> DEFINE f(p, v) == Edit(InsertAt(data, p, v), <<v>>, <<>>)
  <2>0. Inserts = IF Len(data) = MaxLen THEN {}
                  ELSE {f(p, v) : p \in 1 .. Len(data) + 1, v \in Items}
    BY SMT DEF Inserts
  <2>7. \E p \in 1 .. Len(data) + 1, v \in Items : e = f(p, v)
    <3> HIDE DEF f
    <3> QED BY <1>5, <2>0
  <2>1. PICK p \in 1 .. Len(d) + 1, v \in Items : e = Edit(InsertAt(d, p, v), <<v>>, <<>>)
    BY <1>1, <2>7
  <2>2. PICK t : t = InsertAt(d, p, v)
    OBVIOUS
  <2>3. e.data = t /\ e.ins = <<v>> /\ e.del = <<>>
    BY <2>1, <2>2 DEF Edit
  <2>4. t \in Seq(Items) /\ \A x : Times(t, x) = Times(d, x) + One(v = x)
    BY <2>2, InsertIs
  <2>5. \A x : Times(t, x) - Times(d, x) = Times(<<v>>, x) - Times(<<>>, x)
    BY <1>2, <1>3, <1>4, <2>4
  <2>6. <<>> \in Seq(Items) /\ <<v>> \in Seq(Items)
    OBVIOUS
  <2> QED BY <1>1, <2>3, <2>4, <2>5, <2>6
<1>6. CASE e \in Removes
  <2>0. \E p \in DOMAIN data : e = Edit(RemoveAt(data, p), <<>>, <<data[p]>>)
    BY <1>6, Zenon DEF Removes
  <2>7. DOMAIN d = 1 .. Len(d)
    OBVIOUS
  <2>1. PICK p \in 1 .. Len(d) : e = Edit(RemoveAt(d, p), <<>>, <<d[p]>>)
    BY <1>1, <2>0, <2>7
  <2>2. PICK t, v : t = RemoveAt(d, p) /\ v = d[p]
    OBVIOUS
  <2>3. e.data = t /\ e.ins = <<>> /\ e.del = <<v>>
    BY <2>1, <2>2 DEF Edit
  <2>4. t \in Seq(Items) /\ v \in Items /\ \A x : Times(d, x) = Times(t, x) + One(v = x)
    <3>1. v \in Items
      BY <2>2
    <3>2. t \in Seq(Items) /\ \A x : Times(d, x) = Times(t, x) + One(d[p] = x)
      BY <2>2, RemoveIs
    <3> QED BY <2>2, <3>1, <3>2
  <2>5. \A x : Times(t, x) - Times(d, x) = Times(<<>>, x) - Times(<<v>>, x)
    <3>1. \A x : Times(t, x) \in Nat
      BY <2>4, TimesType
    <3> QED BY <1>2, <1>3, <1>4, <2>4, <3>1
  <2>6. <<>> \in Seq(Items) /\ <<v>> \in Seq(Items)
    BY <2>4
  <2> QED BY <1>1, <2>3, <2>4, <2>5, <2>6
<1>7. CASE e \in Moves
  <2>1. PICK p \in 1 .. Len(d), q \in 1 .. Len(d) :
          e = Edit(InsertAt(RemoveAt(d, p), q, d[p]), <<>>, <<>>)
    BY <1>1, <1>7 DEF Moves
  <2>2. PICK t, u, v : t = RemoveAt(d, p) /\ v = d[p] /\ u = InsertAt(t, q, v)
    OBVIOUS
  <2>3. e.data = u /\ e.ins = <<>> /\ e.del = <<>>
    BY <2>1, <2>2 DEF Edit
  <2>4. /\ t \in Seq(Items) /\ Len(t) = Len(d) - 1 /\ v \in Items
        /\ \A x : Times(d, x) = Times(t, x) + One(v = x)
    <3>1. v \in Items
      BY <2>2
    <3>2. /\ t \in Seq(Items) /\ Len(t) = Len(d) - 1
          /\ \A x : Times(d, x) = Times(t, x) + One(d[p] = x)
      BY <2>2, RemoveIs
    <3> QED BY <2>2, <3>1, <3>2
  <2>5. u \in Seq(Items) /\ \A x : Times(u, x) = Times(t, x) + One(v = x)
    <3>1. q \in 1 .. Len(t) + 1
      BY <2>4
    <3> QED BY <2>2, <2>4, <3>1, InsertIs
  <2>6. \A x : Times(u, x) - Times(d, x) = Times(<<>>, x) - Times(<<>>, x)
    BY <1>2, <1>4, <2>4, <2>5
  <2>7. <<>> \in Seq(Items)
    OBVIOUS
  <2> QED BY <1>1, <2>3, <2>5, <2>6, <2>7
<1> QED BY <1>5, <1>6, <1>7 DEF Edits

LEMMA BatchMutateStep ==
  ASSUME CowInv, NEW e \in Edits, BatchMutate(e)
  PROVE  CowInv'
<1>1. /\ Live' = Live /\ Backs' = Backs /\ Linked' /\ Owners' /\ Rec'
  BY SameOwners DEF BatchMutate, reader
<1>2. Types'
  <2>1. e.data \in Seq(Items) /\ ins \o e.ins \in Seq(Items) /\ del \o e.del \in Seq(Items)
    <3>1. PICK i \in Seq(Items), d \in Seq(Items) : i = ins /\ d = del
      BY DEF CowInv, Types
    <3>2. PICK j \in Seq(Items), c \in Seq(Items) :
            j = e.ins /\ c = e.del /\ e.data \in Seq(Items)
      BY EditIs DEF CowInv
    <3> QED BY <3>1, <3>2, ConcatIs
  <2>2. data' \in Seq(Items) /\ ins' \in Seq(Items) /\ del' \in Seq(Items) /\ dirty' = TRUE
    BY <2>1 DEF BatchMutate
  <2> QED BY <2>2 DEF CowInv, BatchMutate, reader, Types
<1>3. Places'
  BY <1>1 DEF CowInv, BatchMutate, reader, Places
<1>4. Few'
  BY <1>1 DEF CowInv, BatchMutate, Few
<1> QED BY <1>1, <1>2, <1>3, <1>4 DEF CowInv

LEMMA SortStep ==
  ASSUME CowInv, NEW d \in Sorts, Sort(d)
  PROVE  CowInv'
<1>1. /\ Live' = Live /\ Backs' = Backs /\ Linked' /\ Owners' /\ Rec'
  BY SameOwners DEF Sort, reader
<1>2. Types'
  <2>1. d \in Seq(Items)
    <3>1. PICK c \in Seq(Items) : c = data
      BY DEF CowInv, Types
    <3>2. DOMAIN c = 1 .. Len(c) /\ Len(c) \in Nat /\ d \in [1 .. Len(c) -> Items]
      BY <3>1 DEF Sorts
    <3> QED BY <3>2, SeqDef
  <2> QED BY <2>1 DEF CowInv, Sort, reader, Types
<1>3. Places'
  BY <1>1 DEF CowInv, Sort, reader, Places
<1>4. Few'
  BY <1>1 DEF CowInv, Sort, Few
<1> QED BY <1>1, <1>2, <1>3, <1>4 DEF CowInv

LEMMA ClearStep ==
  ASSUME CowInv, Clear
  PROVE  CowInv'
<1>1. /\ Live' = Live /\ Backs' = Backs /\ Linked' /\ Owners' /\ Rec'
  BY SameOwners DEF Clear, reader
<1>2. Types'
  BY DEF CowInv, Clear, reader, Types
<1>3. Places'
  BY <1>1 DEF CowInv, Clear, reader, Places
<1>4. Few'
  BY <1>1 DEF CowInv, Clear, Few
<1> QED BY <1>1, <1>2, <1>3, <1>4 DEF CowInv

LEMMA EndUpdateStep ==
  ASSUME CowInv, EndUpdate
  PROVE  CowInv'
<1>0. new = NULL /\ new' = NULL
  BY DEF CowInv, Places, EndUpdate, Done
<1>1. /\ Live' = Live /\ Backs' = Backs /\ Linked' /\ Owners' /\ Rec'
  BY <1>0, SameOwners DEF EndUpdate, reader
<1>2. depth \in Nat /\ depth > 0 /\ depth' = depth - 1 /\ depth' \in 0 .. MaxDepth
  BY CowAssumption DEF CowInv, Types, EndUpdate
<1>3. Types'
  <2>1. <<>> \in Seq(Items) /\ NULL \in Pointer
    BY DEF Pointer
  <2>2. /\ base' \in Pointer /\ new' \in Pointer /\ ins' \in Seq(Items) /\ del' \in Seq(Items)
        /\ dirty' \in BOOLEAN /\ wpc' \in {"idle", "build"}
    BY <2>1 DEF CowInv, Types, EndUpdate, Done
  <2> QED BY <1>2, <2>2 DEF CowInv, EndUpdate, reader, Types
<1>4. Places'
  <2>1. CASE depth > 1
    BY <1>1, <1>2, <2>1 DEF CowInv, EndUpdate, reader, Places
  <2>2. CASE ~(depth > 1) /\ dirty
    BY <1>1, <1>2, <2>2 DEF CowInv, EndUpdate, reader, Places
  <2>3. CASE ~(depth > 1) /\ ~dirty
    BY <1>1, <1>2, <2>3 DEF CowInv, EndUpdate, Done, reader, Places
  <2> QED BY <2>1, <2>2, <2>3
<1>5. Few'
  BY <1>1, <1>2 DEF CowInv, EndUpdate, Few
<1> QED BY <1>1, <1>3, <1>4, <1>5 DEF CowInv
-----------------------------------------------------------------------------
(* The steps that allocate and free *)

\* ReclaimRetired leaves what the other four pointers hold, which is three
\* snapshots at most while the writer is not publishing one.
LEMMA Reclaimed ==
  ASSUME CowInv, ReclaimRetired
  PROVE  /\ heap' \in Heaps /\ Live' = Held /\ Backs' = {} /\ Linked'
         /\ retired' = NULL /\ \A a \in Held : heap'[a] = heap[a]
         /\ new = NULL => Cardinality(Live') <= 3
<1>1. /\ heap' \in Heaps /\ Live' = Live \ Backs
      /\ \A a \in Snaps \ Backs : heap'[a] = heap[a]
  BY Freed DEF CowInv, ReclaimRetired, Backs
<1>2. Live' = Held /\ Held \subseteq Snaps \ Backs
  BY <1>1 DEF CowInv, Owners, Live
<1>3. retired' = NULL
  BY DEF ReclaimRetired
<1>4. Backs' = {} /\ Linked'
  BY <1>3, BacksGone
<1>5. ASSUME new = NULL PROVE Cardinality(Live') <= 3
  <2>1. IsFiniteSet({current, pending, taken}) /\ Cardinality({current, pending, taken}) <= 3
    BY Three
  <2>2. Live' \subseteq {current, pending, taken}
    BY <1>2, <1>5 DEF Held
  <2>3. Cardinality(Live') <= Cardinality({current, pending, taken})
    BY <2>1, <2>2, FS_Subset
  <2>4. Cardinality(Live') \in Nat /\ Cardinality({current, pending, taken}) \in Nat
    BY <2>1, <2>2, FS_Subset, FS_CardinalityType
  <2> QED BY <2>1, <2>3, <2>4
<1> QED BY <1>1, <1>2, <1>3, <1>4, <1>5

LEMMA MutateStep ==
  ASSUME CowInv, NEW e \in Edits, Mutate(e)
  PROVE  CowInv'
<1>0. ReclaimRetired /\ UNCHANGED <<pending, current, depth, dirty, base, new, taken, top, rpc>>
  BY DEF Mutate, reader
<1>1. /\ heap' \in Heaps /\ Live' = Held /\ Backs' = {} /\ Linked'
      /\ retired' = NULL /\ \A a \in Held : heap'[a] = heap[a]
      /\ new = NULL => Cardinality(Live') <= 3
  BY <1>0, Reclaimed
<1>2. current \in Held /\ (taken # NULL => taken \in Held) /\ NULL \notin Held
  BY CowAssumption DEF CowInv, Types, Held
<1>3. Types'
  <2>1. data' \in Seq(Items) /\ ins' \in Seq(Items) /\ del' \in Seq(Items) /\ wpc' = "load"
    BY EditIs DEF CowInv, Mutate
  <2> QED BY <1>0, <1>1, <2>1 DEF CowInv, Types, Pointer
<1>4. Owners'
  BY <1>0, <1>1, <1>2 DEF CowInv, Owners, Held
<1>5. wpc = "idle" /\ depth = 0 /\ wpc' = "load"
  BY DEF Mutate
<1>6. Places'
  BY <1>0, <1>1, <1>2, <1>5 DEF CowInv, Places
<1>7. Few'
  BY <1>0, <1>1, <1>5 DEF CowInv, Few, Places
<1>8. Rec'
  BY <1>0, <1>1, <1>2 DEF CowInv, Rec, Places, Apart
<1> QED BY <1>1, <1>3, <1>4, <1>6, <1>7, <1>8 DEF CowInv

LEMMA StartUpdateStep ==
  ASSUME CowInv, StartUpdate
  PROVE  CowInv'
<1>1. depth \in Nat /\ depth' = depth + 1 /\ depth' \in 0 .. MaxDepth /\ wpc = "idle"
  BY CowAssumption DEF CowInv, Types, StartUpdate
<1>2. CASE depth = 0
  <2>0. /\ ReclaimRetired /\ wpc' = "peek"
        /\ UNCHANGED <<pending, current, data, dirty, ins, del, base, new, taken, top, rpc>>
    BY <1>2 DEF StartUpdate, reader
  <2>1. /\ heap' \in Heaps /\ Live' = Held /\ Backs' = {} /\ Linked'
        /\ retired' = NULL /\ \A a \in Held : heap'[a] = heap[a]
        /\ new = NULL => Cardinality(Live') <= 3
    BY <2>0, Reclaimed
  <2>2. current \in Held /\ (taken # NULL => taken \in Held) /\ NULL \notin Held
    BY CowAssumption DEF CowInv, Types, Held
  <2>3. Types'
    BY <1>1, <2>0, <2>1 DEF CowInv, Types, Pointer
  <2>4. Owners'
    BY <2>0, <2>1, <2>2 DEF CowInv, Owners, Held
  <2>5. Places'
    BY <1>1, <1>2, <2>0, <2>1, <2>2 DEF CowInv, Places
  <2>6. Few'
    BY <1>1, <2>0, <2>1 DEF CowInv, Few, Places
  <2>7. Rec'
    BY <2>0, <2>1, <2>2 DEF CowInv, Rec, Places, Apart
  <2> QED BY <2>1, <2>3, <2>4, <2>5, <2>6, <2>7 DEF CowInv
<1>3. CASE depth # 0
  <2>0. UNCHANGED <<heap, pending, retired, current, data, dirty, ins, del, base, new, wpc,
                    taken, top, rpc>>
    BY <1>3 DEF StartUpdate, reader
  <2>1. Live' = Live /\ Backs' = Backs /\ Linked' /\ Owners' /\ Rec'
    BY <2>0, SameOwners
  <2>2. Types'
    BY <1>1, <2>0 DEF CowInv, Types
  <2>3. Places'
    BY <1>1, <1>3, <2>0, <2>1 DEF CowInv, Places
  <2>4. Few'
    BY <1>1, <1>3, <2>0, <2>1 DEF CowInv, Few
  <2> QED BY <2>1, <2>2, <2>3, <2>4 DEF CowInv
<1> QED BY <1>2, <1>3

\* What BuildSnapshot writes, from the pending snapshot or without it.
LEMMA BuildIs ==
  ASSUME CowInv, NEW f \in Live \union {NULL}
  PROVE  /\ Build(f, ins, del) \in Record /\ Build(f, ins, del).next = NULL
         /\ Build(f, ins, del).items = data
         /\ \A x : /\ Times(Build(f, ins, del).ins, x) =
                        Times(ins, x) + (IF f = NULL THEN 0 ELSE Times(heap[f].ins, x))
                   /\ Times(Build(f, ins, del).del, x) =
                        Times(del, x) + (IF f = NULL THEN 0 ELSE Times(heap[f].del, x))
<1>1. PICK s \in Seq(Items), i \in Seq(Items), d \in Seq(Items) : s = data /\ i = ins /\ d = del
  BY DEF CowInv, Types
<1>2. \A x : Times(i, x) \in Nat /\ Times(d, x) \in Nat
  BY TimesType
<1>3. CASE f = NULL
  <2>1. Build(f, ins, del) = Snapshot(s, i, d)
    BY <1>1, <1>3 DEF Build
  <2>2. PICK r : r = Snapshot(s, i, d)
    OBVIOUS
  <2>3. r \in Record /\ r.items = s /\ r.ins = i /\ r.del = d /\ r.next = NULL
    BY <2>2, SnapshotIs
  <2> QED BY <1>1, <1>2, <1>3, <2>1, <2>2, <2>3
<1>4. CASE f # NULL
  <2>1. f \in Snaps /\ heap[f] \in Record
    BY <1>4, LiveNow DEF CowInv
  <2>2. PICK j \in Seq(Items), e \in Seq(Items) : j = heap[f].ins /\ e = heap[f].del
    BY <2>1 DEF Record
  <2>3. PICK k, g : k = j \o i /\ g = e \o d
    OBVIOUS
  <2>4. k \in Seq(Items) /\ g \in Seq(Items)
    BY <2>3, ConcatIs
  <2>5. Build(f, ins, del) = Snapshot(s, k, g)
    BY <1>1, <1>4, <2>2, <2>3 DEF Build
  <2>6. PICK r : r = Snapshot(s, k, g)
    OBVIOUS
  <2>7. r \in Record /\ r.items = s /\ r.ins = k /\ r.del = g /\ r.next = NULL
    BY <2>4, <2>6, SnapshotIs
  <2>8. \A x : Times(k, x) = Times(j, x) + Times(i, x) /\ Times(g, x) = Times(e, x) + Times(d, x)
    <3>1. Joined(k, j, i) /\ Joined(g, e, d)
      BY <2>3 DEF Joined
    <3> QED BY <3>1, TimesConcat
  <2>9. \A x : Times(j, x) \in Nat /\ Times(e, x) \in Nat
    BY TimesType
  <2>10. \A x : /\ Times(k, x) = Times(i, x) + Times(j, x)
                /\ Times(g, x) = Times(d, x) + Times(e, x)
    BY <1>2, <2>8, <2>9
  <2> QED BY <1>1, <1>4, <2>2, <2>5, <2>6, <2>7, <2>10
<1> QED BY <1>3, <1>4

LEMMA BuildSnapshotStep ==
  ASSUME CowInv, BuildSnapshot
  PROVE  CowInv'
<1>0. /\ wpc = "build" /\ wpc' = "cas"
      /\ UNCHANGED <<pending, retired, current, data, depth, dirty, ins, del, base,
                     taken, top, rpc>>
  BY DEF BuildSnapshot, reader
<1>1. PICK a \in Snaps \ Live : heap' = [heap EXCEPT ![a] = Build(base, ins, del)] /\ new' = a
  BY DEF BuildSnapshot
<1>2. PICK r : r = Build(base, ins, del)
  OBVIOUS
<1>3. base \in Live \union {NULL}
  BY <1>0 DEF CowInv, Places
<1>4. r \in Record
  BY <1>2, <1>3, BuildIs
<1>5. /\ heap' \in Heaps /\ Live' = Live \union {a}
      /\ \A b \in Snaps \ {a} : heap'[b] = heap[b]
  BY <1>1, <1>2, <1>4, WrittenOne DEF CowInv
<1>6. Backs \subseteq Live /\ Live \subseteq Snaps /\ a \notin Live /\ Live \subseteq Snaps \ {a}
  BY DEF CowInv, Owners, Live
<1>7. Backs' = Backs /\ Linked'
  BY <1>0, <1>5, <1>6, BacksKept
<1>8. Types'
  BY <1>0, <1>1, <1>5 DEF CowInv, Types, Pointer
<1>9. new = NULL /\ NULL \notin Live' /\ Held \subseteq Live /\ a # NULL
  BY <1>0, <1>5, <1>6, CowAssumption DEF CowInv, Places, Owners
<1>10. Owners'
  BY <1>0, <1>1, <1>5, <1>6, <1>7, <1>9 DEF CowInv, Owners, Held
<1>11. current \in Live /\ (taken # NULL => taken \in Live)
  BY <1>9 DEF CowInv, Owners, Held
<1>12. Places'
  BY <1>0, <1>1, <1>5, <1>6, <1>9, <1>11 DEF CowInv, Places
<1>13. Few'
  BY <1>0 DEF CowInv, Few, Places
<1>14. Rec'
  BY <1>0, <1>5, <1>6, <1>11 DEF CowInv, Rec, Places, Apart
<1> QED BY <1>7, <1>8, <1>10, <1>12, <1>13, <1>14 DEF CowInv

LEMMA StorePendingStep ==
  ASSUME CowInv, StorePending
  PROVE  CowInv'
<1>0. wpc = "cas" /\ UNCHANGED <<retired, current, data, depth, taken, top, rpc>> /\ depth = 0
  BY DEF CowInv, Places, StorePending, reader
<1>1. new # NULL /\ new \in Snaps /\ NULL \notin Snaps
  BY <1>0, CowAssumption DEF CowInv, Types, Places, Pointer
<1>2. CASE pending # base
  <2>0. wpc' = "reclaim" /\ UNCHANGED <<heap, pending, dirty, ins, del, base, new>>
    BY <1>2 DEF StorePending
  <2>1. Live' = Live /\ Backs' = Backs /\ Linked' /\ Owners' /\ Rec'
    BY <1>0, <2>0, SameOwners
  <2>2. Types'
    BY <1>0, <2>0 DEF CowInv, Types
  <2>3. Places'
    BY <1>0, <1>2, <2>0, <2>1 DEF CowInv, Places
  <2>4. Few'
    BY <1>0, <2>0 DEF CowInv, Few
  <2> QED BY <2>1, <2>2, <2>3, <2>4 DEF CowInv
<1>3. CASE pending = base
  <2>0. /\ pending' = new /\ wpc' = "idle" /\ base' = NULL /\ new' = NULL
        /\ ins' = <<>> /\ del' = <<>> /\ dirty' = FALSE
        /\ heap' = IF base = NULL THEN heap ELSE [heap EXCEPT ![base] = Free]
    BY <1>2, <1>3 DEF StorePending, Done
  <2>1. /\ current # base /\ (taken # NULL => taken # base)
        /\ new # base /\ base \notin Backs
    <3>1. NULL \notin Live /\ current # NULL
      BY <1>1 DEF CowInv, Types, Live
    <3> QED BY <1>1, <1>3, <3>1 DEF CowInv, Owners, Held
  <2>2. /\ heap' \in Heaps /\ Live' = Live \ {base}
        /\ \A b \in Snaps \ {base} : heap'[b] = heap[b]
    <3>1. CASE base = NULL
      <4>1. heap' = heap /\ NULL \notin Live
        BY <1>1, <2>0, <3>1 DEF Live
      <4>2. Live' = Live
        BY <4>1 DEF Live
      <4> QED BY <3>1, <4>1, <4>2 DEF CowInv, Types
    <3>2. CASE base # NULL
      <4>1. base \in Snaps /\ heap' = [heap EXCEPT ![base] = Free]
        BY <2>0, <3>2 DEF CowInv, Types, Pointer
      <4> QED BY <4>1, FreedOne DEF CowInv
    <3> QED BY <3>1, <3>2
  <2>3. Backs \subseteq Live /\ Live \subseteq Snaps /\ Backs \subseteq Live'
    BY <2>1, <2>2 DEF CowInv, Owners, Live
  <2>4. Backs' = Backs /\ Linked'
    BY <1>0, <2>1, <2>2, <2>3, BacksKept
  <2>5. Types'
    <3>1. <<>> \in Seq(Items) /\ NULL \in Pointer /\ FALSE \in BOOLEAN
      BY DEF Pointer
    <3> QED BY <1>0, <2>0, <2>2, <3>1 DEF CowInv, Types
  <2>6. Owners'
    BY <1>0, <1>1, <1>3, <2>0, <2>1, <2>2, <2>3, <2>4 DEF CowInv, Owners, Held
  <2>7. current \in Snaps \ {base} /\ (taken # NULL => taken \in Snaps \ {base})
    BY <2>1 DEF CowInv, Types, Pointer
  <2>8. Places'
    BY <1>0, <2>0, <2>2, <2>7 DEF CowInv, Places
  <2>9. Few'
    BY <1>0, <2>0 DEF CowInv, Few
  <2>10. Rec'
    BY <1>0, <2>2, <2>7 DEF CowInv, Rec, Places, Apart
  <2> QED BY <2>4, <2>5, <2>6, <2>8, <2>9, <2>10 DEF CowInv
<1> QED BY <1>2, <1>3

LEMMA RebuildStep ==
  ASSUME CowInv, Rebuild
  PROVE  CowInv'
<1>0. /\ wpc = "reclaim" /\ wpc' = "set" /\ retired' = NULL /\ depth = 0 /\ pending = NULL
      /\ UNCHANGED <<pending, current, data, depth, dirty, ins, del, base, taken, top, rpc>>
  BY DEF CowInv, Places, Rebuild, reader
<1>1. new # NULL /\ new \in Snaps /\ NULL \notin Snaps
  BY <1>0, CowAssumption DEF CowInv, Types, Places, Pointer
<1>2. PICK S : S = Backs \union {new}
  OBVIOUS
<1>3. PICK a \in (Snaps \ Live) \union S :
        heap' = [Without(S) EXCEPT ![a] = Build(NULL, ins, del)] /\ new' = a
  BY <1>2 DEF Rebuild, Backs
<1>4. PICK r : r = Build(NULL, ins, del)
  OBVIOUS
<1>5. r \in Record
  <2>1. NULL \in Live \union {NULL}
    OBVIOUS
  <2> QED BY <1>4, <2>1, BuildIs
<1>6. a \in Snaps /\ S \subseteq Snaps
  BY <1>1, <1>2 DEF CowInv, Owners, Live
<1>7. /\ heap' \in Heaps /\ Live' = (Live \ S) \union {a}
      /\ \A b \in Snaps \ (S \union {a}) : heap'[b] = heap[b]
  BY <1>3, <1>4, <1>5, <1>6, Written DEF CowInv
<1>8. Backs' = {} /\ Linked'
  BY <1>0, BacksGone
<1>9. Types'
  BY <1>0, <1>3, <1>6, <1>7 DEF CowInv, Types, Pointer
<1>10. /\ current \in Live /\ current \notin S \union {a}
       /\ taken # NULL => taken \in Live /\ taken \notin S \union {a}
       /\ Live \ S = {current, taken} \ {NULL}
  BY <1>0, <1>1, <1>2, <1>3 DEF CowInv, Owners, Held
<1>11. Owners'
  BY <1>0, <1>1, <1>3, <1>6, <1>7, <1>8, <1>10 DEF CowInv, Owners, Held
<1>12. current \in Snaps \ (S \union {a}) /\ (taken # NULL => taken \in Snaps \ (S \union {a}))
  BY <1>10 DEF Live
<1>13. Places'
  BY <1>0, <1>1, <1>3, <1>6, <1>7, <1>12 DEF CowInv, Places
<1>14. Few'
  BY <1>0 DEF CowInv, Few
<1>15. Rec'
  BY <1>0, <1>7, <1>12 DEF CowInv, Rec, Places, Apart
<1> QED BY <1>8, <1>9, <1>11, <1>13, <1>14, <1>15 DEF CowInv

LEMMA SetPendingStep ==
  ASSUME CowInv, SetPending
  PROVE  CowInv'
<1>0. /\ wpc = "set" /\ pending = NULL /\ depth = 0 /\ new # NULL
      /\ pending' = new /\ wpc' = "idle" /\ base' = NULL /\ new' = NULL
      /\ ins' = <<>> /\ del' = <<>> /\ dirty' = FALSE
      /\ UNCHANGED <<heap, retired, current, data, depth, taken, top, rpc>>
  BY DEF CowInv, Places, SetPending, Done, reader
<1>1. /\ heap' \in Heaps /\ Live' = Live /\ Backs \subseteq Live
  BY <1>0 DEF CowInv, Types, Owners, Live
<1>2. Backs' = Backs /\ Linked'
  BY <1>0, <1>1, BacksKept
<1>3. Types'
  <2>1. <<>> \in Seq(Items) /\ NULL \in Pointer /\ FALSE \in BOOLEAN
    BY DEF Pointer
  <2> QED BY <1>0, <2>1 DEF CowInv, Types
<1>4. Owners'
  BY <1>0, <1>1, <1>2 DEF CowInv, Owners, Held
<1>5. Places'
  BY <1>0 DEF CowInv, Places
<1>6. Few'
  BY <1>0 DEF CowInv, Few
<1>7. Rec'
  BY <1>0 DEF CowInv, Rec, Apart
<1> QED BY <1>2, <1>3, <1>4, <1>5, <1>6, <1>7 DEF CowInv

LEMMA ResetStep ==
  ASSUME CowInv, Reset
  PROVE  CowInv'
<1>0. /\ wpc = "idle" /\ depth = 0 /\ rpc = "idle" /\ taken = NULL /\ new = NULL /\ base = NULL
      /\ data' = <<>> /\ pending' = NULL /\ retired' = NULL
      /\ UNCHANGED <<depth, dirty, ins, del, base, new, wpc, taken, top, rpc>>
  BY DEF CowInv, Places, Reset, reader
<1>1. NULL \notin Snaps
  BY CowAssumption
<1>2. PICK S : S = {pending, current} \union Backs
  OBVIOUS
<1>3. PICK a \in (Snaps \ Live) \union (S \ {NULL}) :
        heap' = [Without(S) EXCEPT ![a] = Snapshot(<<>>, <<>>, <<>>)] /\ current' = a
  BY <1>2 DEF Reset, Backs
<1>4. PICK r : r = Snapshot(<<>>, <<>>, <<>>)
  OBVIOUS
<1>5. r \in Record /\ Apart(r)
  <2>1. PICK s \in Seq(Items) : s = <<>> /\ DOMAIN s = {}
    <3>1. <<>> \in Seq(Items) /\ DOMAIN <<>> = {}
      OBVIOUS
    <3> QED BY <3>1
  <2>2. r = Snapshot(s, s, s)
    BY <1>4, <2>1
  <2>3. r \in Record /\ r.ins = s
    BY <2>2, SnapshotIs
  <2> QED BY <2>1, <2>3 DEF Apart
<1>6. a \in Snaps
  BY <1>2, <1>3 DEF CowInv, Owners, Types, Pointer, Live
<1>7. heap' \in Heaps /\ Live' = (Live \ S) \union {a} /\ heap'[a] = r
  BY <1>3, <1>4, <1>5, <1>6, Written DEF CowInv
<1>8. Backs' = {} /\ Linked'
  BY <1>0, BacksGone
<1>9. Types'
  <2>1. <<>> \in Seq(Items) /\ NULL \in Pointer
    BY DEF Pointer
  <2> QED BY <1>0, <1>3, <1>6, <1>7, <2>1 DEF CowInv, Types
<1>10. Live' = {a}
  BY <1>0, <1>2, <1>7 DEF CowInv, Owners, Held
<1>11. Owners'
  BY <1>0, <1>1, <1>3, <1>6, <1>8, <1>10 DEF Owners, Held
<1>12. Places'
  BY <1>0 DEF CowInv, Places
<1>13. Few'
  BY <1>0 DEF Few
<1>14. Rec'
  BY <1>0, <1>3, <1>5, <1>7 DEF Rec
<1> QED BY <1>8, <1>9, <1>11, <1>12, <1>13, <1>14 DEF CowInv
-----------------------------------------------------------------------------
(* The reader *)

LEMMA TakePendingStep ==
  ASSUME CowInv, TakePending
  PROVE  CowInv'
<1>0. /\ rpc = "idle" /\ taken = NULL /\ pending' = NULL /\ taken' = pending
      /\ UNCHANGED <<retired, current, top, data, depth, dirty, ins, del, base, new, wpc>>
  BY DEF CowInv, Places, TakePending, writer
<1>1. NULL \notin Snaps /\ current \in Snaps /\ current \in Live
  BY CowAssumption DEF CowInv, Types, Owners
<1>2. CASE pending = NULL
  <2>0. /\ rpc' = rpc
        /\ heap' = [heap EXCEPT ![current].ins = <<>>, ![current].del = <<>>]
    BY <1>2 DEF TakePending
  <2>1. PICK r : r = [heap[current] EXCEPT !.ins = <<>>, !.del = <<>>]
    OBVIOUS
  <2>2. heap[current] \in Record
    BY <1>1, LiveNow DEF CowInv
  <2>3. r \in Record /\ r.next = heap[current].next /\ Apart(r)
    <3>1. <<>> \in Seq(Items) /\ DOMAIN <<>> = {}
      OBVIOUS
    <3> QED BY <2>1, <2>2, <3>1 DEF Record, Apart
  <2>4. heap' = [heap EXCEPT ![current] = r]
    BY <1>1, <2>0, <2>1 DEF CowInv, Types, Heaps
  <2>5. /\ heap' \in Heaps /\ Live' = Live \union {current} /\ heap'[current] = r
        /\ \A b \in Snaps \ {current} : heap'[b] = heap[b]
    BY <1>1, <2>3, <2>4, WrittenOne DEF CowInv
  <2>6. Backs \subseteq Live /\ Live' = Live /\ Backs \subseteq Snaps \ {current}
    BY <1>1, <2>5 DEF CowInv, Owners, Held, Live
  <2>7. Backs' = Backs /\ Linked'
    BY <1>0, <2>5, <2>6, BacksKept
  <2>8. Types'
    BY <1>0, <2>0, <2>5 DEF CowInv, Types, Pointer
  <2>9. Owners'
    BY <1>0, <1>2, <2>6, <2>7 DEF CowInv, Owners, Held
  <2>10. Places'
    BY <1>0, <1>2, <2>0, <2>3, <2>5, <2>6 DEF CowInv, Places
  <2>11. Few'
    BY <1>0, <2>6 DEF CowInv, Few
  <2>12. Rec'
    BY <1>0, <2>0, <2>3, <2>5 DEF Rec
  <2> QED BY <2>7, <2>8, <2>9, <2>10, <2>11, <2>12 DEF CowInv
<1>3. CASE pending # NULL
  <2>0. rpc' = "reconcile" /\ heap' = heap
    BY <1>3 DEF TakePending
  <2>1. heap' \in Heaps /\ Live' = Live /\ Backs \subseteq Live
    BY <2>0 DEF CowInv, Types, Owners, Live
  <2>2. Backs' = Backs /\ Linked'
    BY <1>0, <2>0, <2>1, BacksKept
  <2>3. Types'
    BY <1>0, <2>0, <2>1 DEF CowInv, Types, Pointer
  <2>4. Owners'
    BY <1>0, <1>3, <2>1, <2>2 DEF CowInv, Owners, Held
  <2>5. Places'
    BY <1>0, <1>3, <2>0, <2>1 DEF CowInv, Places
  <2>6. Few'
    BY <1>0, <2>1 DEF CowInv, Few
  <2>7. Rec'
    BY <1>0, <2>0 DEF CowInv, Rec, Apart
  <2> QED BY <2>2, <2>3, <2>4, <2>5, <2>6, <2>7 DEF CowInv
<1> QED BY <1>2, <1>3

\* The record Reconcile writes.
LEMMA CancelApart ==
  ASSUME NEW r \in Record
  PROVE  /\ Cancel(r) \in Record /\ Apart(Cancel(r))
         /\ Cancel(r).items = r.items /\ Cancel(r).next = r.next
         /\ \A x : Times(Cancel(r).ins, x) - Times(Cancel(r).del, x)
                     = Times(r.ins, x) - Times(r.del, x)
<1>1. PICK s : s = Cancel(r)
  OBVIOUS
<1>2. Reconciling(r, s, 0)
  BY <1>1, CancelIs
<1>3. /\ s \in Record /\ s.items = r.items /\ s.next = r.next
      /\ \A j \in 1 .. Len(s.del) : j > 0 => \A i \in DOMAIN s.ins : s.ins[i] # s.del[j]
      /\ \A x : Times(s.ins, x) - Times(s.del, x) = Times(r.ins, x) - Times(r.del, x)
  BY <1>2 DEF Reconciling
<1>4. PICK d \in Seq(Items) : d = s.del
  BY <1>3 DEF Record
<1>5. DOMAIN d = 1 .. Len(d) /\ \A j \in 1 .. Len(d) : j > 0
  OBVIOUS
<1>6. Apart(s)
  BY <1>3, <1>4, <1>5 DEF Apart
<1> QED BY <1>1, <1>3, <1>6

LEMMA ReconcileStep ==
  ASSUME CowInv, Reconcile
  PROVE  CowInv'
<1>0. /\ rpc = "reconcile" /\ rpc' = "retired" /\ heap' = [heap EXCEPT ![taken] = Cancel(@)]
      /\ UNCHANGED <<pending, retired, current, taken, top,
                     data, depth, dirty, ins, del, base, new, wpc>>
  BY DEF Reconcile, writer
<1>1. taken # NULL /\ taken \in Snaps /\ taken \in Live /\ taken \notin Backs /\ taken # current
  BY <1>0, CowAssumption DEF CowInv, Types, Places, Owners, Held, Pointer
<1>2. heap[taken] \in Record
  BY <1>1, LiveNow DEF CowInv
<1>3. PICK r : r = Cancel(heap[taken])
  OBVIOUS
<1>4. r \in Record /\ Apart(r)
  BY <1>2, <1>3, CancelApart
<1>5. heap' = [heap EXCEPT ![taken] = r]
  BY <1>0, <1>3
<1>6. /\ heap' \in Heaps /\ Live' = Live \union {taken} /\ heap'[taken] = r
      /\ \A b \in Snaps \ {taken} : heap'[b] = heap[b]
  BY <1>1, <1>4, <1>5, WrittenOne DEF CowInv
<1>7. Live' = Live /\ Backs \subseteq Live /\ Backs \subseteq Snaps \ {taken}
  BY <1>1, <1>6 DEF CowInv, Owners, Live
<1>8. Backs' = Backs /\ Linked'
  BY <1>0, <1>6, <1>7, BacksKept
<1>9. Types'
  BY <1>0, <1>6 DEF CowInv, Types
<1>10. Owners'
  BY <1>0, <1>7, <1>8 DEF CowInv, Owners, Held
<1>11. Places'
  BY <1>0, <1>7 DEF CowInv, Places
<1>12. Few'
  BY <1>0, <1>7 DEF CowInv, Few
<1>13. current \in Snaps \ {taken}
  BY <1>1 DEF CowInv, Types
<1>14. Rec'
  BY <1>0, <1>4, <1>6, <1>13 DEF CowInv, Rec, Apart
<1> QED BY <1>8, <1>9, <1>10, <1>11, <1>12, <1>14 DEF CowInv

\* The reader links its snapshot to the list of m_retired.
LEMMA LinkStep ==
  ASSUME CowInv, taken # NULL, rpc \in {"retired", "push"}, rpc' = "push", top' = retired,
         heap' = [heap EXCEPT ![current].next = retired],
         UNCHANGED <<pending, retired, current, taken,
                     data, depth, dirty, ins, del, base, new, wpc>>
  PROVE  CowInv'
<1>1. /\ current \in Snaps /\ current \in Live /\ current \notin Backs
      /\ taken \in Snaps /\ taken # current
  BY CowAssumption DEF CowInv, Types, Owners, Held, Pointer
<1>2. heap[current] \in Record /\ retired \in Pointer
  BY <1>1, LiveNow DEF CowInv, Types
<1>3. PICK r : r = [heap[current] EXCEPT !.next = retired]
  OBVIOUS
<1>4. /\ r \in Record /\ r.next = retired
      /\ r.ins = heap[current].ins /\ r.del = heap[current].del
  BY <1>2, <1>3 DEF Record
<1>5. heap' = [heap EXCEPT ![current] = r]
  BY <1>1, <1>3 DEF CowInv, Types, Heaps
<1>6. /\ heap' \in Heaps /\ Live' = Live \union {current} /\ heap'[current] = r
      /\ \A b \in Snaps \ {current} : heap'[b] = heap[b]
  BY <1>1, <1>4, <1>5, WrittenOne DEF CowInv
<1>7. Live' = Live /\ Backs \subseteq Live /\ Backs \subseteq Snaps \ {current}
  BY <1>1, <1>6 DEF CowInv, Owners, Live
<1>8. Backs' = Backs /\ Linked'
  BY <1>6, <1>7, BacksKept
<1>9. Types'
  BY <1>6 DEF CowInv, Types
<1>10. Owners'
  BY <1>7, <1>8 DEF CowInv, Owners, Held
<1>11. Places'
  BY <1>4, <1>6, <1>7 DEF CowInv, Places
<1>12. Few'
  BY <1>7 DEF CowInv, Few
<1>13. Rec'
  <2>1. Apart(heap[current]) /\ Apart(heap[taken])
    BY DEF CowInv, Rec
  <2>2. Apart(r)
    BY <1>4, <2>1 DEF Apart
  <2> QED BY <1>1, <1>6, <2>1, <2>2 DEF Rec
<1> QED BY <1>8, <1>9, <1>10, <1>11, <1>12, <1>13 DEF CowInv

LEMMA LoadRetiredStep ==
  ASSUME CowInv, LoadRetired
  PROVE  CowInv'
<1>1. taken # NULL
  BY DEF CowInv, Places, LoadRetired
<1> QED BY <1>1, LinkStep DEF LoadRetired, writer

LEMMA PushRetiredStep ==
  ASSUME CowInv, PushRetired
  PROVE  CowInv'
<1>0. /\ rpc = "push" /\ taken # NULL
      /\ UNCHANGED <<pending, data, depth, dirty, ins, del, base, new, wpc>>
  BY DEF CowInv, Places, PushRetired, writer
<1>1. CASE retired # top
  BY <1>0, <1>1, LinkStep DEF PushRetired
<1>2. CASE retired = top
  <2>0. /\ retired' = current /\ current' = taken /\ taken' = NULL /\ top' = NULL
        /\ rpc' = "idle" /\ heap' = heap
    BY <1>2 DEF PushRetired
  <2>1. /\ current \in Snaps /\ current \in Live /\ current \notin Backs /\ current # NULL
        /\ taken \in Snaps /\ taken \in Live /\ taken \notin Backs /\ taken # current
        /\ Backs \subseteq Live
    BY <1>0, CowAssumption DEF CowInv, Types, Owners, Held, Pointer
  <2>2. heap[current].next = retired
    BY <1>0, <1>2 DEF CowInv, Places
  <2>3. Live' = Live /\ nexts' = nexts /\ heap' \in Heaps
    BY <2>0 DEF Live, nexts, CowInv, Types
  <2>4. nexts'[current] = retired
    BY <2>1, <2>2, <2>3, LiveNow DEF CowInv
  <2>5. ListOf(Snaps, NULL, nexts, retired, Backs) /\ NULL \notin Snaps
    BY CowAssumption DEF CowInv, Linked
  <2>6. ListOf(Snaps, NULL, nexts', current, Backs \union {current})
    BY <2>1, <2>3, <2>4, <2>5, ListAdd
  <2>7. Backs' = Backs \union {current} /\ Linked'
    BY <2>0, <2>6, BacksNext
  <2>8. Types'
    BY <1>0, <2>0, <2>1, <2>3 DEF CowInv, Types, Pointer
  <2>9. Owners'
    BY <1>0, <2>0, <2>1, <2>3, <2>5, <2>7 DEF CowInv, Owners, Held
  <2>10. Places'
    BY <1>0, <2>0, <2>3 DEF CowInv, Places
  <2>11. Few'
    BY <1>0, <2>3 DEF CowInv, Few
  <2>12. Rec'
    BY <1>0, <2>0 DEF CowInv, Rec, Apart
  <2> QED BY <2>7, <2>8, <2>9, <2>10, <2>11, <2>12 DEF CowInv
<1> QED BY <1>1, <1>2
-----------------------------------------------------------------------------
(* The invariant holds *)

LEMMA InitInv ==
  ASSUME Init
  PROVE  CowInv
<1>0. PICK s \in Seq(Items) : s = <<>> /\ DOMAIN s = {}
  <2>1. <<>> \in Seq(Items) /\ DOMAIN <<>> = {}
    OBVIOUS
  <2> QED BY <2>1
<1>1. PICK r : r = Snapshot(s, s, s)
  OBVIOUS
<1>2. r \in Record /\ Apart(r)
  <2>1. r \in Record /\ r.ins = s
    BY <1>1, SnapshotIs
  <2> QED BY <1>0, <2>1 DEF Apart
<1>3. /\ current \in Snaps /\ heap = [b \in Snaps |-> IF b = current THEN r ELSE Free]
      /\ NULL \notin Snaps
  BY <1>0, <1>1, CowAssumption DEF Init
<1>4. heap \in Heaps /\ heap[current] = r
  BY <1>2, <1>3 DEF Heaps
<1>5. Live = {current}
  <2>1. Free.live = FALSE /\ r.live = TRUE
    BY <1>2 DEF Free, Record
  <2> QED BY <1>3, <2>1 DEF Live
<1>6. /\ pending = NULL /\ retired = NULL /\ depth = 0 /\ base = NULL /\ new = NULL
      /\ wpc = "idle" /\ taken = NULL /\ top = NULL /\ rpc = "idle"
  BY DEF Init
<1>7. Types
  <2>1. <<>> \in Seq(Items) /\ NULL \in Pointer /\ 0 \in 0 .. MaxDepth
    BY CowAssumption DEF Pointer
  <2> QED BY <1>3, <1>4, <2>1 DEF Init, Types
<1>8. Backs = {} /\ Linked
  <2>1. ListOf(Snaps, NULL, nexts, retired, {})
    BY <1>6, ListNone
  <2> QED BY <2>1, BacksNow
<1>9. Owners
  BY <1>3, <1>5, <1>6, <1>8 DEF Owners, Held
<1>10. Places
  BY <1>6 DEF Places
<1>11. Few
  BY <1>6 DEF Few
<1>12. Rec
  BY <1>2, <1>4, <1>6 DEF Rec
<1> QED BY <1>7, <1>8, <1>9, <1>10, <1>11, <1>12 DEF CowInv

LEMMA StutterInv ==
  ASSUME CowInv, UNCHANGED vars
  PROVE  CowInv'
<1>0. UNCHANGED <<heap, pending, retired, current, data, depth, dirty, ins, del, base, new,
                  wpc, taken, top, rpc>>
  BY DEF vars, writer, reader
<1>1. Live' = Live /\ Backs' = Backs /\ Linked' /\ Owners' /\ Rec'
  BY <1>0, SameOwners
<1>2. Types' /\ Places' /\ Few'
  BY <1>0, <1>1 DEF CowInv, Types, Places, Few
<1> QED BY <1>1, <1>2 DEF CowInv

LEMMA StepInv ==
  ASSUME CowInv, [Next]_vars
  PROVE  CowInv'
<1>1. ASSUME NEW e \in Edits, Mutate(e) \/ BatchMutate(e)
      PROVE  CowInv'
  BY <1>1, MutateStep, BatchMutateStep
<1>2. ASSUME NEW d \in Sorts, Sort(d)
      PROVE  CowInv'
  BY <1>2, SortStep
<1>3. CASE StartUpdate \/ EndUpdate \/ Clear \/ Reset
  BY <1>3, StartUpdateStep, EndUpdateStep, ClearStep, ResetStep
<1>4. CASE WriterStep
  BY <1>4, LoadPendingStep, BuildSnapshotStep, StorePendingStep, RebuildStep,
     SetPendingStep, PeekPendingStep DEF WriterStep
<1>5. CASE TakePending \/ ReaderStep
  BY <1>5, TakePendingStep, ReconcileStep, LoadRetiredStep, PushRetiredStep DEF ReaderStep
<1>6. CASE UNCHANGED vars
  BY <1>6, StutterInv
<1> QED BY <1>1, <1>2, <1>3, <1>4, <1>5, <1>6 DEF Next

LEMMA InvHolds == Spec => []CowInv
<1>1. Init => CowInv
  BY InitInv
<1>2. CowInv /\ [Next]_vars => CowInv'
  BY StepInv
<1> QED BY <1>1, <1>2, PTL DEF Spec
-----------------------------------------------------------------------------
(* What it gives *)

\* The variables have their types; m_current is never a null pointer.
THEOREM TypesCorrect == Spec => []TypeOK
<1>1. CowInv => TypeOK
  <2> SUFFICES ASSUME CowInv PROVE TypeOK
    OBVIOUS
  <2>1. Types
    BY DEF CowInv
  <2>2. \A a \in Live :
          /\ heap[a].items \in Seq(Items) /\ heap[a].ins \in Seq(Items)
          /\ heap[a].del \in Seq(Items) /\ heap[a].next \in Pointer
    BY <2>1, LiveNow DEF Record
  <2> QED BY <2>1, <2>2 DEF Types, TypeOK
<1> QED BY <1>1, InvHolds, PTL

\* No thread can reach freed memory: not by m_current, m_pending or the list of
\* m_retired, not by the snapshot the reader has taken, and not by the one
\* BuildSnapshot copies from while the reader may have it already.
THEOREM NothingDangles == Spec => []NoDangling
<1>1. CowInv => NoDangling
  BY DEF CowInv, Owners, Places, Held, Backs, NoDangling
<1> QED BY <1>1, InvHolds, PTL

\* A snapshot has one owner from its allocation to its deletion: none is lost
\* between the two threads and none can be deleted twice.
THEOREM EachSnapshotOwnedOnce == Spec => []OneOwner
<1>1. CowInv => OneOwner
  <2> SUFFICES ASSUME CowInv, NEW a \in Live
      PROVE  Cardinality({o \in {"current", "pending", "taken", "retired", "new"} :
                   \/ o = "current" /\ a = current
                   \/ o = "pending" /\ a = pending
                   \/ o = "taken" /\ a = taken
                   \/ o = "retired" /\ a \in Chain(retired)
                   \/ o = "new" /\ a = new}) = 1
    BY DEF OneOwner
  <2> DEFINE O == {o \in {"current", "pending", "taken", "retired", "new"} :
                     \/ o = "current" /\ a = current
                     \/ o = "pending" /\ a = pending
                     \/ o = "taken" /\ a = taken
                     \/ o = "retired" /\ a \in Chain(retired)
                     \/ o = "new" /\ a = new}
  <2>1. /\ a \in Held \union Backs /\ a # NULL /\ Held \cap Backs = {}
        /\ current \notin {pending, taken, new}
        /\ pending # NULL => pending \notin {taken, new}
        /\ taken # NULL => taken # new
    BY CowAssumption DEF CowInv, Owners, Live
  <2>2. PICK B : B = Chain(retired)
    OBVIOUS
  <2>3. \E o : O = {o}
    <3>1. CASE a = current
      <4>1. O = {"current"}
        BY <2>1, <2>2, <3>1 DEF Held, Backs
      <4> QED BY <4>1
    <3>2. CASE a = pending
      <4>1. O = {"pending"}
        BY <2>1, <2>2, <3>2 DEF Held, Backs
      <4> QED BY <4>1
    <3>3. CASE a = taken
      <4>1. O = {"taken"}
        BY <2>1, <2>2, <3>3 DEF Held, Backs
      <4> QED BY <4>1
    <3>4. CASE a = new
      <4>1. O = {"new"}
        BY <2>1, <2>2, <3>4 DEF Held, Backs
      <4> QED BY <4>1
    <3>5. CASE a \notin Held
      <4>1. O = {"retired"}
        BY <2>1, <2>2, <3>5 DEF Held, Backs
      <4> QED BY <4>1
    <3> QED BY <3>1, <3>2, <3>3, <3>4, <3>5 DEF Held
  <2> HIDE DEF O
  <2>4. Cardinality(O) = 1
    BY <2>3, FS_Singleton
  <2> QED BY <2>4 DEF O
<1> QED BY <1>1, InvHolds, PTL

\* BuildSnapshot never allocates a fifth snapshot, whatever memory there is.
THEOREM FourSnapshotsAreEnough == Spec => []FewSnapshots
<1>1. CowInv => FewSnapshots
  <2> SUFFICES ASSUME CowInv, wpc = "build" PROVE Cardinality(Live) < 4
    BY DEF FewSnapshots
  <2>1. Cardinality(Live) <= 3
    BY DEF CowInv, Few
  <2>2. Cardinality(Live) \in Nat
    BY CowAssumption, FS_Subset, FS_CardinalityType DEF Live
  <2> QED BY <2>1, <2>2
<1> QED BY <1>1, InvHolds, PTL

\* The snapshot the reader works with reports no item as both inserted and
\* deleted, however the lists it was merged from overlapped.
THEOREM NothingReportedTwice == Spec => []Reconciled
<1>1. CowInv => Reconciled
  <2> SUFFICES ASSUME CowInv PROVE Reconciled
    OBVIOUS
  <2>1. \A i \in DOMAIN heap[current].ins, j \in DOMAIN heap[current].del :
          heap[current].ins[i] # heap[current].del[j]
    BY DEF CowInv, Rec, Apart
  <2> QED BY <2>1 DEF Reconciled
<1> QED BY <1>1, InvHolds, PTL
-----------------------------------------------------------------------------
(* What the snapshots say of each other, when nobody calls Clear *)

\* As the items of i came and those of d went, a became b, whatever the order.
Delta(i, d, a, b) == \A x : Times(i, x) - Times(d, x) = Times(b, x) - Times(a, x)

\* e has the items of a and those of b.
More(e, a, b) == \A x : Times(e, x) = Times(a, x) + Times(b, x)

\* One change and then another.
LEMMA DeltaMore ==
  ASSUME NEW S, NEW a \in Seq(S), NEW b \in Seq(S), NEW c \in Seq(S),
         NEW p \in Seq(S), NEW q \in Seq(S), NEW i \in Seq(S), NEW d \in Seq(S),
         Delta(p, q, a, b), Delta(i, d, b, c), NEW e, More(e, p, i), NEW f, More(f, q, d)
  PROVE  Delta(e, f, a, c)
<1> SUFFICES ASSUME NEW x
    PROVE  Times(e, x) - Times(f, x) = Times(c, x) - Times(a, x)
  BY DEF Delta
<1>1. PICK aa \in Nat, bb \in Nat, cc \in Nat :
        aa = Times(a, x) /\ bb = Times(b, x) /\ cc = Times(c, x)
  BY TimesType
<1>2. PICK pp \in Nat, qq \in Nat, ii \in Nat, dd \in Nat :
        pp = Times(p, x) /\ qq = Times(q, x) /\ ii = Times(i, x) /\ dd = Times(d, x)
  BY TimesType
<1>3. pp - qq = bb - aa /\ ii - dd = cc - bb
  BY <1>1, <1>2 DEF Delta
<1>4. Times(e, x) = pp + ii /\ Times(f, x) = qq + dd
  BY <1>2 DEF More
<1>5. (pp + ii) - (qq + dd) = cc - aa
  BY <1>3
<1> QED BY <1>1, <1>4, <1>5

\* The lists of a call or a batch are empty before its first edit.
Emptied ==
  wpc \in {"idle", "peek"} /\ (depth = 0 \/ ~dirty) => ins = <<>> /\ del = <<>>

\* They lead from the list last published to the writer's, the pending
\* snapshot's from the reader's list to its own, and those of a snapshot that
\* is about to be published from the reader's list to the writer's.
Gap == Delta(ins, del, Newest.items, data)
Told ==
  pending # NULL =>
    Delta(heap[pending].ins, heap[pending].del, Viewed.items, heap[pending].items)
Copied == wpc \in {"cas", "set"} => heap[new].items = data
Tells ==
  (wpc = "cas" /\ pending = base) \/ wpc = "set" =>
    Delta(heap[new].ins, heap[new].del, Viewed.items, data)

Counts == Len(data) <= MaxLen /\ Emptied /\ Gap /\ Told /\ Copied /\ Tells

\* A step of SnapshotRegister, or none.
Exact == Register!ANext \/ UNCHANGED Register!avars

\* The snapshots the register is read off.
LEMMA SeenIs ==
  ASSUME CowInv
  PROVE  /\ Viewed \in Record /\ Newest \in Record
         /\ Viewed.items \in Seq(Items) /\ Viewed.ins \in Seq(Items) /\ Viewed.del \in Seq(Items)
         /\ Newest.items \in Seq(Items)
         /\ Viewed = heap[IF taken = NULL THEN current ELSE taken]
         /\ Newest = IF pending = NULL THEN Viewed ELSE heap[pending]
<1>1. /\ current \in Live /\ (taken # NULL => taken \in Live)
      /\ pending # NULL => pending \in Live
  BY DEF CowInv, Owners, Held
<1>2. Viewed \in Record /\ Newest \in Record
  BY <1>1, LiveNow DEF CowInv, Viewed, Newest
<1> QED BY <1>2 DEF Record, Viewed, Newest

LEMMA SeenNext ==
  /\ Viewed' = heap'[IF taken' = NULL THEN current' ELSE taken']
  /\ Newest' = IF pending' = NULL THEN Viewed' ELSE heap'[pending']
BY DEF Viewed, Newest

\* The register's bags are bags of this module.
LEMMA RegisterBags ==
  ASSUME NEW s, NEW t
  PROVE  Register!(-)(Register!ToBag(s), Register!ToBag(t)) = ToBag(s) (-) ToBag(t)
<1>1. Register!ToBag(s) = ToBag(s) /\ Register!ToBag(t) = ToBag(t)
  BY DEF Register!ToBag, ToBag, Register!Range, Range, Register!Cardinality, Cardinality
<1>2. PICK a, b : a = ToBag(s) /\ b = ToBag(t)
  OBVIOUS
<1>3. Register!(-)(a, b) = a (-) b
  BY DEF Register!(-), (-)
<1> QED BY <1>1, <1>2, <1>3

\* What a step does to the register.
LEMMA Unmoved ==
  ASSUME Viewed' = Viewed, Newest'.items = Newest.items, data' = data
  PROVE  Exact
BY DEF Exact, Register!avars

LEMMA Edited ==
  ASSUME Viewed' = Viewed, Newest'.items = Newest.items,
         data' \in Seq(Items), Len(data') <= MaxLen
  PROVE  Exact
<1>1. PICK d \in Seq(Items) : d = data' /\ Len(d) <= MaxLen
  OBVIOUS
<1>2. Len(d) \in 0 .. MaxLen /\ d \in [1 .. Len(d) -> Items]
  BY <1>1, CowAssumption
<1>3. d \in Register!Lists
  BY <1>2 DEF Register!Lists
<1>4. Register!Edit
  BY <1>1, <1>3 DEF Register!Edit
<1> QED BY <1>4 DEF Exact, Register!ANext

LEMMA Published ==
  ASSUME Viewed' = Viewed, Newest'.items = data, data' = data
  PROVE  Exact
<1>1. Register!Publish
  BY DEF Register!Publish
<1> QED BY <1>1 DEF Exact, Register!ANext

LEMMA Snapshotted ==
  ASSUME CowInv, CowInv', Viewed'.items = Newest.items, Newest'.items = Newest.items,
         data' = data, Delta(Viewed'.ins, Viewed'.del, Viewed.items, Newest.items)
  PROVE  Exact
<1>1. Viewed' \in Record
  <2>1. /\ current' \in Live' /\ (taken' # NULL => taken' \in Live')
    BY DEF CowInv, Owners, Held
  <2>2. heap' \in Heaps
    BY DEF CowInv, Types
  <2> QED BY <2>1, <2>2, LiveNext, SeenNext
<1>2. PICK i \in Seq(Items), d \in Seq(Items) : i = Viewed'.ins /\ d = Viewed'.del
  BY <1>1 DEF Record
<1>3. PICK a \in Seq(Items), b \in Seq(Items) : a = Viewed.items /\ b = Newest.items
  BY SeenIs
<1>4. \A x : Times(i, x) - Times(d, x) = Times(b, x) - Times(a, x)
  BY <1>2, <1>3 DEF Delta
<1>5. \A x : /\ Times(i, x) \in Nat /\ Times(d, x) \in Nat
             /\ Times(a, x) \in Nat /\ Times(b, x) \in Nat
  BY TimesType
<1>6. ToBag(i) (-) ToBag(d) = ToBag(b) (-) ToBag(a)
  BY <1>4, SameDifference
<1>7. \A x : Times(d, x) - Times(i, x) = Times(a, x) - Times(b, x)
  BY <1>4, <1>5
<1>8. ToBag(d) (-) ToBag(i) = ToBag(a) (-) ToBag(b)
  BY <1>7, SameDifference
<1>9. Register!Snapshot
  <2>1. /\ Register!(-)(Register!ToBag(b), Register!ToBag(a)) = ToBag(b) (-) ToBag(a)
        /\ Register!(-)(Register!ToBag(a), Register!ToBag(b)) = ToBag(a) (-) ToBag(b)
    BY RegisterBags
  <2> QED BY <1>2, <1>3, <1>6, <1>8, <2>1 DEF Register!Snapshot
<1> QED BY <1>9 DEF Exact, Register!ANext

LEMMA SameReport ==
  ASSUME CowInv, CowInv', Viewed'.items = Viewed.items, Newest'.items = Newest.items,
         data' = data, \A x : Times(Viewed'.ins, x) - Times(Viewed'.del, x)
                                = Times(Viewed.ins, x) - Times(Viewed.del, x)
  PROVE  Exact
<1>1. Viewed' \in Record
  <2>1. /\ current' \in Live' /\ (taken' # NULL => taken' \in Live')
    BY DEF CowInv, Owners, Held
  <2>2. heap' \in Heaps
    BY DEF CowInv, Types
  <2> QED BY <2>1, <2>2, LiveNext, SeenNext
<1>2. PICK i \in Seq(Items), d \in Seq(Items) : i = Viewed'.ins /\ d = Viewed'.del
  BY <1>1 DEF Record
<1>3. PICK a \in Seq(Items), b \in Seq(Items) : a = Viewed.ins /\ b = Viewed.del
  BY SeenIs
<1>4. \A x : Times(i, x) - Times(d, x) = Times(a, x) - Times(b, x)
  BY <1>2, <1>3
<1>5. \A x : /\ Times(i, x) \in Nat /\ Times(d, x) \in Nat
             /\ Times(a, x) \in Nat /\ Times(b, x) \in Nat
  BY TimesType
<1>6. ToBag(i) (-) ToBag(d) = ToBag(a) (-) ToBag(b)
  BY <1>4, SameDifference
<1>7. \A x : Times(d, x) - Times(i, x) = Times(b, x) - Times(a, x)
  BY <1>4, <1>5
<1>8. ToBag(d) (-) ToBag(i) = ToBag(b) (-) ToBag(a)
  BY <1>7, SameDifference
<1> QED BY <1>2, <1>3, <1>6, <1>8 DEF Exact, Register!avars

\* The reader's and the pending snapshot stay as they are.
LEMMA Unseen ==
  ASSUME CowInv, UNCHANGED <<pending, current, taken>>,
         \A b \in {pending, current, taken} \ {NULL} : heap'[b] = heap[b]
  PROVE  Viewed' = Viewed /\ Newest' = Newest /\ (pending # NULL => heap'[pending] = heap[pending])
<1>1. current # NULL
  BY CowAssumption DEF CowInv, Types
<1> QED BY <1>1, SeenIs, SeenNext

\* A step that changes neither these nor the writer's lists.
LEMMA QuietStep ==
  ASSUME CowInv, Counts, UNCHANGED <<pending, current, taken, data, ins, del>>,
         \A b \in {pending, current, taken} \ {NULL} : heap'[b] = heap[b],
         Emptied', Copied', Tells'
  PROVE  Counts' /\ Exact
<1>1. Viewed' = Viewed /\ Newest' = Newest /\ (pending # NULL => heap'[pending] = heap[pending])
  BY Unseen
<1>2. Gap' /\ Told' /\ Len(data') <= MaxLen
  BY <1>1 DEF Counts, Gap, Told, Delta
<1>3. Exact
  BY <1>1, Unmoved
<1> QED BY <1>2, <1>3 DEF Counts

\* An edit, and the items it adds to those that came and went.
LEMMA EditStep ==
  ASSUME CowInv, Counts, NEW i \in Seq(Items), NEW d \in Seq(Items),
         UNCHANGED <<pending, current, taken>>,
         \A b \in {pending, current, taken} \ {NULL} : heap'[b] = heap[b],
         Delta(i, d, data, data'), More(ins', ins, i), More(del', del, d),
         data' \in Seq(Items), Len(data') <= MaxLen, Emptied', Copied', Tells'
  PROVE  Counts' /\ Exact
<1>1. Viewed' = Viewed /\ Newest' = Newest /\ (pending # NULL => heap'[pending] = heap[pending])
  BY Unseen
<1>2. PICK s \in Seq(Items), t \in Seq(Items), n \in Seq(Items), p \in Seq(Items), q \in Seq(Items) :
        s = data /\ t = data' /\ n = Newest.items /\ p = ins /\ q = del
  BY SeenIs DEF CowInv, Types
<1>3. Delta(p, q, n, s)
  BY <1>2 DEF Counts, Gap
<1>4. Delta(i, d, s, t) /\ More(ins', p, i) /\ More(del', q, d)
  BY <1>2
<1>5. Delta(ins', del', n, t)
  BY <1>3, <1>4, DeltaMore
<1>7. Gap'
  BY <1>1, <1>2, <1>5 DEF Gap
<1>8. Told'
  BY <1>1 DEF Counts, Told, Delta
<1>9. Exact
  BY <1>1, Edited
<1> QED BY <1>7, <1>8, <1>9 DEF Counts

\* An edit keeps within the bound on the length of the list.
LEMMA EditFits ==
  ASSUME CowInv, Len(data) <= MaxLen, NEW e \in Edits
  PROVE  Len(e.data) <= MaxLen
<1>1. PICK d \in Seq(Items) : d = data
  BY DEF CowInv, Types
<1>2. PICK n \in Nat : n = Len(d) /\ DOMAIN d = 1 .. n /\ n <= MaxLen
  BY <1>1
<1>3. CASE e \in Inserts
  <2> DEFINE f(p, v) == Edit(InsertAt(data, p, v), <<v>>, <<>>)
  <2>1. Inserts = IF Len(data) = MaxLen THEN {}
                  ELSE {f(p, v) : p \in 1 .. Len(data) + 1, v \in Items}
    BY SMT DEF Inserts
  <2>2. /\ Len(data) # MaxLen
        /\ \E p \in 1 .. Len(data) + 1, v \in Items : e = f(p, v)
    <3> HIDE DEF f
    <3> QED BY <1>3, <2>1
  <2>3. PICK p \in 1 .. Len(d) + 1, v \in Items : e = Edit(InsertAt(d, p, v), <<v>>, <<>>)
    BY <1>1, <2>2
  <2>4. PICK t : t = InsertAt(d, p, v)
    OBVIOUS
  <2>5. e.data = t
    BY <2>3, <2>4 DEF Edit
  <2>6. Len(t) = n + 1
    BY <1>2, <2>4, InsertIs
  <2>7. n # MaxLen
    BY <1>1, <1>2, <2>2
  <2> QED BY <1>2, <2>5, <2>6, <2>7, CowAssumption
<1>4. CASE e \in Removes
  <2>1. \E p \in DOMAIN data : e = Edit(RemoveAt(data, p), <<>>, <<data[p]>>)
    BY <1>4, Zenon DEF Removes
  <2>2. PICK p \in 1 .. Len(d) : e = Edit(RemoveAt(d, p), <<>>, <<d[p]>>)
    BY <1>1, <1>2, <2>1
  <2>3. PICK t : t = RemoveAt(d, p)
    OBVIOUS
  <2>4. e.data = t
    BY <2>2, <2>3 DEF Edit
  <2>5. Len(t) = n - 1
    BY <1>2, <2>3, RemoveIs
  <2> QED BY <1>2, <2>4, <2>5, CowAssumption
<1>5. CASE e \in Moves
  <2>1. PICK p \in 1 .. Len(d), q \in 1 .. Len(d) :
          e = Edit(InsertAt(RemoveAt(d, p), q, d[p]), <<>>, <<>>)
    BY <1>1, <1>5 DEF Moves
  <2>2. PICK t, u, v : t = RemoveAt(d, p) /\ v = d[p] /\ u = InsertAt(t, q, v)
    OBVIOUS
  <2>3. e.data = u
    BY <2>1, <2>2 DEF Edit
  <2>4. t \in Seq(Items) /\ Len(t) = n - 1 /\ v \in Items
    BY <1>2, <2>2, RemoveIs
  <2>5. Len(u) = Len(t) + 1
    <3>1. q \in 1 .. Len(t) + 1
      BY <1>2, <2>4
    <3> QED BY <2>2, <2>4, <3>1, InsertIs
  <2> QED BY <1>2, <2>3, <2>4, <2>5
<1> QED BY <1>3, <1>4, <1>5 DEF Edits

LEMMA MutateExact ==
  ASSUME CowInv, Counts, NEW e \in Edits, Mutate(e)
  PROVE  Counts' /\ Exact
<1>1. /\ ReclaimRetired /\ data' = e.data /\ ins' = e.ins /\ del' = e.del
      /\ UNCHANGED <<pending, current, taken>> /\ wpc' = "load"
      /\ ins = <<>> /\ del = <<>>
  BY DEF Mutate, reader, Counts, Emptied
<1>2. \A b \in {pending, current, taken} \ {NULL} : heap'[b] = heap[b]
  BY <1>1, Reclaimed DEF Held
<1>3. PICK t, i, d : t = e.data /\ i = e.ins /\ d = e.del
  OBVIOUS
<1>4. /\ t \in Seq(Items) /\ i \in Seq(Items) /\ d \in Seq(Items)
      /\ \A x : Times(t, x) - Times(data, x) = Times(i, x) - Times(d, x)
  BY <1>3, EditIs DEF CowInv
<1>5. \A x : /\ Times(ins, x) = 0 /\ Times(del, x) = 0
             /\ Times(i, x) \in Nat /\ Times(d, x) \in Nat
  BY <1>1, <1>4, TimesNone, TimesType
<1>6. More(ins', ins, i) /\ More(del', del, d)
  BY <1>1, <1>3, <1>5 DEF More
<1>7. Len(t) <= MaxLen
  BY <1>3, EditFits DEF Counts
<1>8. Emptied' /\ Copied' /\ Tells'
  BY <1>1 DEF Emptied, Copied, Tells
<1>9. data' = t /\ Delta(i, d, data, t)
  BY <1>1, <1>3, <1>4 DEF Delta
<1> QED BY <1>1, <1>2, <1>4, <1>6, <1>7, <1>8, <1>9, EditStep

LEMMA BatchMutateExact ==
  ASSUME CowInv, Counts, NEW e \in Edits, BatchMutate(e)
  PROVE  Counts' /\ Exact
<1>1. /\ data' = e.data /\ ins' = ins \o e.ins /\ del' = del \o e.del
      /\ UNCHANGED <<heap, pending, current, taken, wpc, depth>> /\ dirty' = TRUE
      /\ wpc = "idle" /\ depth > 0 /\ depth \in Nat
  BY DEF BatchMutate, reader, CowInv, Types
<1>2. PICK t, i, d : t = e.data /\ i = e.ins /\ d = e.del
  OBVIOUS
<1>3. /\ t \in Seq(Items) /\ i \in Seq(Items) /\ d \in Seq(Items)
      /\ \A x : Times(t, x) - Times(data, x) = Times(i, x) - Times(d, x)
  BY <1>2, EditIs DEF CowInv
<1>4. ins \in Seq(Items) /\ del \in Seq(Items)
  BY DEF CowInv, Types
<1>5. Joined(ins', ins, i) /\ Joined(del', del, d)
  BY <1>1, <1>2 DEF Joined
<1>6. More(ins', ins, i)
  BY <1>3, <1>4, <1>5, TimesConcat DEF More
<1>7. More(del', del, d)
  BY <1>3, <1>4, <1>5, TimesConcat DEF More
<1>8. Len(t) <= MaxLen
  BY <1>2, EditFits DEF Counts
<1>9. Emptied' /\ Copied' /\ Tells'
  BY <1>1 DEF Emptied, Copied, Tells
<1>10. data' = t /\ Delta(i, d, data, t)
  BY <1>1, <1>2, <1>3 DEF Delta
<1>11. /\ \A b \in {pending, current, taken} \ {NULL} : heap'[b] = heap[b]
       /\ UNCHANGED <<pending, current, taken>>
  BY <1>1
<1> HIDE <1>1, <1>2
<1> QED BY <1>3, <1>6, <1>7, <1>8, <1>9, <1>10, <1>11, EditStep

LEMMA SortExact ==
  ASSUME CowInv, Counts, NEW s \in Sorts, Sort(s)
  PROVE  Counts' /\ Exact
<1>1. /\ data' = s /\ UNCHANGED <<heap, pending, current, taken, ins, del, wpc, depth>>
      /\ dirty' = TRUE /\ wpc = "idle" /\ depth > 0 /\ depth \in Nat
  BY DEF Sort, reader, CowInv, Types
<1>2. PICK c \in Seq(Items) : c = data /\ Len(c) <= MaxLen /\ DOMAIN c = 1 .. Len(c)
  BY DEF CowInv, Types, Counts
<1>3. s \in [1 .. Len(c) -> Items] /\ ToBag(s) = ToBag(c)
  BY <1>2 DEF Sorts
<1>4. s \in Seq(Items) /\ Len(s) = Len(c)
  BY <1>3
<1>5. \A x : Times(s, x) = Times(c, x)
  BY <1>3, <1>4, SameBag
<1>6. PICK z \in Seq(Items) : z = <<>>
  <2>1. <<>> \in Seq(Items)
    OBVIOUS
  <2> QED BY <2>1
<1>7. \A x : Times(z, x) = 0
  BY <1>6, TimesNone
<1>8. PICK i \in Seq(Items), d \in Seq(Items) : i = ins /\ d = del
  BY DEF CowInv, Types
<1>9. \A x : Times(c, x) \in Nat /\ Times(i, x) \in Nat /\ Times(d, x) \in Nat
  BY TimesType
<1>10. Delta(z, z, data, data') /\ More(ins', ins, z) /\ More(del', del, z)
  BY <1>1, <1>2, <1>5, <1>7, <1>8, <1>9 DEF Delta, More
<1>11. Emptied' /\ Copied' /\ Tells'
  BY <1>1 DEF Emptied, Copied, Tells
<1>12. data' \in Seq(Items) /\ Len(data') <= MaxLen
  BY <1>1, <1>2, <1>4
<1>13. /\ \A b \in {pending, current, taken} \ {NULL} : heap'[b] = heap[b]
       /\ UNCHANGED <<pending, current, taken>>
  BY <1>1
<1> QED BY <1>10, <1>11, <1>12, <1>13, EditStep

LEMMA LoadPendingExact ==
  ASSUME CowInv, Counts, LoadPending
  PROVE  Counts' /\ Exact
<1>1. /\ wpc' = "build" /\ UNCHANGED <<heap, pending, current, taken, data, ins, del>>
  BY DEF LoadPending, reader
<1>2. Emptied' /\ Copied' /\ Tells'
  BY <1>1 DEF Emptied, Copied, Tells
<1> QED BY <1>1, <1>2, QuietStep

LEMMA PeekPendingExact ==
  ASSUME CowInv, Counts, PeekPending
  PROVE  Counts' /\ Exact
<1>1. /\ wpc = "peek" /\ wpc' = "idle"
      /\ UNCHANGED <<heap, pending, current, taken, data, ins, del, depth, dirty>>
  BY DEF PeekPending, reader
<1>2. Emptied' /\ Copied' /\ Tells'
  BY <1>1 DEF Counts, Emptied, Copied, Tells
<1> QED BY <1>1, <1>2, QuietStep

LEMMA StartUpdateExact ==
  ASSUME CowInv, Counts, StartUpdate
  PROVE  Counts' /\ Exact
<1>1. /\ wpc = "idle" /\ depth \in Nat /\ depth' = depth + 1 /\ wpc' \in {"idle", "peek"}
      /\ depth # 0 => wpc' = "idle" /\ heap' = heap
      /\ depth = 0 => ReclaimRetired
      /\ UNCHANGED <<pending, current, taken, data, ins, del, dirty>>
  BY DEF StartUpdate, reader, CowInv, Types
<1>2. \A b \in {pending, current, taken} \ {NULL} : heap'[b] = heap[b]
  <2>1. CASE depth = 0
    BY <1>1, <2>1, Reclaimed DEF Held
  <2>2. CASE depth # 0
    BY <1>1, <2>2
  <2> QED BY <2>1, <2>2
<1>3. Emptied' /\ Copied' /\ Tells'
  BY <1>1 DEF Counts, Emptied, Copied, Tells
<1> QED BY <1>1, <1>2, <1>3, QuietStep

LEMMA EndUpdateExact ==
  ASSUME CowInv, Counts, EndUpdate
  PROVE  Counts' /\ Exact
<1>1. /\ wpc = "idle" /\ depth \in Nat /\ depth > 0 /\ depth' = depth - 1
      /\ UNCHANGED <<heap, pending, current, taken, data>>
  BY DEF EndUpdate, reader, CowInv, Types
<1>2. CASE depth > 1
  <2>1. UNCHANGED <<wpc, ins, del, dirty>>
    BY <1>2 DEF EndUpdate
  <2>2. Emptied' /\ Copied' /\ Tells'
    BY <1>1, <1>2, <2>1 DEF Counts, Emptied, Copied, Tells
  <2> QED BY <1>1, <2>1, <2>2, QuietStep
<1>3. CASE ~(depth > 1) /\ dirty
  <2>1. wpc' = "build" /\ UNCHANGED <<ins, del>>
    BY <1>3 DEF EndUpdate
  <2>2. Emptied' /\ Copied' /\ Tells'
    BY <2>1 DEF Emptied, Copied, Tells
  <2> QED BY <1>1, <2>1, <2>2, QuietStep
<1>4. CASE ~(depth > 1) /\ ~dirty
  <2>1. wpc' = "idle" /\ ins' = <<>> /\ del' = <<>>
    BY <1>4 DEF EndUpdate, Done
  <2>2. ins = <<>> /\ del = <<>>
    BY <1>1, <1>4 DEF Counts, Emptied
  <2>3. Emptied' /\ Copied' /\ Tells'
    BY <2>1 DEF Emptied, Copied, Tells
  <2> QED BY <1>1, <2>1, <2>2, <2>3, QuietStep
<1> QED BY <1>2, <1>3, <1>4

LEMMA BuildSnapshotExact ==
  ASSUME CowInv, Counts, BuildSnapshot
  PROVE  Counts' /\ Exact
<1>0. /\ wpc = "build" /\ wpc' = "cas"
      /\ UNCHANGED <<pending, retired, current, data, depth, dirty, ins, del, base, taken>>
  BY DEF BuildSnapshot, reader
<1>1. PICK a \in Snaps \ Live : heap' = [heap EXCEPT ![a] = Build(base, ins, del)] /\ new' = a
  BY DEF BuildSnapshot
<1>2. PICK r : r = Build(base, ins, del)
  OBVIOUS
<1>3. base \in Live \union {NULL}
  BY <1>0 DEF CowInv, Places
<1>4. /\ r \in Record /\ r.items = data
      /\ \A x : /\ Times(r.ins, x) =
                     Times(ins, x) + (IF base = NULL THEN 0 ELSE Times(heap[base].ins, x))
                /\ Times(r.del, x) =
                     Times(del, x) + (IF base = NULL THEN 0 ELSE Times(heap[base].del, x))
  BY <1>2, <1>3, BuildIs
<1>5. heap'[a] = r /\ \A b \in Snaps \ {a} : heap'[b] = heap[b]
  BY <1>1, <1>2, <1>4, WrittenOne DEF CowInv
<1>6. {pending, current, taken} \ {NULL} \subseteq Snaps \ {a}
  BY DEF CowInv, Owners, Held, Live
<1>7. \A b \in {pending, current, taken} \ {NULL} : heap'[b] = heap[b]
  BY <1>5, <1>6
<1>8. Viewed' = Viewed
  BY <1>0, <1>7, Unseen
<1>9. PICK p \in Seq(Items), q \in Seq(Items), s \in Seq(Items), v \in Seq(Items), n \in Seq(Items) :
        p = ins /\ q = del /\ s = data /\ v = Viewed.items /\ n = Newest.items
  BY SeenIs DEF CowInv, Types
<1>10. Delta(p, q, n, s)
  BY <1>9 DEF Counts, Gap
<1>11. ASSUME pending = base PROVE Delta(r.ins, r.del, v, s)
  <2>1. CASE base = NULL
    <3>1. n = v
      BY <1>9, <1>11, <2>1, SeenIs
    <3>2. \A x : Times(p, x) \in Nat /\ Times(q, x) \in Nat
      BY TimesType
    <3>3. \A x : Times(r.ins, x) = Times(p, x) /\ Times(r.del, x) = Times(q, x)
      BY <1>4, <1>9, <2>1, <3>2
    <3> QED BY <1>10, <3>1, <3>3 DEF Delta
  <2>2. CASE base # NULL
    <3>1. base \in Snaps /\ heap[base] \in Record
      BY <1>3, <2>2, LiveNow DEF CowInv
    <3>2. PICK i \in Seq(Items), d \in Seq(Items) : i = heap[base].ins /\ d = heap[base].del
      BY <3>1 DEF Record
    <3>3. n = heap[base].items
      BY <1>9, <1>11, <2>2, SeenIs
    <3>4. Delta(i, d, v, n)
      BY <1>9, <1>11, <2>2, <3>2, <3>3 DEF Counts, Told
    <3>5. \A x : /\ Times(p, x) \in Nat /\ Times(q, x) \in Nat
                 /\ Times(i, x) \in Nat /\ Times(d, x) \in Nat
      BY TimesType
    <3>6. More(r.ins, i, p) /\ More(r.del, d, q)
      BY <1>4, <1>9, <2>2, <3>2, <3>5 DEF More
    <3> QED BY <1>10, <3>4, <3>6, DeltaMore
  <2> QED BY <2>1, <2>2
<1>12. Tells' /\ Copied' /\ Emptied'
  BY <1>0, <1>1, <1>4, <1>5, <1>8, <1>9, <1>11 DEF Tells, Copied, Emptied
<1> QED BY <1>0, <1>7, <1>12, QuietStep

\* The snapshot at new is published.
LEMMA PublishStep ==
  ASSUME CowInv, Counts, new # NULL, pending' = new, new # current, new # taken,
         heap'[new] = heap[new], heap[new].items = data,
         Delta(heap[new].ins, heap[new].del, Viewed.items, data),
         \A b \in {current, taken} \ {NULL} : heap'[b] = heap[b],
         wpc' = "idle", ins' = <<>>, del' = <<>>, UNCHANGED <<current, taken, data>>
  PROVE  Counts' /\ Exact
<1>1. current # NULL
  BY CowAssumption DEF CowInv, Types
<1>2. Viewed' = Viewed /\ Newest' = heap[new]
  BY <1>1, SeenIs, SeenNext
<1>3. Emptied' /\ Copied' /\ Tells'
  BY DEF Emptied, Copied, Tells
<1>4. Gap'
  <2>1. PICK s \in Seq(Items) : s = data
    BY DEF CowInv, Types
  <2>2. \A x : Times(s, x) \in Nat /\ Times(<<>>, x) = 0
    BY TimesType, TimesNone
  <2>3. Delta(<<>>, <<>>, s, s)
    BY <2>2 DEF Delta
  <2> QED BY <1>2, <2>1, <2>3 DEF Gap
<1>5. Told'
  BY <1>2 DEF Told, Delta
<1>6. Exact
  BY <1>2, Published
<1> QED BY <1>3, <1>4, <1>5, <1>6 DEF Counts

LEMMA StorePendingExact ==
  ASSUME CowInv, Counts, StorePending
  PROVE  Counts' /\ Exact
<1>0. wpc = "cas" /\ UNCHANGED <<retired, current, data, depth, taken>> /\ depth = 0
  BY DEF CowInv, Places, StorePending, reader
<1>1. new # NULL /\ new \in Snaps /\ NULL \notin Snaps
  BY <1>0, CowAssumption DEF CowInv, Types, Places, Pointer
<1>2. CASE pending # base
  <2>1. wpc' = "reclaim" /\ UNCHANGED <<heap, pending, dirty, ins, del, base, new>>
    BY <1>2 DEF StorePending
  <2>2. Emptied' /\ Copied' /\ Tells'
    BY <2>1 DEF Emptied, Copied, Tells
  <2> QED BY <1>0, <2>1, <2>2, QuietStep
<1>3. CASE pending = base
  <2>0. /\ pending' = new /\ wpc' = "idle" /\ ins' = <<>> /\ del' = <<>>
        /\ heap' = IF base = NULL THEN heap ELSE [heap EXCEPT ![base] = Free]
    BY <1>3 DEF StorePending, Done
  <2>1. /\ current # base /\ (taken # NULL => taken # base) /\ new # base
        /\ current # NULL /\ new # current /\ new # taken
    <3>1. NULL \notin Live /\ current # NULL
      BY <1>1 DEF CowInv, Types, Live
    <3> QED BY <1>1, <1>3, <3>1 DEF CowInv, Owners, Held
  <2>2. \A b \in Snaps \ {base} : heap'[b] = heap[b]
    BY <2>0 DEF CowInv, Types, Heaps
  <2>3. \A b \in {current, taken, new} \ {NULL} : b \in Snaps \ {base}
    BY <2>1 DEF CowInv, Types, Pointer
  <2>4. heap'[new] = heap[new] /\ \A b \in {current, taken} \ {NULL} : heap'[b] = heap[b]
    BY <1>1, <2>2, <2>3
  <2>5. heap[new].items = data /\ Delta(heap[new].ins, heap[new].del, Viewed.items, data)
    BY <1>0, <1>3 DEF Counts, Copied, Tells
  <2> QED BY <1>0, <1>1, <2>0, <2>1, <2>4, <2>5, PublishStep
<1> QED BY <1>2, <1>3

LEMMA SetPendingExact ==
  ASSUME CowInv, Counts, SetPending
  PROVE  Counts' /\ Exact
<1>0. /\ wpc = "set" /\ new # NULL /\ pending' = new /\ wpc' = "idle"
      /\ ins' = <<>> /\ del' = <<>> /\ UNCHANGED <<heap, current, taken, data>>
  BY DEF CowInv, Places, SetPending, Done, reader
<1>1. new # current /\ new # taken
  BY <1>0 DEF CowInv, Owners
<1>2. heap[new].items = data /\ Delta(heap[new].ins, heap[new].del, Viewed.items, data)
  BY <1>0 DEF Counts, Copied, Tells
<1> QED BY <1>0, <1>1, <1>2, PublishStep

LEMMA RebuildExact ==
  ASSUME CowInv, Counts, Rebuild
  PROVE  Counts' /\ Exact
<1>0. /\ wpc = "reclaim" /\ wpc' = "set" /\ pending = NULL
      /\ UNCHANGED <<pending, current, data, depth, dirty, ins, del, base, taken>>
  BY DEF CowInv, Places, Rebuild, reader
<1>1. new # NULL /\ new \in Snaps /\ NULL \notin Snaps
  BY <1>0, CowAssumption DEF CowInv, Types, Places, Pointer
<1>2. PICK S : S = Backs \union {new}
  OBVIOUS
<1>3. PICK a \in (Snaps \ Live) \union S :
        heap' = [Without(S) EXCEPT ![a] = Build(NULL, ins, del)] /\ new' = a
  BY <1>2 DEF Rebuild, Backs
<1>4. PICK r : r = Build(NULL, ins, del)
  OBVIOUS
<1>5. /\ r \in Record /\ r.items = data
      /\ \A x : Times(r.ins, x) = Times(ins, x) + 0 /\ Times(r.del, x) = Times(del, x) + 0
  <2>1. NULL \in Live \union {NULL}
    OBVIOUS
  <2> QED BY <1>4, <2>1, BuildIs
<1>6. a \in Snaps
  BY <1>1, <1>2 DEF CowInv, Owners, Live
<1>7. heap'[a] = r /\ \A b \in Snaps \ (S \union {a}) : heap'[b] = heap[b]
  <2>1. r \in Record
    BY <1>5
  <2>2. heap' = [Without(S) EXCEPT ![a] = r]
    BY <1>3, <1>4
  <2>3. /\ heap' \in Heaps /\ Live' = (Live \ S) \union {a} /\ heap'[a] = r
        /\ \A b \in Snaps \ (S \union {a}) : heap'[b] = heap[b]
    BY <1>6, <2>1, <2>2, Written DEF CowInv
  <2> QED BY <2>3
<1>8. /\ current \in Snaps \ (S \union {a})
      /\ taken # NULL => taken \in Snaps \ (S \union {a})
  BY <1>1, <1>2, <1>3 DEF CowInv, Owners, Held, Live
<1>9. \A b \in {pending, current, taken} \ {NULL} : heap'[b] = heap[b]
  BY <1>0, <1>7, <1>8
<1>10. Viewed' = Viewed /\ Newest = Viewed
  BY <1>0, <1>9, Unseen, SeenIs
<1>11. Delta(r.ins, r.del, Viewed.items, data)
  <2>1. PICK p \in Seq(Items), q \in Seq(Items) : p = ins /\ q = del
    BY DEF CowInv, Types
  <2>2. \A x : Times(p, x) \in Nat /\ Times(q, x) \in Nat
    BY TimesType
  <2>3. \A x : Times(r.ins, x) = Times(ins, x) /\ Times(r.del, x) = Times(del, x)
    BY <1>5, <2>1, <2>2
  <2>4. Delta(ins, del, Viewed.items, data)
    BY <1>10 DEF Counts, Gap
  <2> QED BY <2>3, <2>4 DEF Delta
<1>12. Tells' /\ Copied' /\ Emptied'
  BY <1>0, <1>3, <1>5, <1>7, <1>10, <1>11 DEF Tells, Copied, Emptied
<1> QED BY <1>0, <1>9, <1>12, QuietStep

\* A step of the reader that shows it no other list.
LEMMA SameItems ==
  ASSUME Counts, Viewed'.items = Viewed.items, Newest'.items = Newest.items,
         UNCHANGED <<pending, data, depth, dirty, ins, del, base, new, wpc>>,
         pending # NULL => heap'[pending] = heap[pending],
         wpc \in {"cas", "set"} => heap'[new] = heap[new]
  PROVE  Counts'
<1>1. Gap' /\ Told'
  BY DEF Counts, Gap, Told, Delta
<1>2. Copied' /\ Tells' /\ Emptied'
  BY DEF Counts, Copied, Tells, Emptied, Delta
<1> QED BY <1>1, <1>2 DEF Counts

LEMMA TakePendingExact ==
  ASSUME CowInv, CowInv', Counts, TakePending
  PROVE  Counts' /\ Exact
<1>0. /\ rpc = "idle" /\ taken = NULL /\ pending' = NULL /\ taken' = pending
      /\ UNCHANGED <<current, data, depth, dirty, ins, del, base, new, wpc>>
  BY DEF CowInv, Places, TakePending, writer
<1>1. current \in Snaps /\ current \in Live /\ Viewed = heap[current]
  BY <1>0, SeenIs DEF CowInv, Types, Owners
<1>2. CASE pending = NULL
  <2>0. heap' = [heap EXCEPT ![current].ins = <<>>, ![current].del = <<>>]
    BY <1>2 DEF TakePending
  <2>1. PICK r : r = [heap[current] EXCEPT !.ins = <<>>, !.del = <<>>]
    OBVIOUS
  <2>2. heap[current] \in Record
    BY <1>1, LiveNow DEF CowInv
  <2>3. r.items = heap[current].items /\ r.ins = <<>> /\ r.del = <<>>
    BY <2>1, <2>2 DEF Record
  <2>4. heap' = [heap EXCEPT ![current] = r]
    BY <1>1, <2>0, <2>1 DEF CowInv, Types, Heaps
  <2>5. heap'[current] = r /\ \A b \in Snaps \ {current} : heap'[b] = heap[b]
    BY <1>1, <2>4 DEF CowInv, Types, Heaps
  <2>6. Viewed' = r /\ Newest' = r /\ Newest = Viewed
    BY <1>0, <1>2, <2>5, SeenIs, SeenNext
  <2>7. wpc \in {"cas", "set"} => new \in Snaps \ {current}
    BY DEF CowInv, Types, Places, Owners, Pointer
  <2>8. Counts'
    BY <1>0, <1>1, <1>2, <2>3, <2>5, <2>6, <2>7, SameItems
  <2>9. Delta(r.ins, r.del, Viewed.items, Newest.items)
    <3>1. PICK s \in Seq(Items) : s = Viewed.items /\ s = Newest.items
      BY <2>6, SeenIs
    <3>2. \A x : Times(s, x) \in Nat /\ Times(<<>>, x) = 0
      BY TimesType, TimesNone
    <3>3. Delta(<<>>, <<>>, s, s)
      BY <3>2 DEF Delta
    <3> QED BY <2>3, <3>1, <3>3
  <2>10. Exact
    BY <1>0, <1>1, <2>3, <2>6, <2>9, Snapshotted
  <2> QED BY <2>8, <2>10
<1>3. CASE pending # NULL
  <2>0. heap' = heap
    BY <1>3 DEF TakePending
  <2>1. Viewed' = Newest /\ Newest' = Newest /\ Newest = heap[pending]
    BY <1>0, <1>3, <2>0, SeenIs, SeenNext
  <2>2. Gap'
    BY <1>0, <2>1 DEF Counts, Gap, Delta
  <2>3. ~(wpc = "cas" /\ base = NULL) /\ wpc # "set"
    BY <1>3 DEF CowInv, Places
  <2>4. Tells' /\ Told'
    BY <1>0, <2>3 DEF Tells, Told
  <2>5. Copied' /\ Emptied'
    BY <1>0, <2>0 DEF Counts, Copied, Emptied
  <2>6. Delta(Newest.ins, Newest.del, Viewed.items, Newest.items)
    BY <1>3, <2>1 DEF Counts, Told
  <2>7. Exact
    BY <1>0, <2>1, <2>6, Snapshotted
  <2> QED BY <1>0, <2>2, <2>4, <2>5, <2>7 DEF Counts
<1> QED BY <1>2, <1>3

LEMMA ReconcileExact ==
  ASSUME CowInv, CowInv', Counts, Reconcile
  PROVE  Counts' /\ Exact
<1>0. /\ rpc = "reconcile" /\ heap' = [heap EXCEPT ![taken] = Cancel(@)]
      /\ UNCHANGED <<pending, current, taken, data, depth, dirty, ins, del, base, new, wpc>>
  BY DEF Reconcile, writer
<1>1. /\ taken # NULL /\ taken \in Snaps /\ taken \in Live /\ taken # current
      /\ taken # pending /\ taken # new
  BY <1>0, CowAssumption DEF CowInv, Types, Places, Owners, Held, Pointer
<1>2. heap[taken] \in Record /\ Viewed = heap[taken]
  BY <1>1, LiveNow, SeenIs DEF CowInv
<1>3. PICK r : r = Cancel(heap[taken])
  OBVIOUS
<1>4. /\ r.items = Viewed.items
      /\ \A x : Times(r.ins, x) - Times(r.del, x) = Times(Viewed.ins, x) - Times(Viewed.del, x)
  BY <1>2, <1>3, CancelApart
<1>5. heap'[taken] = r /\ \A b \in Snaps \ {taken} : heap'[b] = heap[b]
  BY <1>0, <1>1, <1>3 DEF CowInv, Types, Heaps
<1>6. /\ pending # NULL => pending \in Snaps \ {taken}
      /\ wpc \in {"cas", "set"} => new \in Snaps \ {taken}
  BY <1>1 DEF CowInv, Types, Places, Pointer
<1>7. Viewed' = r /\ Newest' = (IF pending = NULL THEN r ELSE Newest)
  BY <1>0, <1>1, <1>5, <1>6, SeenIs, SeenNext
<1>8. Viewed'.items = Viewed.items /\ Newest'.items = Newest.items
  <2>1. r.items = Viewed.items
    BY <1>4
  <2> QED BY <1>7, <2>1, SeenIs
<1>9. Counts'
  BY <1>0, <1>5, <1>6, <1>8, SameItems
<1>10. Exact
  BY <1>0, <1>4, <1>7, <1>8, SameReport
<1> QED BY <1>9, <1>10

\* The reader links its old snapshot, which is not the one it looks at.
LEMMA LinkExact ==
  ASSUME CowInv, Counts, taken # NULL,
         heap' = [heap EXCEPT ![current].next = retired],
         UNCHANGED <<pending, current, taken, data, depth, dirty, ins, del, base, new, wpc>>
  PROVE  Counts' /\ Exact
<1>1. /\ current \in Snaps /\ taken # current /\ taken \in Snaps
      /\ pending # NULL => pending \in Snaps \ {current}
      /\ wpc \in {"cas", "set"} => new \in Snaps \ {current}
  <2>1. Types /\ Owners /\ Places
    BY DEF CowInv
  <2>2. /\ current \in Snaps /\ taken \in Snaps /\ (pending # NULL => pending \in Snaps)
        /\ new # NULL => new \in Snaps
    BY <2>1 DEF Types, Pointer
  <2>3. current \notin {pending, taken, new}
    BY <2>1 DEF Owners
  <2>4. wpc \in {"cas", "set"} => new # NULL
    BY <2>1 DEF Places
  <2> QED BY <2>2, <2>3, <2>4
<1>2. \A b \in Snaps \ {current} : heap'[b] = heap[b]
  BY <1>1 DEF CowInv, Types, Heaps
<1>3. Viewed' = Viewed /\ Newest' = Newest
  BY <1>1, <1>2, SeenIs, SeenNext
<1>4. Counts'
  BY <1>1, <1>2, <1>3, SameItems
<1>5. Exact
  BY <1>3, Unmoved
<1> QED BY <1>4, <1>5

LEMMA LoadRetiredExact ==
  ASSUME CowInv, Counts, LoadRetired
  PROVE  Counts' /\ Exact
<1>1. taken # NULL
  BY DEF CowInv, Places, LoadRetired
<1> QED BY <1>1, LinkExact DEF LoadRetired, writer

LEMMA PushRetiredExact ==
  ASSUME CowInv, Counts, PushRetired
  PROVE  Counts' /\ Exact
<1>0. /\ rpc = "push" /\ taken # NULL
      /\ UNCHANGED <<pending, data, depth, dirty, ins, del, base, new, wpc>>
  BY DEF CowInv, Places, PushRetired, writer
<1>1. CASE retired # top
  BY <1>0, <1>1, LinkExact DEF PushRetired
<1>2. CASE retired = top
  <2>1. current' = taken /\ taken' = NULL /\ heap' = heap
    BY <1>2 DEF PushRetired
  <2>2. Viewed' = Viewed /\ Newest' = Newest
    BY <1>0, <2>1, SeenIs, SeenNext
  <2>3. Counts'
    BY <1>0, <2>1, <2>2, SameItems
  <2>4. Exact
    BY <1>0, <2>2, Unmoved
  <2> QED BY <2>3, <2>4
<1> QED BY <1>1, <1>2

LEMMA ResetCounts ==
  ASSUME CowInv, CowInv', Counts, Reset
  PROVE  Counts'
<1>0. /\ wpc = "idle" /\ depth = 0 /\ taken = NULL /\ ins = <<>> /\ del = <<>>
      /\ data' = <<>> /\ pending' = NULL
      /\ UNCHANGED <<depth, dirty, ins, del, base, new, wpc, taken>>
  BY DEF CowInv, Places, Counts, Emptied, Reset, reader
<1>1. PICK S : S = {pending, current} \union Backs
  OBVIOUS
<1>2. PICK a \in (Snaps \ Live) \union (S \ {NULL}) :
        heap' = [Without(S) EXCEPT ![a] = Snapshot(<<>>, <<>>, <<>>)] /\ current' = a
  BY <1>1 DEF Reset, Backs
<1>3. a \in Snaps
  BY <1>2 DEF CowInv, Types
<1>4. heap'[a].items = <<>>
  <2>1. heap'[a] = Snapshot(<<>>, <<>>, <<>>)
    BY <1>2, <1>3 DEF Without
  <2> QED BY <2>1 DEF Snapshot
<1>5. Newest'.items = <<>>
  BY <1>0, <1>2, <1>4, SeenNext
<1>6. Gap'
  <2>1. \A x : Times(<<>>, x) = 0
    BY TimesNone
  <2>2. Delta(<<>>, <<>>, <<>>, <<>>)
    BY <2>1 DEF Delta
  <2> QED BY <1>0, <1>5, <2>2 DEF Gap
<1>7. Len(data') <= MaxLen
  BY <1>0, CowAssumption
<1>8. Told' /\ Copied' /\ Tells' /\ Emptied'
  BY <1>0 DEF Told, Copied, Tells, Emptied
<1> QED BY <1>6, <1>7, <1>8 DEF Counts

LEMMA InitCounts ==
  ASSUME Init
  PROVE  Counts
<1>0. /\ wpc = "idle" /\ depth = 0 /\ taken = NULL /\ ins = <<>> /\ del = <<>>
      /\ data = <<>> /\ pending = NULL
  BY DEF Init
<1>1. heap[current].items = <<>>
  <2>1. heap[current] = Snapshot(<<>>, <<>>, <<>>)
    BY DEF Init
  <2> QED BY <2>1 DEF Snapshot
<1>2. Newest.items = <<>>
  BY <1>0, <1>1 DEF Newest, Viewed
<1>3. Gap
  <2>1. \A x : Times(<<>>, x) = 0
    BY TimesNone
  <2>2. Delta(<<>>, <<>>, <<>>, <<>>)
    BY <2>1 DEF Delta
  <2> QED BY <1>0, <1>2, <2>2 DEF Gap
<1>4. Len(data) <= MaxLen
  BY <1>0, CowAssumption
<1>5. Told /\ Copied /\ Tells /\ Emptied
  BY <1>0 DEF Told, Copied, Tells, Emptied
<1> QED BY <1>3, <1>4, <1>5 DEF Counts

LEMMA StepExact ==
  ASSUME UseClear = FALSE, CowInv, CowInv', Counts, [Next]_vars
  PROVE  Counts' /\ [~ Reset => Exact]_vars
<1>1. ASSUME NEW e \in Edits, Mutate(e) \/ BatchMutate(e)
      PROVE  Counts' /\ Exact
  BY <1>1, MutateExact, BatchMutateExact
<1>2. ASSUME NEW d \in Sorts, Sort(d)
      PROVE  Counts' /\ Exact
  BY <1>2, SortExact
<1>3. CASE StartUpdate \/ EndUpdate
  BY <1>3, StartUpdateExact, EndUpdateExact
<1>4. CASE WriterStep
  BY <1>4, LoadPendingExact, BuildSnapshotExact, StorePendingExact, RebuildExact,
     SetPendingExact, PeekPendingExact DEF WriterStep
<1>5. CASE TakePending \/ ReaderStep
  BY <1>5, TakePendingExact, ReconcileExact, LoadRetiredExact, PushRetiredExact
     DEF ReaderStep
<1>6. CASE Reset
  BY <1>6, ResetCounts
<1>7. CASE UNCHANGED vars
  <2>1. UNCHANGED <<heap, pending, current, taken, data, depth, dirty, ins, del, base, new, wpc>>
    BY <1>7 DEF vars, writer, reader
  <2>2. Emptied' /\ Copied' /\ Tells'
    <3>1. Viewed' = Viewed
      BY <2>1 DEF Viewed
    <3> QED BY <2>1, <3>1 DEF Counts, Emptied, Copied, Tells, Delta
  <2>3. Counts'
    BY <2>1, <2>2, QuietStep
  <2> QED BY <1>7, <2>3
<1>8. ~ Clear
  BY DEF Clear
<1> QED BY <1>1, <1>2, <1>3, <1>4, <1>5, <1>6, <1>7, <1>8 DEF Next

\* As long as the writer does not call Clear, snapshots are atomic: the reader
\* gets the lists the writer published, whole and as they were, and the
\* inserted and deleted items it is told are the difference to the list it had
\* before, whatever was merged, lost to a race, rebuilt or reconciled between.
THEOREM ReaderSeesExactDeltas ==
  ASSUME UseClear = FALSE
  PROVE  Spec => DeltaIsExact
<1>1. Init => Counts
  BY InitCounts
<1>2. CowInv /\ CowInv' /\ Counts /\ [Next]_vars => Counts' /\ [~ Reset => Exact]_vars
  BY StepExact
<1>3. [~ Reset => Exact]_vars => [~ Reset => Register!ANext \/ UNCHANGED Register!avars]_vars
  BY DEF Exact
<1> QED BY <1>1, <1>2, <1>3, InvHolds, PTL DEF Spec, DeltaIsExact
=============================================================================
