-------------------------- MODULE PrimitivesProofs --------------------------
(***************************************************************************)
(* Proofs about the smaller concurrent components, for any threads, values *)
(* and sizes.  A component keeps its initial state while another one runs, *)
(* so its inductive invariant holds whichever it is.                       *)
(***************************************************************************)
EXTENDS MCPrimitives, LinkedLists, TLAPS

-----------------------------------------------------------------------------
(* Locks: what each kind of lock knows of the threads inside *)

LockPlaces == {"idle", "try", "spin", "wait", "wait shared", "inside"}
LockGuards == [count : 0 .. MaxNested, exclusive : BOOLEAN]
Insiders == {t \in LockThreads : K!Inside(t)}

LockTypes ==
  /\ lock \in LockKinds /\ locked \in BOOLEAN /\ units \in 0 .. MaxUnits
  /\ owner \subseteq LockThreads /\ sharers \subseteq LockThreads
  /\ at \in [LockThreads -> LockPlaces] /\ guards \in [LockThreads -> LockGuards]

\* Only on a mutex does a thread that is inside wait again; only a slim lock has
\* guards that are not exclusive.
LockPlace(t) ==
  /\ at[t] \in {"try", "spin"} => lock = "spin"
  /\ at[t] \in {"wait", "wait shared"} => lock # "spin"
  /\ at[t] = "wait shared" => lock = "slim"
  /\ at[t] = "inside" => K!Inside(t)
  /\ at[t] \notin {"inside", "wait"} => ~K!Inside(t)
  /\ at[t] = "wait" /\ K!Inside(t) => lock = "mutex" /\ guards[t].count < MaxNested
  /\ guards[t].count > 1 => lock = "mutex"
  /\ ~guards[t].exclusive => lock = "slim" /\ K!Inside(t)

\* The flag is set, or the platform knows the thread, for every thread inside.
Holds(t) ==
  /\ lock = "spin" => locked /\ \A u \in LockThreads : K!Inside(u) => u = t
  /\ lock = "mutex" => owner = {t}
  /\ lock = "slim" /\ guards[t].exclusive => owner = {t} /\ sharers = {}
  /\ lock = "slim" /\ ~guards[t].exclusive => owner = {} /\ t \in sharers

\* Nobody else owns a mutex.
OwnerInside == lock = "mutex" => \A t \in owner : K!Inside(t)

UnitsKept == lock = "semaphore" => units + Cardinality(Insiders) = issued

LockInv ==
  /\ LockTypes /\ \A t \in LockThreads : LockPlace(t)
  /\ \A t \in LockThreads : K!Inside(t) => Holds(t)
  /\ OwnerInside /\ UnitsKept

\* The threads inside are finitely many; one more or one less counts as one.
LEMMA InsidersFinite ==
  /\ IsFiniteSet(Insiders) /\ Cardinality(Insiders) \in Nat
  /\ \A t \in LockThreads : Cardinality(Insiders \cup {t}) = IF t \in Insiders THEN Cardinality(Insiders) ELSE Cardinality(Insiders) + 1
  /\ \A t \in LockThreads : Cardinality(Insiders \ {t}) = IF t \in Insiders THEN Cardinality(Insiders) - 1 ELSE Cardinality(Insiders)
<1>1. IsFiniteSet(Insiders)
  BY LockAssumption, FS_Subset DEF Insiders
<1> QED BY <1>1, FS_CardinalityType, FS_AddElement, FS_RemoveElement

\* What the guards of a thread are.
LEMMA GuardsAre ==
  ASSUME LockInv, NEW t \in LockThreads
  PROVE  /\ guards[t] \in LockGuards /\ guards[t].exclusive \in BOOLEAN
         /\ guards[t].count \in Nat /\ guards[t].count <= MaxNested
         /\ ~K!Inside(t) => guards[t].count = 0
BY LockAssumption DEF LockInv, LockTypes, LockGuards, K!Inside

\* The guards of one thread change.
LEMMA GuardsSet ==
  ASSUME LockInv, NEW t \in LockThreads, NEW n \in 0 .. MaxNested, NEW x \in BOOLEAN,
         guards' = [guards EXCEPT ![t] = [count |-> n, exclusive |-> x]]
  PROVE  /\ guards' \in [LockThreads -> LockGuards]
         /\ guards'[t].count = n /\ guards'[t].exclusive = x /\ (K!Inside(t)' <=> n > 0)
         /\ \A u \in LockThreads \ {t} : guards'[u] = guards[u] /\ (K!Inside(u)' <=> K!Inside(u))
<1>1. guards \in [LockThreads -> LockGuards] /\ [count |-> n, exclusive |-> x] \in LockGuards
  BY DEF LockInv, LockTypes, LockGuards
<1> QED BY <1>1 DEF K!Inside

\* A call of a lock and what the thread knows as it starts.
LEMMA LockEnterKeeps ==
  ASSUME LockInv, NEW t \in LockThreads, NEW x \in BOOLEAN, K!Enter(t, x)
  PROVE  LockInv'
<1> USE LockAssumption
<1>1. LockTypes'
  BY DEF LockInv, LockTypes, K!Enter, K!Go, LockPlaces
<1>2. \A u \in LockThreads : LockPlace(u)'
  BY DEF LockInv, LockTypes, LockPlace, K!Enter, K!Go, LockPlaces, LockGuards, K!Inside
<1>3. Insiders' = Insiders /\ UNCHANGED <<lock, locked, owner, sharers, units, issued, guards>>
  BY DEF K!Enter, Insiders, K!Inside
<1> QED BY <1>1, <1>2, <1>3 DEF LockInv, Holds, OwnerInside, UnitsKept, K!Inside

\* A compare and swap gets in only while the flag is clear, so nobody is inside.
LEMMA TryEnterKeeps ==
  ASSUME LockInv, NEW t \in LockThreads, K!TryEnter(t)
  PROVE  LockInv'
<1> USE LockAssumption
<1>1. CASE locked
  <2>1. UNCHANGED <<lock, locked, owner, sharers, units, issued, guards>> /\ at' = [at EXCEPT ![t] = "spin"]
    BY <1>1 DEF K!TryEnter, K!Go
  <2>2. LockTypes' /\ \A u \in LockThreads : LockPlace(u)'
    BY <2>1 DEF LockInv, LockTypes, LockPlace, K!TryEnter, LockPlaces, K!Inside
  <2> QED BY <2>1, <2>2 DEF LockInv, Holds, OwnerInside, UnitsKept, Insiders, K!Inside
<1>2. CASE ~locked
  <2>1. /\ UNCHANGED <<lock, owner, sharers, units>> /\ at' = [at EXCEPT ![t] = "inside"]
        /\ locked' = TRUE /\ guards' = [guards EXCEPT ![t] = [count |-> @.count + 1, exclusive |-> TRUE]]
    BY <1>2 DEF K!TryEnter, K!Go, K!Guarded
  <2>2. lock = "spin" /\ guards[t].count = 0
    <3>1. at[t] = "try"
      BY DEF K!TryEnter
    <3> QED BY <3>1, GuardsAre DEF LockInv, LockPlace
  <2>8. PICK x \in BOOLEAN : x = TRUE
    OBVIOUS
  <2>3. guards' = [guards EXCEPT ![t] = [count |-> 1, exclusive |-> x]] /\ 1 \in 0 .. MaxNested
    BY <2>1, <2>2, <2>8
  <2>4. LockTypes'
    BY <2>1, <2>3, <2>8, GuardsSet DEF LockInv, LockTypes, LockPlaces
  <2>7. \A u \in LockThreads : LockPlace(u)'
    <3>1. /\ guards'[t].count = 1 /\ guards'[t].exclusive /\ K!Inside(t)'
          /\ \A u \in LockThreads \ {t} : guards'[u] = guards[u] /\ (K!Inside(u)' <=> K!Inside(u))
      <4>1. /\ guards'[t].count = 1 /\ guards'[t].exclusive = x /\ (K!Inside(t)' <=> 1 > 0)
            /\ \A u \in LockThreads \ {t} : guards'[u] = guards[u] /\ (K!Inside(u)' <=> K!Inside(u))
        BY <2>3, GuardsSet
      <4> QED BY <4>1, <2>8
    <3>2. at'[t] = "inside" /\ lock' = "spin" /\ \A u \in LockThreads \ {t} : at'[u] = at[u]
      BY <2>1, <2>2 DEF LockInv, LockTypes
    <3>3. LockPlace(t)'
      BY <3>1, <3>2 DEF LockPlace
    <3>4. ASSUME NEW u \in LockThreads \ {t} PROVE LockPlace(u)'
      <4>1. LockPlace(u) /\ lock' = lock
        BY <2>1 DEF LockInv
      <4> QED BY <3>1, <3>2, <4>1 DEF LockPlace
    <3> QED BY <3>3, <3>4
  <2>5. \A u \in LockThreads : ~K!Inside(u)
    BY <1>2, <2>2 DEF LockInv, Holds
  <2>6. \A u \in LockThreads : K!Inside(u)' => u = t
    BY <2>3, <2>5 DEF K!Inside, LockInv, LockTypes
  <2> QED BY <2>1, <2>2, <2>4, <2>6, <2>7 DEF LockInv, Holds, OwnerInside, UnitsKept
<1> QED BY <1>1, <1>2 DEF LockInv, LockTypes

\* A thread that spins, or gives up, owns nothing.
LEMMA WaitingKeeps ==
  ASSUME LockInv, NEW t \in LockThreads, K!Spin(t) \/ K!GiveUp(t) \/ K!TimeOut(t)
  PROVE  LockInv'
<1>1. UNCHANGED <<lock, locked, owner, sharers, units, issued, guards>>
  BY DEF K!Spin, K!GiveUp, K!TimeOut
<1>2. ~K!Inside(t)
  <2>1. at[t] \in {"spin", "wait shared"} => ~K!Inside(t)
    BY DEF LockInv, LockPlace
  <2>2. CASE at[t] = "wait" /\ K!TimeOut(t) /\ K!Inside(t)
    <3>1. lock = "mutex" /\ owner = {t}
      BY <2>2 DEF LockInv, LockPlace, Holds
    <3> QED BY <2>2, <3>1 DEF K!TimeOut, K!CanTake
  <2> QED BY <2>1, <2>2 DEF K!Spin, K!GiveUp, K!TimeOut
<1>3. LockTypes' /\ \A u \in LockThreads : LockPlace(u)'
  BY <1>1, <1>2 DEF LockInv, LockTypes, LockPlace, K!Spin, K!GiveUp, K!TimeOut, K!Go, LockPlaces, K!Inside
<1> QED BY <1>1, <1>3 DEF LockInv, Holds, OwnerInside, UnitsKept, Insiders, K!Inside

\* The platform lets a thread in when nobody is inside whom it must wait for.
LEMMA GrantedKeeps ==
  ASSUME LockInv, NEW t \in LockThreads, K!Granted(t)
  PROVE  LockInv'
<1> USE LockAssumption
<1> DEFINE x == (at[t] = "wait")
<1>1. /\ at[t] \in {"wait", "wait shared"} /\ lock \in {"slim", "mutex", "semaphore"}
      /\ x \/ lock = "slim"
      /\ lock = "slim" => owner = {} /\ (x => sharers = {})
      /\ lock = "mutex" => owner \subseteq {t}
      /\ lock = "semaphore" => units > 0
  <2>1. at[t] \in {"wait", "wait shared"} /\ K!CanTake(t) /\ LockPlace(t)
    BY DEF K!Granted, LockInv
  <2>2. lock \in {"slim", "mutex", "semaphore"} /\ (x \/ lock = "slim")
    BY <2>1 DEF LockPlace, LockInv, LockTypes
  <2>3. CASE ~x
    BY <2>1, <2>2, <2>3 DEF K!CanTake
  <2>4. CASE x
    BY <2>1, <2>2, <2>4 DEF K!CanTake
  <2> QED BY <2>1, <2>2, <2>3, <2>4
<1>2. /\ at' = [at EXCEPT ![t] = "inside"] /\ UNCHANGED <<lock, locked, issued>>
      /\ guards' = [guards EXCEPT ![t] = [count |-> @.count + 1, exclusive |-> x]]
      /\ owner' = (IF lock \in {"slim", "mutex"} /\ x THEN {t} ELSE owner)
      /\ sharers' = (IF x THEN sharers ELSE sharers \cup {t})
      /\ units' = (IF lock = "semaphore" THEN units - 1 ELSE units)
  BY <1>1 DEF K!Granted, K!Go, K!Guarded
<1>3. /\ guards[t].count \in 0 .. MaxNested - 1 /\ (lock # "mutex" => guards[t].count = 0)
      /\ guards[t].count # 0 <=> K!Inside(t)
  <2>1. guards[t].count > 0 => lock = "mutex" /\ guards[t].count < MaxNested
    BY <1>1 DEF LockInv, LockPlace, K!Inside
  <2> QED BY <2>1, GuardsAre DEF K!Inside
<1> HIDE DEF x
<1>4. PICK n \in 0 .. MaxNested - 1 : n = guards[t].count
  BY <1>3
<1>5. guards' = [guards EXCEPT ![t] = [count |-> n + 1, exclusive |-> x]] /\ x \in BOOLEAN
  BY <1>2, <1>4 DEF x
<1>6. /\ K!Inside(t)' /\ guards'[t].count = n + 1 /\ guards'[t].exclusive = x
      /\ \A u \in LockThreads \ {t} : guards'[u] = guards[u] /\ (K!Inside(u)' <=> K!Inside(u))
  <2>1. n + 1 \in 0 .. MaxNested /\ n + 1 > 0
    BY <1>4
  <2> QED BY <1>5, <2>1, GuardsSet
<1>7. LockTypes'
  <2>1. n + 1 \in 0 .. MaxNested
    BY <1>4
  <2>2. guards' \in [LockThreads -> LockGuards]
    BY <1>5, <2>1, GuardsSet
  <2>3. owner' \subseteq LockThreads /\ sharers' \subseteq LockThreads
    BY <1>2 DEF LockInv, LockTypes
  <2>4. units' \in 0 .. MaxUnits
    <3>1. units \in 0 .. MaxUnits /\ (lock = "semaphore" => units > 0)
      BY <1>1 DEF LockInv, LockTypes
    <3>2. units' = units \/ (lock = "semaphore" /\ units' = units - 1)
      BY <1>2
    <3> QED BY <3>1, <3>2
  <2> QED BY <1>2, <2>2, <2>3, <2>4 DEF LockInv, LockTypes, LockPlaces
<1>8. \A u \in LockThreads : LockPlace(u)'
  <2>1. LockPlace(t)'
    <3>1. at'[t] = "inside" /\ lock' = lock
      BY <1>2 DEF LockInv, LockTypes
    <3>2. n + 1 > 1 => lock = "mutex"
      BY <1>3, <1>4
    <3>3. ~x => lock = "slim"
      BY <1>1 DEF x
    <3> QED BY <1>6, <3>1, <3>2, <3>3 DEF LockPlace
  <2>2. \A u \in LockThreads \ {t} : LockPlace(u)'
    BY <1>2, <1>6 DEF LockPlace, LockInv, LockTypes
  <2> QED BY <2>1, <2>2
<1>9. \A u \in LockThreads : K!Inside(u)' => Holds(u)'
  <2>1. Holds(t)'
    BY <1>1, <1>2, <1>6 DEF Holds
  <2>2. ASSUME NEW u \in LockThreads \ {t}, K!Inside(u)' PROVE Holds(u)'
    <3>1. Holds(u) /\ guards'[u] = guards[u]
      BY <1>6, <2>2 DEF LockInv
    <3> QED BY <1>1, <1>2, <3>1 DEF Holds
  <2> QED BY <2>1, <2>2
<1>11. OwnerInside'
  BY <1>1, <1>2, <1>6 DEF LockInv, OwnerInside
<1>10. UnitsKept'
  <2> SUFFICES ASSUME lock = "semaphore" PROVE UnitsKept'
    BY <1>2 DEF UnitsKept, LockInv
  <2>1. ~K!Inside(t) /\ Insiders' = Insiders \cup {t}
    BY <1>3, <1>4, <1>6 DEF Insiders
  <2>2. Cardinality(Insiders') = Cardinality(Insiders) + 1
    BY <2>1, InsidersFinite DEF Insiders
  <2> QED BY <1>2, <2>2, InsidersFinite DEF UnitsKept, LockInv, LockTypes
<1> QED BY <1>7, <1>8, <1>9, <1>10, <1>11 DEF LockInv

\* The last guard of a thread lets it out of what it holds; an earlier one of a
\* mutex keeps it.
LEMMA LeaveKeeps ==
  ASSUME LockInv, NEW t \in LockThreads, K!Leave(t)
  PROVE  LockInv'
<1> USE LockAssumption
<1>1. PICK n \in 0 .. MaxNested, x \in BOOLEAN :
        n = guards[t].count /\ x = guards[t].exclusive /\ guards[t] = [count |-> n, exclusive |-> x]
  BY GuardsAre DEF LockGuards
<1>2. /\ at[t] = "inside" /\ K!Inside(t) /\ Holds(t) /\ n > 0
      /\ n > 1 => lock = "mutex"
      /\ ~x => lock = "slim"
  BY <1>1 DEF K!Leave, LockInv, LockPlace, K!Inside
<1>3. /\ owner' = (IF x /\ n = 1 THEN {} ELSE owner)
      /\ sharers' = (IF x THEN sharers ELSE sharers \ {t})
      /\ locked' = (IF lock = "spin" THEN FALSE ELSE locked)
      /\ issued' = (IF lock = "semaphore" THEN issued - 1 ELSE issued) /\ UNCHANGED <<lock, units>>
  BY <1>1 DEF K!Leave
<1>4. CASE n > 1
  <2>1. lock = "mutex" /\ x
    BY <1>2, <1>4
  <2>2. guards' = [guards EXCEPT ![t] = [count |-> n - 1, exclusive |-> x]]
    <3>1. [guards[t] EXCEPT !.count = guards[t].count - 1] = [count |-> n - 1, exclusive |-> x]
      BY <1>1
    <3>2. guards' = [guards EXCEPT ![t] = [guards[t] EXCEPT !.count = guards[t].count - 1]]
      <4>1. guards[t].count > 1
        BY <1>1, <1>4
      <4>2. guards' = IF guards[t].count > 1
                      THEN [guards EXCEPT ![t] = [guards[t] EXCEPT !.count = guards[t].count - 1]]
                      ELSE [guards EXCEPT ![t] = K!NoGuard]
        BY DEF K!Leave
      <4> QED BY <4>1, <4>2
    <3> QED BY <3>1, <3>2
  <2>3. at' = [at EXCEPT ![t] = "inside"]
    <3>1. guards[t].count # 1
      BY <1>1, <1>4
    <3>2. K!Go(t, IF guards[t].count = 1 THEN "idle" ELSE "inside")
      BY DEF K!Leave
    <3> QED BY <3>1, <3>2 DEF K!Go
  <2>4. n - 1 \in 0 .. MaxNested /\ n - 1 > 0
    BY <1>1, <1>4
  <2>5. /\ guards' \in [LockThreads -> LockGuards]
        /\ guards'[t].count = n - 1 /\ guards'[t].exclusive = x /\ K!Inside(t)'
        /\ \A u \in LockThreads \ {t} : guards'[u] = guards[u] /\ (K!Inside(u)' <=> K!Inside(u))
    BY <2>2, <2>4, GuardsSet
  <2>6. UNCHANGED <<owner, sharers, locked, units, issued, lock>> /\ at' = at
    BY <1>2, <1>3, <1>4, <2>1, <2>3 DEF LockInv, LockTypes
  <2>7. LockTypes'
    BY <2>5, <2>6 DEF LockInv, LockTypes
  <2>8. LockPlace(t)'
    BY <1>2, <2>1, <2>5, <2>6 DEF LockPlace
  <2>9. ASSUME NEW u \in LockThreads \ {t} PROVE LockPlace(u)'
    BY <2>5, <2>6 DEF LockInv, LockPlace
  <2>10. ASSUME NEW u \in LockThreads, K!Inside(u)' PROVE Holds(u)'
    <3>1. K!Inside(u)
      BY <1>2, <2>5, <2>10
    <3>2. Holds(u)
      BY <3>1 DEF LockInv
    <3> QED BY <2>1, <2>6, <3>2 DEF Holds
  <2>11. OwnerInside'
    <3>1. \A u \in LockThreads : K!Inside(u) => K!Inside(u)'
      BY <2>5
    <3>2. owner' = owner /\ lock' = lock
      BY <2>6
    <3> QED BY <3>1, <3>2 DEF LockInv, LockTypes, OwnerInside
  <2> QED BY <2>1, <2>6, <2>7, <2>8, <2>9, <2>10, <2>11 DEF LockInv, UnitsKept
<1>5. CASE n = 1
  <2>1. PICK y \in BOOLEAN : y = TRUE
    OBVIOUS
  <2>2. guards' = [guards EXCEPT ![t] = [count |-> 0, exclusive |-> y]]
    BY <1>1, <1>5, <2>1 DEF K!Leave, K!NoGuard
  <2>3. at' = [at EXCEPT ![t] = "idle"]
    BY <1>1, <1>5 DEF K!Leave, K!Go
  <2>4. 0 \in 0 .. MaxNested /\ ~(0 > 0)
    OBVIOUS
  <2>5. /\ guards' \in [LockThreads -> LockGuards]
        /\ guards'[t].count = 0 /\ guards'[t].exclusive = y /\ ~K!Inside(t)'
        /\ \A u \in LockThreads \ {t} : guards'[u] = guards[u] /\ (K!Inside(u)' <=> K!Inside(u))
    BY <2>2, <2>4, GuardsSet
  <2>6. guards'[t].exclusive
    BY <2>1, <2>5
  <2>7. at'[t] = "idle" /\ \A u \in LockThreads \ {t} : at'[u] = at[u]
    BY <2>3 DEF LockInv, LockTypes
  <2>8. LockTypes'
    <3>1. owner' \subseteq LockThreads /\ sharers' \subseteq LockThreads
      BY <1>3 DEF LockInv, LockTypes
    <3>3. units' \in 0 .. MaxUnits
      BY <1>3 DEF LockInv, LockTypes
    <3>4. locked' \in BOOLEAN
      BY <1>3 DEF LockInv, LockTypes
    <3> QED BY <1>3, <2>3, <2>5, <3>1, <3>3, <3>4 DEF LockInv, LockTypes, LockPlaces
  <2>9. LockPlace(t)'
    BY <2>5, <2>6, <2>7 DEF LockPlace
  <2>10. ASSUME NEW u \in LockThreads \ {t} PROVE LockPlace(u)'
    BY <1>3, <2>5, <2>7 DEF LockInv, LockPlace
  <2>11. ASSUME NEW u \in LockThreads, K!Inside(u)' PROVE Holds(u)'
    <3>1. u # t /\ K!Inside(u) /\ Holds(u) /\ guards'[u] = guards[u] /\ lock \in LockKinds
      BY <2>5, <2>11 DEF LockInv, LockTypes
    <3>2. CASE lock = "spin"
      BY <1>2, <3>1, <3>2 DEF Holds
    <3>3. CASE lock = "mutex"
      BY <1>2, <3>1, <3>3 DEF Holds
    <3>4. CASE lock = "slim"
      <4>1. ~x /\ ~guards[u].exclusive
        BY <1>1, <1>2, <3>1, <3>4 DEF Holds
      <4>2. owner = {} /\ u \in sharers
        BY <3>1, <3>4, <4>1 DEF Holds
      <4> QED BY <1>3, <3>1, <3>4, <4>1, <4>2 DEF Holds
    <3>5. CASE lock = "semaphore"
      BY <1>3, <3>5 DEF Holds
    <3> QED BY <3>1, <3>2, <3>3, <3>4, <3>5
  <2>12. UnitsKept'
    <3> SUFFICES ASSUME lock = "semaphore" PROVE UnitsKept'
      BY <1>3 DEF UnitsKept, LockInv
    <3>1. t \in Insiders /\ Insiders' = Insiders \ {t}
      BY <1>2, <2>5 DEF Insiders
    <3>2. Cardinality(Insiders') = Cardinality(Insiders) - 1
      BY <3>1, InsidersFinite
    <3> QED BY <1>3, <3>2, InsidersFinite DEF UnitsKept, LockInv, LockTypes
  <2>13. OwnerInside'
    <3>1. lock = "mutex" => x /\ owner' = {}
      BY <1>2, <1>3, <1>5
    <3> QED BY <1>3, <3>1 DEF OwnerInside
  <2> QED BY <2>8, <2>9, <2>10, <2>11, <2>12, <2>13 DEF LockInv
<1> QED BY <1>1, <1>2, <1>4, <1>5

\* The units given to a semaphore are there or with a thread inside.
LEMMA ReleaseKeeps ==
  ASSUME LockInv, NEW n \in 0 .. MaxUnits, K!Release(n) \/ K!InitAgain(n)
  PROVE  LockInv'
<1>1. /\ UNCHANGED <<lock, locked, owner, sharers, at, guards>>
      /\ \/ units + n <= MaxUnits /\ units' = units + n /\ issued' = issued + n
         \/ units' = n /\ issued' = (issued - units) + n
  BY DEF K!Release, K!InitAgain
<1>2. units \in 0 .. MaxUnits /\ units' \in 0 .. MaxUnits
  BY <1>1, LockAssumption DEF LockInv, LockTypes
<1>3. LockTypes' /\ \A t \in LockThreads : LockPlace(t)'
  BY <1>1, <1>2 DEF LockInv, LockTypes, LockPlace, K!Inside
<1>4. Insiders' = Insiders
  BY <1>1 DEF Insiders, K!Inside
<1>5. UnitsKept'
  BY <1>1, <1>2, <1>4, InsidersFinite DEF LockInv, UnitsKept
<1> QED BY <1>1, <1>3, <1>5 DEF LockInv, Holds, OwnerInside, K!Inside

\* Every step.
LEMMA LockStep == LockInv /\ K!Next => LockInv'
<1>1. \A n \in 1 .. MaxUnits : n \in 0 .. MaxUnits
  BY LockAssumption
<1> QED BY <1>1, LockEnterKeeps, TryEnterKeeps, WaitingKeeps, GrantedKeeps, LeaveKeeps, ReleaseKeeps
        DEF K!Next, K!Step

LEMMA LockStay == LockInv /\ UNCHANGED lockVars => LockInv'
<1> SUFFICES ASSUME LockInv, UNCHANGED lockVars PROVE LockInv'
  OBVIOUS
<1>1. UNCHANGED <<lock, locked, owner, sharers, units, issued, at, guards>>
  BY DEF lockVars
<1>2. LockTypes' /\ \A t \in LockThreads : LockPlace(t)'
  BY <1>1 DEF LockInv, LockTypes, LockPlace, K!Inside
<1>3. Insiders' = Insiders
  BY <1>1 DEF Insiders, K!Inside
<1> QED BY <1>1, <1>2, <1>3 DEF LockInv, Holds, OwnerInside, UnitsKept, K!Inside

LEMMA LockInit == K!Init => LockInv
<1> SUFFICES ASSUME K!Init PROVE LockInv
  OBVIOUS
<1>1. PICK y \in BOOLEAN : y = TRUE
  OBVIOUS
<1>2. guards = [t \in LockThreads |-> [count |-> 0, exclusive |-> y]] /\ 0 \in 0 .. MaxNested
  BY <1>1, LockAssumption DEF K!Init, K!NoGuard
<1>3. guards \in [LockThreads -> LockGuards]
  BY <1>2 DEF LockGuards
<1>4. \A t \in LockThreads : ~K!Inside(t) /\ guards[t].count = 0 /\ guards[t].exclusive
  BY <1>1, <1>2 DEF K!Inside
<1>5. LockTypes
  BY <1>3, LockAssumption DEF K!Init, LockTypes, LockPlaces
<1>6. \A t \in LockThreads : LockPlace(t)
  BY <1>4 DEF K!Init, LockPlace
<1>7. UnitsKept
  <2>1. Insiders = {}
    BY <1>4 DEF Insiders
  <2> QED BY <2>1, FS_EmptySet, LockAssumption DEF UnitsKept, K!Init
<1>8. OwnerInside
  BY DEF OwnerInside, K!Init
<1> QED BY <1>4, <1>5, <1>6, <1>7, <1>8 DEF LockInv

LEMMA LockSafe ==
  ASSUME LockInv
  PROVE  K!TypeOK /\ K!Exclusion
<1>1. \A t \in LockThreads : guards[t].count \in 0 .. MaxNested
  BY GuardsAre, LockAssumption
<1>2. units \in 0 .. MaxUnits
  BY DEF LockInv, LockTypes
<1>3. \A t \in LockThreads : at[t] \in LockPlaces
  BY DEF LockInv, LockTypes
<1>4. K!TypeOK
  BY <1>1, <1>2, <1>3 DEF LockInv, LockTypes, LockPlaces, K!TypeOK
<1>5. ASSUME NEW t \in LockThreads, NEW u \in LockThreads, t # u, K!Inside(t), K!Inside(u),
             lock # "semaphore"
      PROVE  lock = "slim" /\ ~guards[t].exclusive /\ ~guards[u].exclusive
  <2>1. Holds(t) /\ Holds(u) /\ lock \in {"spin", "slim", "mutex"}
    BY <1>5, LockAssumption DEF LockInv, LockTypes
  <2>2. lock = "slim"
    BY <1>5, <2>1 DEF Holds
  <2> QED BY <1>5, <2>1, <2>2 DEF Holds
<1>6. K!Exclusion
  <2>1. lock = "semaphore" => units + K!Cardinality({t \in LockThreads : K!Inside(t)}) = issued
    BY DEF LockInv, UnitsKept, Insiders, K!Cardinality, Cardinality
  <2>2. ASSUME NEW t \in LockThreads, NEW u \in LockThreads, t # u /\ K!Inside(t) /\ K!Inside(u)
        PROVE  \/ lock = "slim" /\ ~guards[t].exclusive /\ ~guards[u].exclusive
               \/ lock = "semaphore"
    BY <1>5, <2>2
  <2>3. lock = "mutex" => \A t \in LockThreads : K!IsHeld(t) <=> K!Inside(t)
    BY DEF LockInv, Holds, OwnerInside, K!IsHeld
  <2> QED BY <2>1, <2>2, <2>3 DEF K!Exclusion
<1> QED BY <1>4, <1>6

\* One thread at a time is inside a SpinLock, a Mutex or an exclusive SlimLock,
\* at every moment of TrySet, Wait and Leave, and IsHeld of a Mutex is true for
\* that thread alone; the units released to a Semaphore and not used up are
\* those of the threads inside and those left.
THEOREM LocksExclude == Spec => [](K!TypeOK /\ K!Exclusion)
<1>1. Init => LockInv
  BY LockInit DEF Init
<1>2. LockInv /\ [Next]_vars => LockInv'
  BY LockStep, LockStay DEF Next, vars
<1> QED BY <1>1, <1>2, LockSafe, PTL DEF Spec
-----------------------------------------------------------------------------
(* AtomicStruct: the counter tells a reader how far the writer has got *)

\* A number below w is its own remainder, and w has none.
LEMMA Remainders ==
  ASSUME NEW w \in Nat \ {0}
  PROVE  w % w = 0 /\ \A m \in 0 .. w - 1 : m % w = m
<1>1. ASSUME NEW m \in 0 .. w PROVE m % w = IF m = w THEN 0 ELSE m
  <2>1. PICK q \in Nat, r \in 0 .. w - 1 : m = w * q + r /\ r = m % w
    <3>1. m % w \in 0 .. w - 1 /\ m \div w \in Nat /\ m = w * (m \div w) + (m % w)
      OBVIOUS
    <3> QED BY <3>1
  <2>2. CASE q = 0
    BY <2>1, <2>2
  <2>3. CASE q > 0
    <3>1. PICK k \in Nat : q = k + 1
      <4>1. q - 1 \in Nat /\ q = (q - 1) + 1
        BY <2>3
      <4> QED BY <4>1
    <3>2. w * (k + 1) = w * k + w /\ w * k \in Nat
      OBVIOUS
    <3>3. m = w * k + w + r
      BY <2>1, <3>1, <3>2
    <3> QED BY <2>1, <3>2, <3>3
  <2> QED BY <2>2, <2>3
<1>2. w \in 0 .. w /\ \A m \in 0 .. w - 1 : m \in 0 .. w /\ m # w
  OBVIOUS
<1> QED BY <1>1, <1>2

\* The counter goes round, an odd one becomes even and an even one odd.
LEMMA CounterTurns ==
  ASSUME NEW n \in 0 .. SeqWord - 1
  PROVE  /\ A!Add1(n) \in 0 .. SeqWord - 1 /\ A!Add1(n) = (IF n + 1 = SeqWord THEN 0 ELSE n + 1)
         /\ A!Add1(n) % 2 = 1 - (n % 2)
<1> USE StructAssumption
<1>1. CASE n + 1 = SeqWord
  <2>1. A!Add1(n) = 0
    BY <1>1, Remainders DEF A!Add1
  <2>2. n % 2 = 1 /\ 0 % 2 = 0
    BY <1>1
  <2> QED BY <1>1, <2>1, <2>2
<1>2. CASE n + 1 # SeqWord
  <2>1. n + 1 \in 0 .. SeqWord - 1
    BY <1>2
  <2>2. A!Add1(n) = n + 1
    BY <2>1, Remainders DEF A!Add1
  <2>3. (n + 1) % 2 = 1 - (n % 2)
    OBVIOUS
  <2> QED BY <1>2, <2>1, <2>2, <2>3
<1> QED BY <1>1, <1>2

\* What words hold, and what copies of structures are, torn or whole.
WordValues == UNION {{v[w] : w \in Words} : v \in Structs}
Copies == [Words -> WordValues]

\* How far the counter has gone since the Get read it, and what the Set in
\* progress is going to add.
Gone == IF sequence >= getter.seq1 THEN sequence - getter.seq1 ELSE sequence - getter.seq1 + SeqWord
Ahead == IF setter.at = "odd" THEN 2 ELSE IF setter.at = "copy" THEN 1 ELSE 0

StructTypes ==
  /\ sequence \in 0 .. SeqWord - 1 /\ races \in 0 .. MaxRaces
  /\ setter \in [at : {"idle", "odd", "copy"}, in : Structs, todo : SUBSET Words]
  /\ getter \in [at : {"idle", "seq1", "copy", "done"}, seq1 : 0 .. SeqWord - 1,
                 out : Copies, todo : SUBSET Words]
  /\ value \in Copies /\ whole \in Structs /\ current \subseteq Structs

\* The counter is odd while value is in parts.
Setting ==
  /\ sequence % 2 = (IF setter.at = "copy" THEN 1 ELSE 0)
  /\ setter.at # "copy" => value = whole
  /\ setter.at = "odd" => setter.todo = Words
  /\ setter.at = "copy" => \A w \in Words \ setter.todo : value[w] = setter.in[w]

\* A counter that has the value the Get read has not changed, rather than gone
\* round, and what the Get has copied is of the structure that is whole.
Getting ==
  /\ getter.at # "idle" => whole \in current
  /\ getter.at = "copy" =>
       /\ Gone + Ahead <= 2 * races + 2
       /\ sequence = getter.seq1 =>
            setter.at # "copy" /\ \A w \in Words \ getter.todo : getter.out[w] = whole[w]
  /\ getter.at = "done" => getter.out \in current

StructInv == StructTypes /\ Setting /\ Getting

\* Structures are copies.
LEMMA StructsAre == Structs \subseteq Copies
BY StructAssumption DEF Copies, WordValues

\* The counter moves away from what the Get read.
LEMMA GoneTurns ==
  ASSUME StructTypes, getter' = getter, sequence' = A!Add1(sequence), Gone < 2 * races + 2
  PROVE  Gone' = Gone + 1 /\ sequence' # getter.seq1
<1>1. getter.seq1 \in 0 .. SeqWord - 1 /\ sequence \in 0 .. SeqWord - 1 /\ races \in 0 .. MaxRaces
  BY DEF StructTypes
<1>2. sequence' = (IF sequence + 1 = SeqWord THEN 0 ELSE sequence + 1)
  BY <1>1, CounterTurns
<1>3. Gone + 1 < SeqWord
  BY <1>1, StructAssumption DEF Gone
<1> QED BY <1>1, <1>2, <1>3, StructAssumption DEF Gone

\* The numbers of a Get.
LEMMA GoneIs ==
  ASSUME StructTypes
  PROVE  /\ getter.seq1 \in Nat /\ sequence \in Nat /\ races \in Nat /\ Ahead \in 0 .. 2
         /\ Gone \in Nat /\ (Gone = 0 <=> sequence = getter.seq1)
<1>1. getter.seq1 \in 0 .. SeqWord - 1 /\ sequence \in 0 .. SeqWord - 1 /\ races \in 0 .. MaxRaces
  BY DEF StructTypes
<1>2. Ahead \in 0 .. 2
  BY DEF Ahead
<1>3. Gone \in Nat /\ (Gone = 0 <=> sequence = getter.seq1)
  <2>1. PICK p \in 0 .. SeqWord - 1, q \in 0 .. SeqWord - 1 : p = getter.seq1 /\ q = sequence
    BY <1>1
  <2>2. Gone = IF q >= p THEN q - p ELSE q - p + SeqWord
    BY <2>1 DEF Gone
  <2> QED BY <2>1, <2>2, StructAssumption
<1> QED BY <1>1, <1>2, <1>3, StructAssumption

\* Set copies in.
LEMMA CallSetKeeps ==
  ASSUME StructInv, NEW v \in Structs, A!CallSet(v)
  PROVE  StructInv'
<1>1. /\ setter.at = "idle" /\ setter' = [at |-> "odd", in |-> v, todo |-> Words]
      /\ UNCHANGED <<sequence, value, getter, whole, current>>
      /\ races' = (IF getter.at = "idle" THEN 0 ELSE races + 1) /\ races' \in 0 .. MaxRaces
  BY StructAssumption DEF A!CallSet, StructInv, StructTypes
<1>2. StructTypes'
  BY <1>1 DEF StructInv, StructTypes
<1>3. Setting'
  BY <1>1 DEF StructInv, Setting
<1>4. getter.at = "copy" => Gone' = Gone /\ Gone + 2 <= 2 * (races + 1) + 2
  <2>1. Gone' = Gone
    BY <1>1 DEF Gone
  <2>2. getter.at = "copy" => Gone <= 2 * races + 2
    BY <1>1, GoneIs DEF StructInv, Getting, Ahead
  <2> QED BY <2>1, <2>2, GoneIs DEF StructInv
<1>5. Getting'
  <2>1. setter'.at = "odd" /\ (getter.at = "copy" => races' = races + 1)
    BY <1>1
  <2> QED BY <1>1, <1>4, <2>1 DEF StructInv, Getting, Ahead
<1> QED BY <1>2, <1>3, <1>5 DEF StructInv

LEMMA MakeOddKeeps ==
  ASSUME StructInv, A!MakeOdd
  PROVE  StructInv'
<1>1. /\ setter.at = "odd" /\ setter' = [setter EXCEPT !.at = "copy"] /\ sequence' = A!Add1(sequence)
      /\ UNCHANGED <<value, getter, whole, current, races>>
  BY DEF A!MakeOdd
<1>2. sequence \in 0 .. SeqWord - 1 /\ sequence' \in 0 .. SeqWord - 1 /\ sequence' % 2 = 1 - (sequence % 2)
  BY <1>1, CounterTurns DEF StructInv, StructTypes
<1>3. setter'.at = "copy" /\ setter'.todo = setter.todo /\ setter'.in = setter.in
  BY <1>1 DEF StructInv, StructTypes
<1>4. StructTypes'
  BY <1>1, <1>2 DEF StructInv, StructTypes
<1>5. setter.todo = Words
  BY <1>1 DEF StructInv, Setting
<1>6. Setting'
  BY <1>1, <1>2, <1>3, <1>5 DEF StructInv, Setting
<1>7. getter.at = "copy" => Gone' = Gone + 1 /\ Gone + 2 <= 2 * races + 2 /\ sequence' # getter.seq1
  <2>1. Ahead = 2
    BY <1>1 DEF Ahead
  <2>2. getter.at = "copy" => Gone + 2 <= 2 * races + 2
    BY <2>1 DEF StructInv, Getting
  <2>3. getter.at = "copy" => Gone < 2 * races + 2
    BY <2>2, GoneIs DEF StructInv
  <2> QED BY <1>1, <2>2, <2>3, GoneTurns DEF StructInv
<1>8. Getting'
  <2>1. Ahead' = 1
    BY <1>3 DEF Ahead
  <2>2. getter.at = "copy" => Gone' + Ahead' <= 2 * races + 2
    BY <1>7, <2>1, GoneIs DEF StructInv
  <2> QED BY <1>1, <1>7, <2>2 DEF StructInv, Getting
<1> QED BY <1>4, <1>6, <1>8 DEF StructInv

\* A word more of what is set.
LEMMA CopyInKeeps ==
  ASSUME StructInv, NEW w \in Words, A!CopyIn(w)
  PROVE  StructInv'
<1>1. /\ setter.at = "copy" /\ w \in setter.todo
      /\ value' = [value EXCEPT ![w] = setter.in[w]]
      /\ setter' = [setter EXCEPT !.todo = setter.todo \ {w}]
      /\ UNCHANGED <<sequence, getter, whole, current, races>>
  BY DEF A!CopyIn
<1>2. setter'.at = "copy" /\ setter'.todo = setter.todo \ {w} /\ setter'.in = setter.in
  BY <1>1 DEF StructInv, StructTypes
<1>3. value \in Copies /\ setter.in \in Copies /\ setter.in[w] \in WordValues
  BY StructsAre DEF StructInv, StructTypes, Copies
<1>4. value' \in Copies
  BY <1>1, <1>3 DEF Copies
<1>5. StructTypes'
  BY <1>1, <1>4 DEF StructInv, StructTypes
<1>6. Setting'
  <2>1. \A u \in Words : value'[u] = IF u = w THEN setter.in[w] ELSE value[u]
    BY <1>1, <1>3 DEF Copies
  <2> QED BY <1>1, <1>2, <2>1 DEF StructInv, Setting
<1>7. Getting'
  <2>1. Gone' = Gone /\ Ahead' = Ahead
    BY <1>1, <1>2 DEF Gone, Ahead
  <2> QED BY <1>1, <1>2, <2>1 DEF StructInv, Getting
<1> QED BY <1>5, <1>6, <1>7 DEF StructInv

\* The structure is whole again.
LEMMA MakeEvenKeeps ==
  ASSUME StructInv, A!MakeEven
  PROVE  StructInv'
<1>1. /\ setter.at = "copy" /\ setter.todo = {} /\ sequence' = A!Add1(sequence)
      /\ setter' = A!SetIdle /\ whole' = value
      /\ current' = (IF getter.at = "idle" THEN {} ELSE current \cup {value})
      /\ UNCHANGED <<value, getter, races>>
  BY DEF A!MakeEven
<1>2. sequence \in 0 .. SeqWord - 1 /\ sequence' \in 0 .. SeqWord - 1 /\ sequence' % 2 = 1 - (sequence % 2)
  BY <1>1, CounterTurns DEF StructInv, StructTypes
<1>3. setter' = [at |-> "idle", in |-> CHOOSE v \in Structs : TRUE, todo |-> {}]
      /\ (CHOOSE v \in Structs : TRUE) \in Structs
  BY <1>1, StructAssumption DEF A!SetIdle
<1>4. value \in Structs
  <2>1. value \in Copies /\ setter.in \in Copies /\ setter.in \in Structs
    BY StructsAre DEF StructInv, StructTypes
  <2>2. \A w \in Words : value[w] = setter.in[w]
    BY <1>1 DEF StructInv, Setting
  <2>3. value = setter.in
    BY <2>1, <2>2 DEF Copies
  <2> QED BY <2>1, <2>3
<1>5. StructTypes'
  BY <1>1, <1>2, <1>3, <1>4 DEF StructInv, StructTypes
<1>6. Setting'
  BY <1>1, <1>2, <1>3 DEF StructInv, Setting
<1>7. getter.at = "copy" => Gone' = Gone + 1 /\ Gone + 1 <= 2 * races + 2 /\ sequence' # getter.seq1
  <2>1. Ahead = 1
    BY <1>1 DEF Ahead
  <2>2. getter.at = "copy" => Gone + 1 <= 2 * races + 2
    BY <2>1 DEF StructInv, Getting
  <2>3. getter.at = "copy" => Gone < 2 * races + 2
    BY <2>2, GoneIs DEF StructInv
  <2> QED BY <1>1, <2>2, <2>3, GoneTurns DEF StructInv
<1>8. Getting'
  <2>1. Ahead' = 0
    BY <1>3 DEF Ahead
  <2>2. getter.at = "copy" => Gone' + Ahead' <= 2 * races + 2
    BY <1>7, <2>1, GoneIs DEF StructInv
  <2> QED BY <1>1, <1>7, <2>2 DEF StructInv, Getting
<1> QED BY <1>5, <1>6, <1>8 DEF StructInv

\* A Get begins, and what is whole then counts.
LEMMA CallGetKeeps ==
  ASSUME StructInv, A!CallGet
  PROVE  StructInv'
<1>1. /\ getter.at = "idle" /\ getter' = [getter EXCEPT !.at = "seq1"]
      /\ current' = {whole} /\ races' = 0 /\ UNCHANGED <<sequence, value, setter, whole>>
  BY DEF A!CallGet
<1>2. getter'.at = "seq1"
  BY <1>1 DEF StructInv, StructTypes
<1>3. StructTypes'
  BY <1>1, StructAssumption DEF StructInv, StructTypes
<1>4. Setting'
  BY <1>1 DEF StructInv, Setting
<1>5. Getting'
  BY <1>1, <1>2 DEF Getting
<1> QED BY <1>3, <1>4, <1>5 DEF StructInv

\* It reads an even counter, so nothing is being set,
LEMMA LoadSeq1Keeps ==
  ASSUME StructInv, A!LoadSeq1
  PROVE  StructInv'
<1>1. /\ getter.at = "seq1" /\ sequence % 2 = 0
      /\ getter' = [getter EXCEPT !.at = "copy", !.seq1 = sequence, !.todo = Words]
      /\ UNCHANGED <<sequence, value, setter, whole, current, races>>
  BY DEF A!LoadSeq1
<1>2. getter'.at = "copy" /\ getter'.seq1 = sequence /\ getter'.todo = Words
  BY <1>1 DEF StructInv, StructTypes
<1>3. StructTypes'
  BY <1>1 DEF StructInv, StructTypes
<1>4. Setting' /\ setter.at # "copy"
  BY <1>1 DEF StructInv, Setting
<1>5. Getting'
  <2>1. Ahead' \in 0 .. 2 /\ Gone' = 0 /\ races' \in Nat
    BY <1>1, <1>2, <1>3, GoneIs DEF StructInv, StructTypes, Gone, Ahead
  <2>2. Gone' + Ahead' <= 2 * races' + 2
    <3>1. PICK n \in Nat, d \in 0 .. 2 : n = races' /\ d = Ahead'
      BY <2>1
    <3>2. 0 + d <= 2 * n + 2
      OBVIOUS
    <3> QED BY <2>1, <3>1, <3>2
  <2>3. whole \in current
    BY <1>1 DEF StructInv, Getting
  <2> QED BY <1>1, <1>2, <1>4, <2>2, <2>3 DEF Getting
<1> QED BY <1>3, <1>4, <1>5 DEF StructInv

\* copies a word out,
LEMMA CopyOutKeeps ==
  ASSUME StructInv, NEW w \in Words, A!CopyOut(w)
  PROVE  StructInv'
<1>1. /\ getter.at = "copy" /\ w \in getter.todo
      /\ getter' = [getter EXCEPT !.out = [getter.out EXCEPT ![w] = value[w]], !.todo = getter.todo \ {w}]
      /\ UNCHANGED <<sequence, value, setter, whole, current, races>>
  BY DEF A!CopyOut
<1>2. /\ getter'.at = "copy" /\ getter'.seq1 = getter.seq1 /\ getter'.todo = getter.todo \ {w}
      /\ getter'.out = [getter.out EXCEPT ![w] = value[w]]
  BY <1>1 DEF StructInv, StructTypes
<1>3. getter.out \in Copies /\ value \in Copies /\ getter'.out \in Copies
  BY <1>2 DEF StructInv, StructTypes, Copies
<1>4. StructTypes'
  <2>1. getter' = [at |-> getter.at, seq1 |-> getter.seq1, out |-> getter'.out, todo |-> getter.todo \ {w}]
    BY <1>1, <1>2 DEF StructInv, StructTypes
  <2> QED BY <1>1, <1>3, <2>1 DEF StructInv, StructTypes
<1>5. Setting'
  BY <1>1 DEF StructInv, Setting
<1>6. Getting'
  <2>1. Gone' = Gone /\ Ahead' = Ahead
    BY <1>1, <1>2 DEF Gone, Ahead
  <2>2. ASSUME sequence = getter.seq1, NEW u \in Words \ getter'.todo
        PROVE  getter'.out[u] = whole[u]
    <3>1. value = whole
      BY <1>1, <2>2 DEF StructInv, Getting, Setting
    <3>2. CASE u = w
      BY <1>2, <1>3, <3>1, <3>2 DEF Copies
    <3>3. CASE u # w
      BY <1>1, <1>2, <1>3, <2>2, <3>3 DEF StructInv, Getting, Copies
    <3> QED BY <3>2, <3>3
  <2> QED BY <1>1, <1>2, <2>1, <2>2 DEF StructInv, Getting
<1> QED BY <1>4, <1>5, <1>6 DEF StructInv

\* and returns what it copied if the counter has not moved.
LEMMA LoadSeq2Keeps ==
  ASSUME StructInv, A!LoadSeq2
  PROVE  StructInv'
<1>1. /\ getter.at = "copy" /\ getter.todo = {}
      /\ getter' = [getter EXCEPT !.at = IF sequence = getter.seq1 THEN "done" ELSE "seq1"]
      /\ UNCHANGED <<sequence, value, setter, whole, current, races>>
  BY DEF A!LoadSeq2
<1>2. getter'.at = (IF sequence = getter.seq1 THEN "done" ELSE "seq1") /\ getter'.out = getter.out
  BY <1>1 DEF StructInv, StructTypes
<1>3. StructTypes'
  BY <1>1 DEF StructInv, StructTypes
<1>4. Setting'
  BY <1>1 DEF StructInv, Setting
<1>5. sequence = getter.seq1 => getter.out = whole
  <2> SUFFICES ASSUME sequence = getter.seq1 PROVE getter.out = whole
    OBVIOUS
  <2>1. getter.out \in Copies /\ whole \in Copies
    BY StructsAre DEF StructInv, StructTypes
  <2>2. \A w \in Words : getter.out[w] = whole[w]
    BY <1>1 DEF StructInv, Getting
  <2> QED BY <2>1, <2>2 DEF Copies
<1>6. Getting'
  BY <1>1, <1>2, <1>5 DEF StructInv, Getting
<1> QED BY <1>3, <1>4, <1>6 DEF StructInv

LEMMA GetReturnKeeps ==
  ASSUME StructInv, A!Return
  PROVE  StructInv'
<1>1. /\ getter' = [at |-> "idle", seq1 |-> 0, out |-> CHOOSE v \in Structs : TRUE, todo |-> {}]
      /\ races' = 0 /\ current' = {} /\ UNCHANGED <<sequence, value, setter, whole>>
  BY DEF A!Return, A!GetIdle
<1>2. (CHOOSE v \in Structs : TRUE) \in Copies
  BY StructAssumption, StructsAre
<1>3. StructTypes'
  BY <1>1, <1>2, StructAssumption DEF StructInv, StructTypes
<1>4. Setting'
  BY <1>1 DEF StructInv, Setting
<1>5. Getting'
  BY <1>1 DEF Getting
<1> QED BY <1>3, <1>4, <1>5 DEF StructInv

LEMMA StructStep == StructInv /\ A!Next => StructInv'
BY CallSetKeeps, MakeOddKeeps, CopyInKeeps, MakeEvenKeeps, CallGetKeeps, LoadSeq1Keeps,
   CopyOutKeeps, LoadSeq2Keeps, GetReturnKeeps DEF A!Next, A!SetStep, A!GetStep

LEMMA StructStay == StructInv /\ UNCHANGED structVars => StructInv'
BY DEF structVars, StructInv, StructTypes, Setting, Getting, Gone, Ahead

LEMMA StructInit == A!Init => StructInv
<1> SUFFICES ASSUME A!Init PROVE StructInv
  OBVIOUS
<1>1. (CHOOSE v \in Structs : TRUE) \in Structs /\ (CHOOSE v \in Structs : TRUE) \in Copies
  BY StructAssumption, StructsAre
<1>2. StructTypes
  BY <1>1, StructAssumption DEF A!Init, A!SetIdle, A!GetIdle, StructTypes
<1>3. Setting
  BY DEF A!Init, A!SetIdle, Setting
<1>4. Getting
  BY DEF A!Init, A!GetIdle, Getting
<1> QED BY <1>2, <1>3, <1>4 DEF StructInv

LEMMA StructSafe == ASSUME StructInv PROVE A!TypeOK /\ A!GetWhole
BY DEF StructInv, StructTypes, Getting, A!TypeOK, A!GetWhole

\* What Get returns is a value the structure had as a whole during the call, for
\* structures of any words, as long as the counter does not go round in one call.
THEOREM GetIsWhole == Spec => [](A!TypeOK /\ A!GetWhole)
<1>1. Init => StructInv
  BY StructInit DEF Init
<1>2. StructInv /\ [Next]_vars => StructInv'
  BY StructStep, StructStay DEF Next, vars
<1> QED BY <1>1, <1>2, StructSafe, PTL DEF Spec
-----------------------------------------------------------------------------
(* SpscQueue: who may touch which cells *)

Elements == Values \cup {NONE}

\* p is a place from the reader's position up to the writer's.
Filled(p) == IF rpos <= wpos THEN rpos <= p /\ p < wpos ELSE rpos <= p \/ p < wpos

SpscTypes ==
  /\ ring \in Seq(Elements) /\ Len(ring) \in SpscSizes /\ writes \in Nat
  /\ wpos \in 0 .. Len(ring) - 1 /\ rpos \in 0 .. Len(ring) - 1
  /\ wcall \in [at : {"idle", "full", "empty", "store", "publish"}, val : Elements,
                must : BOOLEAN, wasEmpty : BOOLEAN]
  /\ rcall \in [at : {"idle", "copy", "free", "peek", "done"}, place : 0 .. Len(ring) - 1,
                val : Elements]

\* A writer that found room still has it, and stores where no reader looks.
WriterKnows ==
  /\ wcall.at # "idle" => wcall.val \in Values
  /\ wcall.at \in {"empty", "store", "publish"} => Q!AdvancePtr(wpos) # rpos
  /\ wcall.at = "publish" => ring[wpos + 1] = wcall.val
  /\ wcall.at \in {"full", "empty"} => wcall.wasEmpty = FALSE
  /\ wcall.at \in {"store", "publish"} /\ wcall.wasEmpty => wpos = rpos

\* A reader that found an element still has it.
ReaderKnows ==
  /\ rcall.at = "idle" => rcall.place = 0
  /\ rcall.at \in {"copy", "free", "peek"} => Filled(rcall.place)
  /\ rcall.at \in {"copy", "free"} => rcall.place = rpos
  /\ rcall.at = "free" => rcall.val = ring[rpos + 1]
  /\ rcall.at = "done" => rcall.val \in Values

SpscInv ==
  /\ SpscTypes /\ WriterKnows /\ ReaderKnows
  /\ \A p \in 0 .. Len(ring) - 1 : Filled(p) => ring[p + 1] \in Values

\* A position that is advanced, of the one thread and of the other.
LEMMA Advance ==
  ASSUME SpscInv
  PROVE  /\ Len(ring) \in Nat \ {0} /\ wpos \in Nat /\ rpos \in Nat
         /\ Q!AdvancePtr(wpos) \in 0 .. Len(ring) - 1 /\ Q!AdvancePtr(rpos) \in 0 .. Len(ring) - 1
         /\ Q!AdvancePtr(wpos) = (IF wpos + 1 = Len(ring) THEN 0 ELSE wpos + 1)
         /\ Q!AdvancePtr(rpos) = (IF rpos + 1 = Len(ring) THEN 0 ELSE rpos + 1)
BY SpscAssumption DEF SpscInv, SpscTypes, Q!AdvancePtr, Q!Capacity

LEMMA SpscSafe ==
  ASSUME SpscInv
  PROVE  Q!TypeOK /\ Q!CellExclusive /\ Q!EmptyIsTrue
<1>1. Q!TypeOK
  BY DEF SpscInv, SpscTypes, Elements, Q!TypeOK, Q!Capacity
<1>2. Q!CellExclusive
  <2> SUFFICES ASSUME rcall.at \in {"copy", "peek"}
      PROVE  (wcall.at = "store" => wpos # rcall.place) /\ ring[rcall.place + 1] # NONE
    BY DEF Q!CellExclusive
  <2>1. Filled(rcall.place) /\ rcall.place \in 0 .. Len(ring) - 1
    BY DEF SpscInv, ReaderKnows, SpscTypes
  <2>2. ring[rcall.place + 1] \in Values
    BY <2>1 DEF SpscInv
  <2>3. wpos # rcall.place
    BY <2>1, Advance DEF Filled
  <2> QED BY <2>2, <2>3, SpscAssumption
<1>3. Q!EmptyIsTrue
  BY DEF SpscInv, WriterKnows, Q!EmptyIsTrue, Q!IsLikelyEmpty
<1> QED BY <1>1, <1>2, <1>3

LEMMA SpscInit == Q!Init => SpscInv /\ Q!Fifo!AInit
<1> SUFFICES ASSUME Q!Init PROVE SpscInv /\ Q!Fifo!AInit
  OBVIOUS
<1>1. PICK n \in SpscSizes : ring = [i \in 1 .. n |-> NONE]
  BY DEF Q!Init, Q!Fresh
<1>2. n \in Nat \ {0} /\ ring \in Seq(Elements) /\ Len(ring) = n
  BY <1>1, SpscAssumption DEF Elements
<1>3. SpscTypes
  BY <1>1, <1>2 DEF Q!Init, SpscTypes, Q!WriterIdle, Q!ReaderIdle, Elements
<1>4. SpscInv
  BY <1>2, <1>3 DEF SpscInv, Q!Init, WriterKnows, ReaderKnows, Filled, Q!WriterIdle, Q!ReaderIdle
<1>5. Q!Fifo!AInit
  BY <1>1, <1>2 DEF Q!Fifo!AInit, Q!Init, Q!Queued, Q!GetLikelyCount, Q!Capacity, Q!ReaderIdle
<1> QED BY <1>4, <1>5

\* The elements of a ring of n cells from position a up to b, in order.
Between(n, a, b) == IF b < a THEN b - a + n ELSE b - a
Wrapped(n, p) == IF p >= n THEN p - n ELSE p
QueueOf(r, a, b) == [i \in 1 .. Between(Len(r), a, b) |-> r[Wrapped(Len(r), a + i - 1) + 1]]

LEMMA QueuedIs ==
  ASSUME Len(ring) \in Nat, rpos \in Nat, wpos \in Nat
  PROVE  Q!Queued = QueueOf(ring, rpos, wpos)
<1>1. Q!GetLikelyCount = Between(Len(ring), rpos, wpos)
  BY DEF Q!GetLikelyCount, Between, Q!Capacity
<1>2. Q!Queued = [i \in 1 .. Q!GetLikelyCount |->
                    ring[(IF rpos + i - 1 >= Len(ring) THEN rpos + i - 1 - Len(ring) ELSE rpos + i - 1) + 1]]
  BY DEF Q!Queued, Q!Capacity
<1> QED BY <1>1, <1>2 DEF QueueOf, Wrapped

LEMMA QueuedIsThen ==
  ASSUME Len(ring') \in Nat, rpos' \in Nat, wpos' \in Nat
  PROVE  Q!Queued' = QueueOf(ring', rpos', wpos')
<1>1. Q!GetLikelyCount' = Between(Len(ring'), rpos', wpos')
  BY DEF Q!GetLikelyCount, Between, Q!Capacity
<1>2. Q!Queued' = [i \in 1 .. Q!GetLikelyCount' |->
                     ring'[(IF rpos' + i - 1 >= Len(ring') THEN rpos' + i - 1 - Len(ring') ELSE rpos' + i - 1) + 1]]
  BY DEF Q!Queued, Q!Capacity
<1> QED BY <1>1, <1>2 DEF QueueOf, Wrapped

\* How long it is, and where its elements are.
LEMMA QueueOfIs ==
  ASSUME NEW S, NEW r \in Seq(S), NEW a \in 0 .. Len(r) - 1, NEW b \in 0 .. Len(r) - 1
  PROVE  /\ QueueOf(r, a, b) \in Seq(S) /\ Len(QueueOf(r, a, b)) = Between(Len(r), a, b)
         /\ Between(Len(r), a, b) \in 0 .. Len(r) - 1 /\ (Between(Len(r), a, b) = 0 <=> a = b)
         /\ \A i \in 1 .. Between(Len(r), a, b) : QueueOf(r, a, b)[i] = r[Wrapped(Len(r), a + i - 1) + 1]
<1>1. PICK n \in Nat : n = Len(r)
  OBVIOUS
<1>2. Between(n, a, b) \in 0 .. n - 1 /\ (Between(n, a, b) = 0 <=> a = b)
  BY <1>1 DEF Between
<1>3. \A i \in 1 .. Between(n, a, b) : Wrapped(n, a + i - 1) + 1 \in 1 .. n
  BY <1>1, <1>2 DEF Wrapped, Between
<1>4. \A j \in 1 .. n : r[j] \in S
  BY <1>1
<1> QED BY <1>1, <1>2, <1>3, <1>4 DEF QueueOf

\* An element more at its end.
LEMMA QueueGrows ==
  ASSUME NEW S, NEW r \in Seq(S), NEW a \in 0 .. Len(r) - 1, NEW b \in 0 .. Len(r) - 1,
         NEW c \in 0 .. Len(r) - 1
  PROVE  c = (IF b + 1 = Len(r) THEN 0 ELSE b + 1) /\ c # a =>
           /\ QueueOf(r, a, c) = Append(QueueOf(r, a, b), r[b + 1])
           /\ Len(QueueOf(r, a, b)) < Len(r) - 1
<1>1. /\ QueueOf(r, a, c) \in Seq(S) /\ Len(QueueOf(r, a, c)) = Between(Len(r), a, c)
      /\ \A i \in 1 .. Between(Len(r), a, c) : QueueOf(r, a, c)[i] = r[Wrapped(Len(r), a + i - 1) + 1]
  BY QueueOfIs
<1>2. /\ QueueOf(r, a, b) \in Seq(S) /\ Len(QueueOf(r, a, b)) = Between(Len(r), a, b)
      /\ \A i \in 1 .. Between(Len(r), a, b) : QueueOf(r, a, b)[i] = r[Wrapped(Len(r), a + i - 1) + 1]
  BY QueueOfIs
<1>3. PICK k \in Nat : k = Between(Len(r), a, b)
  BY <1>2
<1>4. r[b + 1] \in S
  OBVIOUS
<1> SUFFICES ASSUME c = (IF b + 1 = Len(r) THEN 0 ELSE b + 1), c # a
    PROVE  /\ QueueOf(r, a, c) = Append(QueueOf(r, a, b), r[b + 1])
           /\ Len(QueueOf(r, a, b)) < Len(r) - 1
  OBVIOUS
<1>5. Between(Len(r), a, c) = k + 1 /\ k < Len(r) - 1 /\ Wrapped(Len(r), a + (k + 1) - 1) = b
  BY <1>3 DEF Between, Wrapped
<1> DEFINE old == QueueOf(r, a, b)  new == QueueOf(r, a, c)
<1>6. old \in Seq(S) /\ Len(old) = k /\ new \in Seq(S) /\ Len(new) = k + 1
  BY <1>1, <1>2, <1>3, <1>5
<1>7. new[k + 1] = r[b + 1] /\ \A i \in 1 .. k : new[i] = old[i]
  <2>1. k + 1 \in 1 .. k + 1 /\ \A i \in 1 .. k : i \in 1 .. k + 1
    OBVIOUS
  <2>2. new[k + 1] = r[Wrapped(Len(r), a + (k + 1) - 1) + 1]
    BY <1>1, <1>5, <2>1
  <2> QED BY <1>1, <1>2, <1>3, <1>5, <2>1, <2>2
<1> HIDE DEF old, new
<1>8. new = Append(old, r[b + 1])
  BY <1>4, <1>6, <1>7
<1> QED BY <1>5, <1>6, <1>8 DEF old, new

\* Its first element, and what is behind it.
LEMMA QueueShrinks ==
  ASSUME NEW S, NEW r \in Seq(S), NEW a \in 0 .. Len(r) - 1, NEW b \in 0 .. Len(r) - 1,
         NEW c \in 0 .. Len(r) - 1
  PROVE  c = (IF a + 1 = Len(r) THEN 0 ELSE a + 1) /\ a # b =>
           /\ QueueOf(r, a, b) # <<>> /\ Head(QueueOf(r, a, b)) = r[a + 1]
           /\ QueueOf(r, c, b) = Tail(QueueOf(r, a, b))
<1>1. /\ QueueOf(r, c, b) \in Seq(S) /\ Len(QueueOf(r, c, b)) = Between(Len(r), c, b)
      /\ \A i \in 1 .. Between(Len(r), c, b) : QueueOf(r, c, b)[i] = r[Wrapped(Len(r), c + i - 1) + 1]
  BY QueueOfIs
<1>2. /\ QueueOf(r, a, b) \in Seq(S) /\ Len(QueueOf(r, a, b)) = Between(Len(r), a, b)
      /\ \A i \in 1 .. Between(Len(r), a, b) : QueueOf(r, a, b)[i] = r[Wrapped(Len(r), a + i - 1) + 1]
  BY QueueOfIs
<1>3. PICK k \in Nat : k = Between(Len(r), c, b)
  BY DEF Between
<1> SUFFICES ASSUME c = (IF a + 1 = Len(r) THEN 0 ELSE a + 1), a # b
    PROVE  /\ QueueOf(r, a, b) # <<>> /\ Head(QueueOf(r, a, b)) = r[a + 1]
           /\ QueueOf(r, c, b) = Tail(QueueOf(r, a, b))
  OBVIOUS
<1>4. Between(Len(r), a, b) = k + 1 /\ Wrapped(Len(r), a + 1 - 1) = a
  BY <1>3 DEF Between, Wrapped
<1>5. \A i \in 1 .. k : Wrapped(Len(r), a + (i + 1) - 1) = Wrapped(Len(r), c + i - 1)
  BY <1>3 DEF Between, Wrapped
<1> DEFINE old == QueueOf(r, a, b)  new == QueueOf(r, c, b)
<1>6. old \in Seq(S) /\ Len(old) = k + 1 /\ new \in Seq(S) /\ Len(new) = k
  BY <1>1, <1>2, <1>3, <1>4
<1>7. old[1] = r[a + 1]
  BY <1>2, <1>4
<1>8. \A i \in 1 .. k : new[i] = old[i + 1]
  <2> TAKE i \in 1 .. k
  <2>1. i + 1 \in 1 .. k + 1
    OBVIOUS
  <2>2. new[i] = r[Wrapped(Len(r), c + i - 1) + 1]
    BY <1>1, <1>3
  <2>3. old[i + 1] = r[Wrapped(Len(r), a + (i + 1) - 1) + 1]
    BY <1>2, <1>4, <2>1
  <2>4. Wrapped(Len(r), a + (i + 1) - 1) = Wrapped(Len(r), c + i - 1)
    BY <1>5
  <2> QED BY <2>2, <2>3, <2>4, ZenonT(30)
<1> HIDE DEF old, new
<1>9. old # <<>> /\ Head(old) = old[1] /\ new = Tail(old)
  BY <1>6, <1>8
<1> QED BY <1>7, <1>9 DEF old, new

\* It depends on the cells that are filled alone.
LEMMA QueueKept ==
  ASSUME SpscInv, NEW r, r \in Seq(Elements), Len(r) = Len(ring),
         \A p \in 0 .. Len(ring) - 1 : Filled(p) => r[p + 1] = ring[p + 1]
  PROVE  QueueOf(r, rpos, wpos) = QueueOf(ring, rpos, wpos)
<1>1. PICK n \in Nat : n = Len(ring)
  BY Advance
<1>2. wpos \in 0 .. n - 1 /\ rpos \in 0 .. n - 1
  BY <1>1 DEF SpscInv, SpscTypes
<1>3. \A i \in 1 .. Between(n, rpos, wpos) :
        Wrapped(n, rpos + i - 1) \in 0 .. n - 1 /\ Filled(Wrapped(n, rpos + i - 1))
  BY <1>2 DEF Between, Wrapped, Filled
<1> QED BY <1>1, <1>3 DEF QueueOf

\* The steps of the writer before it stores, and of the reader that change no
\* position.
LEMMA SpscCallWrite ==
  ASSUME SpscInv, NEW v \in Values, NEW must \in BOOLEAN, Q!CallWrite(v, must)
  PROVE  SpscInv'
<1>1. SpscTypes'
  BY DEF SpscInv, SpscTypes, Q!CallWrite, Elements
<1> QED BY <1>1 DEF SpscInv, SpscTypes, WriterKnows, ReaderKnows, Filled, Q!CallWrite

LEMMA SpscFindRoom ==
  ASSUME SpscInv, Q!FindRoom
  PROVE  SpscInv'
<1>1. SpscTypes'
  BY DEF SpscInv, SpscTypes, Q!FindRoom, Q!WriterIdle, Elements
<1>2. WriterKnows'
  <2>1. UNCHANGED <<ring, wpos, rpos>> /\ wcall.at = "full"
    BY DEF Q!FindRoom
  <2>2. CASE Q!IsLikelyFull
    BY <2>1, <2>2 DEF WriterKnows, Q!FindRoom, Q!WriterIdle
  <2>3. CASE ~Q!IsLikelyFull
    <3>1. PICK a \in {"empty", "store"} : wcall' = [wcall EXCEPT !.at = a]
      BY <2>3 DEF Q!FindRoom
    <3>2. wcall'.at = a /\ wcall'.val = wcall.val /\ wcall'.wasEmpty = wcall.wasEmpty
      BY <3>1 DEF SpscInv, SpscTypes
    <3>3. Q!AdvancePtr(wpos)' # rpos'
      BY <2>1, <2>3 DEF Q!IsLikelyFull, Q!AdvancePtr, Q!Capacity
    <3> QED BY <2>1, <3>2, <3>3 DEF SpscInv, WriterKnows
  <2> QED BY <2>2, <2>3
<1> QED BY <1>1, <1>2 DEF SpscInv, SpscTypes, ReaderKnows, Filled, Q!FindRoom

LEMMA SpscLookEmpty ==
  ASSUME SpscInv, Q!LookEmpty
  PROVE  SpscInv'
<1>1. SpscTypes'
  BY DEF SpscInv, SpscTypes, Q!LookEmpty
<1>2. WriterKnows'
  BY DEF SpscInv, SpscTypes, WriterKnows, Q!LookEmpty, Q!AdvancePtr, Q!Capacity
<1> QED BY <1>1, <1>2 DEF SpscInv, SpscTypes, ReaderKnows, Filled, Q!LookEmpty

LEMMA SpscCallRead ==
  ASSUME SpscInv, Q!CallRead
  PROVE  SpscInv'
<1>1. SpscTypes'
  BY DEF SpscInv, SpscTypes, Q!CallRead, Elements
<1>2. ReaderKnows'
  BY DEF SpscInv, SpscTypes, ReaderKnows, Filled, Q!CallRead, Q!IsLikelyEmpty
<1> QED BY <1>1, <1>2 DEF SpscInv, SpscTypes, WriterKnows, Filled, Q!CallRead, Q!AdvancePtr, Q!Capacity

LEMMA SpscCopy ==
  ASSUME SpscInv, Q!Copy
  PROVE  SpscInv'
<1>1. SpscTypes'
  BY DEF SpscInv, SpscTypes, ReaderKnows, Q!Copy, Elements
<1>2. ReaderKnows'
  BY DEF SpscInv, SpscTypes, ReaderKnows, Filled, Q!Copy
<1> QED BY <1>1, <1>2 DEF SpscInv, SpscTypes, WriterKnows, Filled, Q!Copy, Q!AdvancePtr, Q!Capacity

LEMMA SpscReturn ==
  ASSUME SpscInv, Q!Return \/ Q!Peek
  PROVE  SpscInv'
<1>1. rcall' = Q!ReaderIdle /\ UNCHANGED <<ring, wpos, rpos, wcall, writes>>
  BY DEF Q!Return, Q!Peek
<1>2. SpscTypes'
  BY <1>1, Advance DEF SpscInv, SpscTypes, Q!ReaderIdle, Elements
<1> QED BY <1>1, <1>2 DEF SpscInv, WriterKnows, ReaderKnows, Filled, Q!ReaderIdle, Q!AdvancePtr, Q!Capacity

LEMMA SpscCallPeek ==
  ASSUME SpscInv, NEW offset \in 0 .. Q!Capacity, Q!CallPeek(offset)
  PROVE  SpscInv'
<1>1. PICK n \in Nat \ {0} : n = Len(ring)
  BY Advance
<1>2. wpos \in 0 .. n - 1 /\ rpos \in 0 .. n - 1 /\ offset \in 0 .. n
  BY <1>1 DEF SpscInv, SpscTypes, Q!Capacity
<1>3. offset < Between(n, rpos, wpos)
  BY <1>1 DEF Q!CallPeek, Q!GetLikelyCount, Q!Capacity, Between
<1>4. rcall' = [at |-> "peek", val |-> NONE, place |-> Wrapped(n, rpos + offset)]
  BY <1>1, <1>2 DEF Q!CallPeek, Q!Capacity, Wrapped
<1>5. Wrapped(n, rpos + offset) \in 0 .. n - 1 /\ Filled(Wrapped(n, rpos + offset))
  BY <1>2, <1>3 DEF Between, Wrapped, Filled
<1>6. UNCHANGED <<ring, wpos, rpos, wcall, writes>>
  BY DEF Q!CallPeek
<1>7. SpscTypes'
  BY <1>1, <1>4, <1>5, <1>6 DEF SpscInv, SpscTypes, Elements
<1> QED BY <1>4, <1>5, <1>6, <1>7 DEF SpscInv, WriterKnows, ReaderKnows, Filled, Q!AdvancePtr, Q!Capacity

\* The writer stores behind the filled cells, and the reader frees the first of
\* them.
LEMMA SpscStore ==
  ASSUME SpscInv, Q!Store
  PROVE  /\ SpscInv' /\ ring' \in Seq(Elements) /\ Len(ring') = Len(ring)
         /\ \A p \in 0 .. Len(ring) - 1 : Filled(p) => ring'[p + 1] = ring[p + 1]
<1>1. PICK n \in Nat \ {0} : n = Len(ring) /\ wpos \in 0 .. n - 1 /\ rpos \in 0 .. n - 1
  BY Advance DEF SpscInv, SpscTypes
<1>2. ring' \in Seq(Elements) /\ Len(ring') = n /\ ring'[wpos + 1] = wcall.val
  BY <1>1 DEF SpscInv, SpscTypes, Q!Store
<1>3. \A p \in 0 .. n - 1 : Filled(p) => p # wpos /\ ring'[p + 1] = ring[p + 1]
  BY <1>1 DEF SpscInv, SpscTypes, Q!Store, Filled
<1>4. UNCHANGED <<wpos, rpos, rcall, writes>> /\ wcall.at = "store" /\ wcall' = [wcall EXCEPT !.at = "publish"]
  BY DEF Q!Store
<1>5. SpscTypes'
  BY <1>1, <1>2, <1>4 DEF SpscInv, SpscTypes
<1>6. WriterKnows'
  BY <1>1, <1>2, <1>4 DEF SpscInv, SpscTypes, WriterKnows, Q!AdvancePtr, Q!Capacity
<1>7. ReaderKnows'
  BY <1>1, <1>2, <1>3, <1>4 DEF SpscInv, SpscTypes, ReaderKnows, Filled
<1>8. \A p \in 0 .. n - 1 : Filled(p)' => ring'[p + 1] \in Values
  BY <1>1, <1>3, <1>4 DEF SpscInv, Filled
<1> QED BY <1>1, <1>2, <1>3, <1>5, <1>6, <1>7, <1>8 DEF SpscInv

LEMMA SpscPublish ==
  ASSUME SpscInv, Q!Publish
  PROVE  SpscInv'
<1>1. PICK n \in Nat \ {0} : n = Len(ring) /\ wpos \in 0 .. n - 1 /\ rpos \in 0 .. n - 1
  BY Advance DEF SpscInv, SpscTypes
<1>2. wpos' = (IF wpos + 1 = n THEN 0 ELSE wpos + 1) /\ wpos' \in 0 .. n - 1 /\ wpos' # rpos
  BY <1>1 DEF Q!Publish, SpscInv, WriterKnows, Q!AdvancePtr, Q!Capacity
<1>3. UNCHANGED <<ring, rpos, rcall, writes>> /\ wcall' = Q!WriterIdle
  BY DEF Q!Publish
<1>4. SpscTypes'
  BY <1>1, <1>2, <1>3 DEF SpscInv, SpscTypes, Q!WriterIdle, Elements
<1>5. \A p \in 0 .. n - 1 : (Filled(p) => Filled(p)') /\ (Filled(p)' => Filled(p) \/ p = wpos)
  BY <1>1, <1>2, <1>3 DEF Filled
<1>6. ring[wpos + 1] \in Values
  BY DEF Q!Publish, SpscInv, WriterKnows
<1>7. ReaderKnows'
  BY <1>1, <1>3, <1>5 DEF SpscInv, SpscTypes, ReaderKnows, Filled
<1>8. \A p \in 0 .. n - 1 : Filled(p)' => ring'[p + 1] \in Values
  BY <1>1, <1>3, <1>5, <1>6 DEF SpscInv
<1> QED BY <1>1, <1>3, <1>4, <1>7, <1>8 DEF SpscInv, WriterKnows, Q!WriterIdle

LEMMA SpscFreeCell ==
  ASSUME SpscInv, Q!FreeCell
  PROVE  SpscInv' /\ rpos # wpos /\ rcall.val = ring[rpos + 1]
<1>1. PICK n \in Nat \ {0} : n = Len(ring) /\ wpos \in 0 .. n - 1 /\ rpos \in 0 .. n - 1
  BY Advance DEF SpscInv, SpscTypes
<1>2. rpos' = (IF rpos + 1 = n THEN 0 ELSE rpos + 1) /\ rpos' \in 0 .. n - 1
  BY <1>1 DEF Q!FreeCell, Q!AdvancePtr, Q!Capacity
<1>3. UNCHANGED <<ring, wpos, wcall, writes>> /\ rcall' = [rcall EXCEPT !.at = "done"]
  BY DEF Q!FreeCell
<1>4. Filled(rpos) /\ rcall.val = ring[rpos + 1]
  BY DEF SpscInv, ReaderKnows, Q!FreeCell
<1>5. rpos # wpos /\ rcall.val \in Values
  BY <1>1, <1>4 DEF SpscInv, Filled
<1>6. SpscTypes'
  BY <1>1, <1>2, <1>3 DEF SpscInv, SpscTypes
<1>7. \A p \in 0 .. n - 1 : Filled(p)' => Filled(p)
  BY <1>1, <1>2, <1>3, <1>5 DEF Filled
<1>8. WriterKnows'
  <2>1. PICK w \in 0 .. n - 1 : w = (IF wpos + 1 = n THEN 0 ELSE wpos + 1)
    BY <1>1
  <2>2. Q!AdvancePtr(wpos) = w /\ Q!AdvancePtr(wpos)' = w /\ w # rpos'
    BY <1>1, <1>2, <1>3, <1>5, <2>1 DEF Q!AdvancePtr, Q!Capacity
  <2> QED BY <1>3, <1>5, <2>2 DEF SpscInv, WriterKnows
<1>9. ReaderKnows'
  BY <1>3, <1>5 DEF SpscInv, SpscTypes, ReaderKnows
<1>10. \A p \in 0 .. n - 1 : Filled(p)' => ring'[p + 1] \in Values
  BY <1>1, <1>3, <1>7 DEF SpscInv
<1> QED BY <1>1, <1>3, <1>4, <1>5, <1>6, <1>8, <1>9, <1>10 DEF SpscInv

LEMMA SpscReset ==
  ASSUME SpscInv, NEW n \in SpscSizes, Q!Reset(n)
  PROVE  SpscInv' /\ Len(ring') = n
<1>1. n \in Nat \ {0} /\ wpos' = 0 /\ rpos' = 0
  BY SpscAssumption DEF Q!Reset
<1>2. ring' \in Seq(Elements) /\ Len(ring') = n
  <2>1. CASE n = Len(ring)
    BY <2>1 DEF Q!Reset, Q!Capacity, SpscInv, SpscTypes
  <2>2. CASE n # Len(ring)
    <3>1. ring' = [i \in 1 .. n |-> NONE]
      BY <2>2 DEF Q!Reset, Q!Capacity, Q!Fresh
    <3> QED BY <1>1, <3>1 DEF Elements
  <2> QED BY <2>1, <2>2
<1>3. wcall.at = "idle" /\ rcall.at = "idle" /\ rcall.place = 0 /\ UNCHANGED <<wcall, rcall, writes>>
  BY DEF Q!Reset, SpscInv, ReaderKnows
<1>4. SpscTypes'
  BY <1>1, <1>2, <1>3 DEF SpscInv, SpscTypes
<1> QED BY <1>1, <1>2, <1>3, <1>4 DEF SpscInv, WriterKnows, ReaderKnows, Filled

\* What the abstract queue's variables are mapped to.
LEMMA FifoKept ==
  ASSUME Q!Queued' = Q!Queued, Len(ring') = Len(ring),
         (rcall'.at = "done" <=> rcall.at = "done"), rcall.at = "done" => rcall'.val = rcall.val
  PROVE  UNCHANGED Q!Fifo!avars
<1>1. (IF rcall'.at = "done" THEN rcall'.val ELSE NONE) = (IF rcall.at = "done" THEN rcall.val ELSE NONE)
  OBVIOUS
<1>2. [t \in {"reader"} |-> IF rcall.at = "done" THEN rcall.val ELSE NONE]'
        = [t \in {"reader"} |-> IF rcall.at = "done" THEN rcall.val ELSE NONE]
  BY <1>1, Zenon
<1>3. (Q!Capacity - 1)' = Q!Capacity - 1
  BY DEF Q!Capacity
<1> QED BY <1>2, <1>3, Zenon DEF Q!Fifo!avars

LEMMA FifoStays ==
  ASSUME SpscInv, SpscInv', UNCHANGED <<ring, wpos, rpos>>,
         (rcall'.at = "done" <=> rcall.at = "done"), rcall.at = "done" => rcall'.val = rcall.val
  PROVE  UNCHANGED Q!Fifo!avars
<1>1. Q!Queued' = Q!Queued
  BY QueuedIs, QueuedIsThen, Advance
<1> QED BY <1>1, FifoKept

LEMMA FifoStore ==
  ASSUME SpscInv, Q!Store
  PROVE  UNCHANGED Q!Fifo!avars
<1>1. /\ Len(ring') = Len(ring) /\ QueueOf(ring', rpos, wpos) = QueueOf(ring, rpos, wpos)
      /\ UNCHANGED <<wpos, rpos, rcall>>
  BY SpscStore, QueueKept DEF Q!Store
<1>2. Q!Queued' = Q!Queued
  BY <1>1, QueuedIs, QueuedIsThen, Advance
<1> QED BY <1>1, <1>2, FifoKept

LEMMA FifoPut ==
  ASSUME SpscInv, Q!Publish
  PROVE  \E v \in Values : Q!Fifo!Put(v)
<1>1. PICK n \in Nat \ {0} : n = Len(ring) /\ wpos \in 0 .. n - 1 /\ rpos \in 0 .. n - 1
  BY Advance DEF SpscInv, SpscTypes
<1>2. wpos' = (IF wpos + 1 = n THEN 0 ELSE wpos + 1) /\ wpos' \in 0 .. n - 1 /\ wpos' # rpos
  BY <1>1 DEF Q!Publish, SpscInv, WriterKnows, Q!AdvancePtr, Q!Capacity
<1>3. UNCHANGED <<ring, rpos, rcall>> /\ wcall.val \in Values /\ ring[wpos + 1] = wcall.val
  BY DEF Q!Publish, SpscInv, WriterKnows
<1>4. Q!Queued = QueueOf(ring, rpos, wpos) /\ Q!Queued' = QueueOf(ring, rpos, wpos')
  BY <1>1, <1>2, <1>3, QueuedIs, QueuedIsThen
<1>5. ring \in Seq(Elements)
  BY DEF SpscInv, SpscTypes
<1>6. /\ QueueOf(ring, rpos, wpos') = Append(QueueOf(ring, rpos, wpos), ring[wpos + 1])
      /\ Len(QueueOf(ring, rpos, wpos)) < Len(ring) - 1
  BY <1>1, <1>2, <1>5, QueueGrows
<1>7. Q!Queued' = Append(Q!Queued, wcall.val) /\ Len(Q!Queued) < Q!Capacity - 1
  BY <1>3, <1>4, <1>6 DEF Q!Capacity
<1>8. UNCHANGED <<Q!Capacity - 1, [t \in {"reader"} |-> IF rcall.at = "done" THEN rcall.val ELSE NONE]>>
  BY <1>3 DEF Q!Capacity
<1>9. Q!Fifo!Put(wcall.val)
  BY <1>7, <1>8, Zenon DEF Q!Fifo!Put
<1> QED BY <1>3, <1>9

LEMMA FifoTake ==
  ASSUME SpscInv, Q!FreeCell
  PROVE  Q!Fifo!Take("reader")
<1>1. PICK n \in Nat \ {0} : n = Len(ring) /\ wpos \in 0 .. n - 1 /\ rpos \in 0 .. n - 1
  BY Advance DEF SpscInv, SpscTypes
<1>2. rpos' = (IF rpos + 1 = n THEN 0 ELSE rpos + 1) /\ rpos' \in 0 .. n - 1
  BY <1>1 DEF Q!FreeCell, Q!AdvancePtr, Q!Capacity
<1>3. UNCHANGED <<ring, wpos>> /\ rpos # wpos /\ rcall.val = ring[rpos + 1]
  BY SpscFreeCell DEF Q!FreeCell
<1>4. rcall.at = "free" /\ rcall'.at = "done" /\ rcall'.val = rcall.val
  BY DEF SpscInv, SpscTypes, Q!FreeCell
<1>5. Q!Queued = QueueOf(ring, rpos, wpos) /\ Q!Queued' = QueueOf(ring, rpos', wpos)
  BY <1>1, <1>2, <1>3, QueuedIs, QueuedIsThen
<1>6. ring \in Seq(Elements)
  BY DEF SpscInv, SpscTypes
<1>7. /\ QueueOf(ring, rpos, wpos) # <<>> /\ Head(QueueOf(ring, rpos, wpos)) = ring[rpos + 1]
      /\ QueueOf(ring, rpos', wpos) = Tail(QueueOf(ring, rpos, wpos))
  BY <1>1, <1>2, <1>3, <1>6, QueueShrinks
<1>8. Q!Queued # <<>> /\ Q!Queued' = Tail(Q!Queued) /\ rcall.val = Head(Q!Queued)
  BY <1>3, <1>5, <1>7
<1> DEFINE hnd == [t \in {"reader"} |-> IF rcall.at = "done" THEN rcall.val ELSE NONE]
<1>9. hnd["reader"] = NONE /\ hnd' = [hnd EXCEPT !["reader"] = Head(Q!Queued)]
  BY <1>4, <1>8
<1>10. UNCHANGED (Q!Capacity - 1)
  BY <1>3 DEF Q!Capacity
<1> QED BY <1>8, <1>9, <1>10, Zenon DEF Q!Fifo!Take

LEMMA FifoReturn ==
  ASSUME SpscInv, Q!Return
  PROVE  Q!Fifo!Return("reader")
<1>1. UNCHANGED <<ring, wpos, rpos>> /\ rcall.at = "done" /\ rcall'.at = "idle" /\ rcall.val \in Values
  BY DEF Q!Return, Q!ReaderIdle, SpscInv, ReaderKnows
<1>2. UNCHANGED <<Q!Capacity - 1, Q!Queued>>
  BY <1>1, Advance, QueuedIs, QueuedIsThen DEF Q!Capacity
<1> DEFINE hnd == [t \in {"reader"} |-> IF rcall.at = "done" THEN rcall.val ELSE NONE]
<1>3. hnd["reader"] # NONE /\ hnd' = [hnd EXCEPT !["reader"] = NONE]
  BY <1>1, SpscAssumption
<1> QED BY <1>2, <1>3, Zenon DEF Q!Fifo!Return

LEMMA FifoClear ==
  ASSUME SpscInv, NEW n \in SpscSizes, Q!Reset(n)
  PROVE  \E c \in {m - 1 : m \in SpscSizes} : Q!Fifo!Clear(c)
<1>1. n \in Nat \ {0} /\ Len(ring') = n /\ wpos' = 0 /\ rpos' = 0 /\ rcall.at = "idle" /\ rcall' = rcall
  BY SpscReset, SpscAssumption DEF Q!Reset
<1>2. Q!Queued' = QueueOf(ring', 0, 0)
  BY <1>1, QueuedIsThen
<1>3. QueueOf(ring', 0, 0) = <<>>
  BY <1>1 DEF QueueOf, Between
<1> DEFINE hnd == [t \in {"reader"} |-> IF rcall.at = "done" THEN rcall.val ELSE NONE]
<1>4. hnd = [t \in {"reader"} |-> NONE] /\ hnd' = hnd
  BY <1>1
<1>5. (Q!Capacity - 1)' = n - 1
  BY <1>1 DEF Q!Capacity
<1>6. Q!Fifo!Clear(n - 1)
  BY <1>2, <1>3, <1>4, <1>5, Zenon DEF Q!Fifo!Clear
<1> QED BY <1>6

\* Every step of the queue is a step of the FIFO or leaves it alone.
LEMMA SpscStep ==
  ASSUME SpscInv, Q!Next
  PROVE  SpscInv' /\ (Q!Fifo!ANext \/ UNCHANGED Q!Fifo!avars)
<1>1. CASE \E v \in Values, must \in BOOLEAN : Q!CallWrite(v, must)
  <2>1. PICK v \in Values, must \in BOOLEAN : Q!CallWrite(v, must)
    BY <1>1
  <2>2. SpscInv'
    BY <2>1, SpscCallWrite
  <2> QED BY <2>1, <2>2, FifoStays DEF Q!CallWrite
<1>2. CASE Q!FindRoom
  BY <1>2, SpscFindRoom, FifoStays DEF Q!FindRoom
<1>3. CASE Q!LookEmpty
  BY <1>3, SpscLookEmpty, FifoStays DEF Q!LookEmpty
<1>4. CASE Q!Store
  BY <1>4, SpscStore, FifoStore
<1>5. CASE Q!Publish
  BY <1>5, SpscPublish, FifoPut DEF Q!Fifo!ANext
<1>6. CASE Q!CallRead
  BY <1>6, SpscCallRead, FifoStays DEF Q!CallRead
<1>7. CASE Q!Copy
  <2>1. rcall.at = "copy" /\ rcall'.at = "free" /\ UNCHANGED <<ring, wpos, rpos>>
    BY <1>7 DEF SpscInv, SpscTypes, Q!Copy
  <2> QED BY <1>7, <2>1, SpscCopy, FifoStays
<1>8. CASE Q!FreeCell
  BY <1>8, SpscFreeCell, FifoTake DEF Q!Fifo!ANext
<1>9. CASE Q!Return
  BY <1>9, SpscReturn, FifoReturn DEF Q!Fifo!ANext
<1>10. CASE Q!Peek
  BY <1>10, SpscReturn, FifoStays DEF Q!Peek, Q!ReaderIdle
<1>11. CASE \E offset \in 0 .. Q!Capacity : Q!CallPeek(offset)
  <2>1. PICK offset \in 0 .. Q!Capacity : Q!CallPeek(offset)
    BY <1>11
  <2>2. SpscInv'
    BY <2>1, SpscCallPeek
  <2> QED BY <2>1, <2>2, FifoStays DEF Q!CallPeek
<1>12. CASE \E n \in SpscSizes : Q!Reset(n)
  <2>1. PICK n \in SpscSizes : Q!Reset(n)
    BY <1>12
  <2> QED BY <2>1, SpscReset, FifoClear DEF Q!Fifo!ANext
<1> QED BY <1>1, <1>2, <1>3, <1>4, <1>5, <1>6, <1>7, <1>8, <1>9, <1>10, <1>11, <1>12
        DEF Q!Next, Q!WriterStep, Q!ReaderStep

\* A step of another component leaves both alone.
LEMMA SpscStay ==
  ASSUME SpscInv, UNCHANGED spscVars
  PROVE  SpscInv' /\ UNCHANGED Q!Fifo!avars
<1>1. SpscInv'
  BY DEF SpscInv, SpscTypes, WriterKnows, ReaderKnows, Filled, Q!AdvancePtr, Q!Capacity, spscVars
<1> QED BY <1>1, FifoStays DEF spscVars

\* Between one writer and one reader of an SpscQueue, of any size and with any
\* Reset between the calls: the reader never looks at the cell the writer stores
\* in, what it looks at was stored before, and a MustWrite that saw the queue empty
\* was right when it published (SpscQueue.h: MustWrite, TryWrite, Read, Peek).
THEOREM SpscExclusive == Spec => [](Q!TypeOK /\ Q!CellExclusive /\ Q!EmptyIsTrue)
<1>1. Init => SpscInv
  BY SpscInit DEF Init
<1>2. SpscInv /\ [Next]_vars => SpscInv'
  BY SpscStep, SpscStay DEF Next, vars
<1> QED BY <1>1, <1>2, SpscSafe, PTL DEF Spec

\* The ring is a FIFO of m_iCapacity - 1 elements: an element is put in it by the
\* store of m_pWritePos, taken by the store of m_pReadPos, and what the reader
\* returns is what it took (SpscQueue.h: MustWrite, TryWrite, Read, Reset).
THEOREM SpscIsFifo == Spec => Q!ImplementsFifo
<1>1. Init => SpscInv /\ Q!Fifo!AInit
  BY SpscInit DEF Init
<1>2. SpscInv /\ [Next]_vars => SpscInv' /\ [Q!Fifo!ANext]_(Q!Fifo!avars)
  BY SpscStep, SpscStay DEF Next, vars
<1> QED BY <1>1, <1>2, PTL DEF Spec, Q!ImplementsFifo, Q!Fifo!ASpec
-----------------------------------------------------------------------------
(* ThreadLocals: whose object is whose *)

Places == {"none", "suspended", "running", "ending", "exited", "freeing", "calling", "lost"}
Before == {"suspended", "running", "ending"}
States == {"gone", "made", "whole", "unmade"}

ThreadTypes ==
  /\ run \in [Threads -> Places] /\ handle \in [Threads -> BOOLEAN]
  /\ slots \in Seq(Slots) /\ \A i, j \in 1 .. Len(slots) : slots[i] = slots[j] => i = j
  /\ slot \in [Slots -> States]
  /\ tls \in [Threads -> [Slots -> Objects \cup {NULL}]]
  /\ live \subseteq Objects /\ mutex \in Threads \cup {NULL}
  /\ next \in 1 .. Len(slots) + 1 /\ calm \in BOOLEAN

\* Thread t holds the object that it has in slot s: it runs, or its FreeAll is not
\* there yet.
HasIn(t, s) ==
  /\ tls[t][s] # NULL
  /\ \/ run[t] \in Before
     \/ run[t] \in T!InFreeAll /\ \E i \in next .. Len(slots) : slots[i] = s

\* One thread at a time is in FreeAll.
OneFrees ==
  /\ \A t \in Threads : run[t] \in T!InFreeAll <=> mutex = t
  /\ mutex = NULL => next = 1
  /\ \A t \in Threads : run[t] = "calling" => next <= Len(slots)

\* A thread has objects while it runs, in slots that are whole.
Slotted ==
  /\ \A s \in Slots : slot[s] # "gone" <=> \E i \in 1 .. Len(slots) : slots[i] = s
  /\ \A t \in Threads :
       /\ run[t] \in {"none", "suspended", "exited"} => \A s \in Slots : tls[t][s] = NULL
       /\ \A s \in Slots : tls[t][s] # NULL => slot[s] = "whole"
       /\ handle[t] = FALSE => run[t] \in {"none", "exited"}

\* What is live is an orphan, or held by one thread in one slot.
HeldOnce ==
  /\ \A t \in Threads, s \in Slots : HasIn(t, s) => tls[t][s] \in live \ orphans
  /\ orphans \subseteq live
  /\ \A p \in live \ orphans : \E t \in Threads, s \in Slots : HasIn(t, s) /\ tls[t][s] = p
  /\ \A t, u \in Threads, s, r \in Slots :
       HasIn(t, s) /\ HasIn(u, r) /\ tls[t][s] = tls[u][r] => t = u /\ s = r

\* Until a slot comes or goes under a thread, threads find whole slots only.
Calm ==
  calm =>
    /\ orphans = {} /\ \A t \in Threads : run[t] # "lost"
    /\ ~T!Quiet => \A s \in Slots : slot[s] \in {"gone", "whole"}

ThreadInv == ThreadTypes /\ OneFrees /\ Slotted /\ HeldOnce /\ Calm

LEMMA SlotsFit ==
  ASSUME ThreadTypes
  PROVE  Len(slots) <= Cardinality(Slots) /\ Cardinality(Slots) \in Nat
<1>1. PICK n \in Nat : n = Len(slots) /\ slots \in [1 .. n -> Slots]
  BY DEF ThreadTypes
<1>2. IsFiniteSet(1 .. n) /\ Cardinality(1 .. n) = n
  BY FS_Interval
<1>3. slots \in Injection(1 .. n, Slots)
  BY <1>1 DEF ThreadTypes, Injection, IsInjective
<1>4. Len(slots) <= Cardinality(Slots)
  BY <1>1, <1>2, <1>3, ThreadAssumption, FS_Injection
<1> QED BY <1>4, ThreadAssumption, FS_CardinalityType

\* The slots whose objects a thread holds are those its FreeAll will come to.
LEMMA AheadIs ==
  ASSUME ThreadInv, NEW t \in Threads
  PROVE  /\ T!Ahead(t) \subseteq 1 .. Len(slots)
         /\ \A s \in Slots : HasIn(t, s) <=> tls[t][s] # NULL /\ \E i \in T!Ahead(t) : slots[i] = s
<1>1. next \in 1 .. Len(slots) + 1 /\ DOMAIN slots = 1 .. Len(slots) /\ Len(slots) \in Nat
  BY DEF ThreadInv, ThreadTypes
<1>2. T!Ahead(t) = IF run[t] \in Before THEN 1 .. Len(slots)
                   ELSE IF run[t] \in T!InFreeAll THEN next .. Len(slots) ELSE {}
  BY <1>1 DEF T!Ahead, Before
<1>3. \A s \in Slots : tls[t][s] # NULL => \E i \in 1 .. Len(slots) : slots[i] = s
  BY DEF ThreadInv, Slotted
<1>4. T!Ahead(t) \subseteq 1 .. Len(slots)
  BY <1>1, <1>2
<1>5. CASE run[t] \in Before
  BY <1>2, <1>3, <1>4, <1>5 DEF HasIn
<1>6. CASE run[t] \in T!InFreeAll /\ run[t] \notin Before
  BY <1>2, <1>4, <1>6 DEF HasIn
<1>7. CASE run[t] \notin T!InFreeAll /\ run[t] \notin Before
  BY <1>2, <1>4, <1>7 DEF HasIn
<1> QED BY <1>5, <1>6, <1>7

LEMMA HeldIs ==
  ASSUME ThreadInv, NEW t \in Threads
  PROVE  \A p : p \in T!Held(t) <=> \E s \in Slots : HasIn(t, s) /\ tls[t][s] = p
<1>1. \A i \in T!Ahead(t) : slots[i] \in Slots
  BY AheadIs DEF ThreadInv, ThreadTypes
<1>2. ASSUME NEW p, p \in T!Held(t) PROVE \E s \in Slots : HasIn(t, s) /\ tls[t][s] = p
  <2>1. PICK i \in T!Ahead(t) : p = tls[t][slots[i]] /\ p # NULL
    BY <1>2 DEF T!Held
  <2>2. slots[i] \in Slots /\ tls[t][slots[i]] # NULL
    BY <1>1, <2>1
  <2>3. HasIn(t, slots[i])
    BY <2>2, AheadIs
  <2> QED BY <2>1, <2>2, <2>3
<1>3. ASSUME NEW p, NEW s \in Slots, HasIn(t, s), tls[t][s] = p PROVE p \in T!Held(t)
  <2>1. PICK i \in T!Ahead(t) : slots[i] = s
    BY <1>3, AheadIs
  <2>2. tls[t][slots[i]] = p /\ p # NULL
    BY <1>3, <2>1 DEF HasIn
  <2> QED BY <2>2 DEF T!Held
<1> QED BY <1>2, <1>3

LEMMA ThreadSafe ==
  ASSUME ThreadInv
  PROVE  T!TypeOK /\ T!OwnObjects
<1>1. T!TypeOK
  BY SlotsFit DEF ThreadInv, ThreadTypes, Places, States, T!InFreeAll, T!TypeOK, T!Cardinality, Cardinality
<1>2. \A t, u \in Threads : t # u => T!Held(t) \cap T!Held(u) = {}
  BY HeldIs DEF ThreadInv, HeldOnce
<1>3. \A t \in Threads : T!Held(t) \cap orphans = {} /\ T!Held(t) \subseteq live
  BY HeldIs DEF ThreadInv, HeldOnce
<1>4. \A t \in Threads : ~handle[t] => run[t] \in {"none", "exited"}
  BY DEF ThreadInv, Slotted, ThreadTypes
<1>5. \A p \in live : p \in orphans \/ \E t \in Threads : p \in T!Held(t)
  BY HeldIs DEF ThreadInv, HeldOnce
<1>6. live = (UNION {T!Held(t) : t \in Threads}) \cup orphans
  <2>1. orphans \subseteq live
    BY DEF ThreadInv, HeldOnce
  <2>2. ASSUME NEW p \in UNION {T!Held(t) : t \in Threads} PROVE p \in live
    <3>1. PICK t \in Threads : p \in T!Held(t)
      BY <2>2
    <3> QED BY <1>3, <3>1
  <2>3. ASSUME NEW p \in live PROVE p \in (UNION {T!Held(t) : t \in Threads}) \cup orphans
    <3>1. CASE p \in orphans
      BY <3>1
    <3>2. CASE \E t \in Threads : p \in T!Held(t)
      BY <3>2
    <3> QED BY <1>5, <2>3, <3>1, <3>2
  <2> QED BY <2>1, <2>2, <2>3
<1>7. calm => orphans = {} /\ ~T!Lost
  BY DEF ThreadInv, Calm, T!Lost
<1>8. \A t \in Threads : T!Held(t) \cap orphans = {}
  BY <1>3
<1>9. T!OwnObjects
  BY <1>2, <1>4, <1>6, <1>7, <1>8, Zenon DEF T!OwnObjects
<1> QED BY <1>1, <1>9

LEMMA ThreadInit == T!Init => ThreadInv
<1> SUFFICES ASSUME T!Init PROVE ThreadInv
  OBVIOUS
<1>1. ThreadTypes
  BY DEF T!Init, T!NoTls, ThreadTypes, Places, States
<1>2. OneFrees /\ Slotted
  BY ThreadAssumption DEF T!Init, T!NoTls, OneFrees, Slotted, T!InFreeAll
<1>3. Calm
  BY DEF T!Init, Calm, T!Quiet
<1> QED BY <1>1, <1>2, <1>3 DEF T!Init, T!NoTls, ThreadInv, HeldOnce, HasIn

\* While there are no threads nothing is in a slot.
LEMMA QuietNow ==
  ASSUME ThreadInv, T!Quiet
  PROVE  /\ mutex = NULL /\ next = 1
         /\ \A t \in Threads, s \in Slots : tls[t][s] = NULL /\ ~HasIn(t, s)
<1>1. \A t \in Threads : run[t] \in {"none", "exited"} /\ \A s \in Slots : tls[t][s] = NULL
  BY DEF ThreadInv, Slotted, T!Quiet
<1>2. mutex = NULL /\ next = 1
  BY <1>1 DEF ThreadInv, ThreadTypes, OneFrees, T!InFreeAll
<1> QED BY <1>1, <1>2 DEF HasIn

\* The state of a slot and of the list changes while nobody is in FreeAll.
LEMMA SlotTurns ==
  ASSUME ThreadInv, ThreadTypes', NEW s \in Slots, NEW st \in States, T!Turn(s, st),
         UNCHANGED <<run, handle, tls, live, mutex, next, orphans>>,
         slots' = slots \/ mutex = NULL,
         st = "whole" \/ slot[s] # "whole",
         \A r \in Slots : slot'[r] # "gone" <=> \E i \in 1 .. Len(slots') : slots'[i] = r
  PROVE  ThreadInv'
<1>1. slot'[s] = st /\ \A r \in Slots : r # s => slot'[r] = slot[r]
  BY DEF T!Turn, ThreadInv, ThreadTypes
<1>2. \A t \in Threads : mutex = NULL => run[t] \notin T!InFreeAll
  BY ThreadAssumption DEF ThreadInv, OneFrees
<1>3. OneFrees'
  BY <1>2 DEF ThreadInv, OneFrees, T!InFreeAll
<1>4. \A t \in Threads, r \in Slots : tls[t][r] # NULL => slot'[r] = "whole"
  BY <1>1 DEF ThreadInv, Slotted
<1>5. Slotted'
  BY <1>4 DEF ThreadInv, Slotted
<1>6. \A t \in Threads, r \in Slots : HasIn(t, r)' <=> HasIn(t, r)
  BY <1>2 DEF HasIn
<1>7. HeldOnce'
  BY <1>6 DEF ThreadInv, HeldOnce
<1>8. Calm'
  BY DEF ThreadInv, Calm, T!Turn, T!Quiet
<1> QED BY <1>3, <1>5, <1>7, <1>8 DEF ThreadInv

LEMMA MakeSlotKeeps ==
  ASSUME ThreadInv, NEW s \in Slots, T!MakeSlot(s)
  PROVE  ThreadInv'
<1>1. PICK n \in Nat : n = Len(slots)
  BY DEF ThreadInv, ThreadTypes
<1>2. slots' = Append(slots, s) /\ UNCHANGED <<run, handle, tls, live, mutex, next, orphans>>
      /\ slot[s] = "gone" /\ mutex = NULL /\ T!Turn(s, "made")
  BY DEF T!MakeSlot
<1>3. Len(slots') = n + 1 /\ slots' \in Seq(Slots) /\ slots'[n + 1] = s /\ \A i \in 1 .. n : slots'[i] = slots[i]
  BY <1>1, <1>2 DEF ThreadInv, ThreadTypes
<1>4. \A i \in 1 .. n : slots[i] # s
  BY <1>1, <1>2 DEF ThreadInv, Slotted
<1>5. \A i \in 1 .. n + 1 : i \in 1 .. n \/ i = n + 1
  OBVIOUS
<1>6. \A i, j \in 1 .. n + 1 : slots'[i] = slots'[j] => i = j
  BY <1>1, <1>3, <1>4, <1>5 DEF ThreadInv, ThreadTypes
<1>7. slot' = [slot EXCEPT ![s] = "made"] /\ calm' \in BOOLEAN
  BY <1>2 DEF T!Turn, ThreadInv, ThreadTypes
<1>8. next' = 1
  BY <1>2 DEF ThreadInv, OneFrees
<1>9. ThreadTypes'
  BY <1>1, <1>2, <1>3, <1>6, <1>7, <1>8 DEF ThreadInv, ThreadTypes, States
<1>10. ASSUME NEW r \in Slots
       PROVE  slot'[r] # "gone" <=> \E i \in 1 .. Len(slots') : slots'[i] = r
  <2>1. (\E i \in 1 .. n + 1 : slots'[i] = r) <=> (r = s \/ \E i \in 1 .. n : slots[i] = r)
    BY <1>3, <1>5
  <2>2. slot[r] # "gone" <=> \E i \in 1 .. n : slots[i] = r
    BY <1>1 DEF ThreadInv, Slotted
  <2> QED BY <1>3, <1>7, <2>1, <2>2 DEF ThreadInv, ThreadTypes
<1>11. "made" \in States /\ slot[s] # "whole"
  BY <1>2 DEF States
<1> QED BY <1>2, <1>9, <1>10, <1>11, SlotTurns

LEMMA FinishSlotKeeps ==
  ASSUME ThreadInv, NEW s \in Slots, T!FinishSlot(s)
  PROVE  ThreadInv'
<1>1. slot[s] = "made" /\ T!Turn(s, "whole") /\ UNCHANGED <<run, handle, slots, tls, live, mutex, next, orphans>>
  BY DEF T!FinishSlot
<1>2. ThreadTypes' /\ "whole" \in States
  BY <1>1 DEF ThreadInv, ThreadTypes, States, T!Turn
<1>3. \A r \in Slots : slot'[r] # "gone" <=> slot[r] # "gone"
  BY <1>1 DEF ThreadInv, ThreadTypes, T!Turn
<1>4. \A r \in Slots : slot'[r] # "gone" <=> \E i \in 1 .. Len(slots') : slots'[i] = r
  BY <1>1, <1>3 DEF ThreadInv, Slotted
<1> QED BY <1>1, <1>2, <1>4, SlotTurns

\* What threads held in the slot becomes orphans.
LEMMA FreeIndexKeeps ==
  ASSUME ThreadInv, NEW s \in Slots, T!FreeIndex(s)
  PROVE  ThreadInv'
<1> DEFINE X == {tls[t][s] : t \in {t \in Threads : \E i \in T!Ahead(t) : slots[i] = s}} \ {NULL}
<1>1. /\ slot[s] = "whole" /\ slot' = [slot EXCEPT ![s] = "unmade"] /\ calm' = (calm /\ T!Quiet)
      /\ tls' = [t \in Threads |-> [tls[t] EXCEPT ![s] = NULL]] /\ orphans' = orphans \cup X
      /\ UNCHANGED <<run, handle, slots, live, mutex, next>>
  BY DEF T!FreeIndex, T!Turn
<1>2. \A p : p \in X <=> \E t \in Threads : HasIn(t, s) /\ tls[t][s] = p
  <2>1. ASSUME NEW p PROVE p \in X <=> \E t \in Threads : p # NULL /\ p = tls[t][s] /\ \E i \in T!Ahead(t) : slots[i] = s
    OBVIOUS
  <2>2. \A t \in Threads : HasIn(t, s) <=> tls[t][s] # NULL /\ \E i \in T!Ahead(t) : slots[i] = s
    BY AheadIs
  <2> QED BY <2>1, <2>2
<1> HIDE DEF X
<1>3. \A t \in Threads : /\ tls'[t] \in [Slots -> Objects \cup {NULL}] /\ tls'[t][s] = NULL
                         /\ \A r \in Slots : r # s => tls'[t][r] = tls[t][r]
  BY <1>1 DEF ThreadInv, ThreadTypes
<1>4. tls' \in [Threads -> [Slots -> Objects \cup {NULL}]]
  BY <1>1, <1>3
<1>5. /\ slot' \in [Slots -> States] /\ slot'[s] = "unmade" /\ \A r \in Slots : r # s => slot'[r] = slot[r]
      /\ calm' \in BOOLEAN
  BY <1>1 DEF ThreadInv, ThreadTypes, States
<1>6. ThreadTypes' /\ OneFrees'
  BY <1>1, <1>4, <1>5 DEF ThreadInv, ThreadTypes, OneFrees, T!InFreeAll
<1>7. Slotted'
  <2>1. \A r \in Slots : slot'[r] # "gone" <=> slot[r] # "gone"
    BY <1>1, <1>5
  <2>2. \A r \in Slots : slot'[r] # "gone" <=> \E i \in 1 .. Len(slots') : slots'[i] = r
    BY <1>1, <2>1 DEF ThreadInv, Slotted
  <2>3. \A t \in Threads, r \in Slots : tls'[t][r] # NULL => tls'[t][r] = tls[t][r] /\ slot'[r] = "whole"
    BY <1>3, <1>5 DEF ThreadInv, Slotted
  <2>4. \A t \in Threads : run'[t] \in {"none", "suspended", "exited"} => \A r \in Slots : tls'[t][r] = NULL
    BY <1>1, <2>3 DEF ThreadInv, Slotted
  <2>5. \A t \in Threads : handle'[t] = FALSE => run'[t] \in {"none", "exited"}
    BY <1>1 DEF ThreadInv, Slotted
  <2> QED BY <2>2, <2>3, <2>4, <2>5 DEF Slotted
<1>8. \A t \in Threads, r \in Slots : HasIn(t, r)' <=> HasIn(t, r) /\ r # s
  BY <1>1, <1>3 DEF HasIn, T!InFreeAll
<1>9. HeldOnce'
  <2>1. ASSUME NEW t \in Threads, NEW r \in Slots, HasIn(t, r)' PROVE tls'[t][r] \in live' \ orphans'
    <3>1. HasIn(t, r) /\ r # s /\ tls'[t][r] = tls[t][r]
      BY <1>3, <1>8, <2>1
    <3>2. tls[t][r] \notin X
      BY <1>2, <3>1 DEF ThreadInv, HeldOnce
    <3> QED BY <1>1, <3>1, <3>2 DEF ThreadInv, HeldOnce
  <2>2. orphans' \subseteq live'
    BY <1>1, <1>2 DEF ThreadInv, HeldOnce
  <2>3. ASSUME NEW p \in live' \ orphans' PROVE \E t \in Threads, r \in Slots : HasIn(t, r)' /\ tls'[t][r] = p
    <3>1. p \in live \ orphans /\ p \notin X
      BY <1>1, <2>3
    <3>2. PICK t \in Threads, r \in Slots : HasIn(t, r) /\ tls[t][r] = p
      BY <3>1 DEF ThreadInv, HeldOnce
    <3>3. r # s
      BY <1>2, <3>1, <3>2
    <3> QED BY <1>3, <1>8, <3>2, <3>3
  <2>4. \A t, u \in Threads, r, q \in Slots :
          HasIn(t, r)' /\ HasIn(u, q)' /\ tls'[t][r] = tls'[u][q] => t = u /\ r = q
    BY <1>3, <1>8 DEF ThreadInv, HeldOnce
  <2> QED BY <2>1, <2>2, <2>3, <2>4 DEF HeldOnce
<1>10. Calm'
  <2> SUFFICES ASSUME calm' PROVE orphans' = {} /\ (\A t \in Threads : run'[t] # "lost") /\ T!Quiet'
    BY DEF Calm
  <2>1. calm /\ T!Quiet
    BY <1>1
  <2>2. X = {}
    BY <1>2, <2>1, QuietNow
  <2> QED BY <1>1, <2>1, <2>2 DEF ThreadInv, Calm, T!Quiet
<1> QED BY <1>6, <1>7, <1>9, <1>10 DEF ThreadInv

LEMMA DestroySlotKeeps ==
  ASSUME ThreadInv, NEW s \in Slots, T!DestroySlot(s)
  PROVE  ThreadInv'
<1>1. PICK n \in Nat : n = Len(slots) /\ slots \in [1 .. n -> Slots]
  BY DEF ThreadInv, ThreadTypes
<1>2. UNCHANGED <<run, handle, tls, live, mutex, next, orphans>>
      /\ slot[s] = "unmade" /\ mutex = NULL /\ T!Turn(s, "gone")
  BY DEF T!DestroySlot
<1>3. PICK i \in 1 .. n : slots[i] = s /\ slots' = [j \in 1 .. n - 1 |-> IF j < i THEN slots[j] ELSE slots[j + 1]]
  BY <1>1 DEF T!DestroySlot
<1>4. \A j \in 1 .. n - 1 : j \in 1 .. n /\ j + 1 \in 1 .. n
  OBVIOUS
<1>5. n - 1 \in Nat
  BY <1>3
<1>6. slots' \in Seq(Slots) /\ Len(slots') = n - 1
  <2>1. PICK m \in Nat : m = n - 1
    BY <1>5
  <2>2. \A j \in 1 .. m : (IF j < i THEN slots[j] ELSE slots[j + 1]) \in Slots
    BY <1>1, <1>4, <2>1
  <2>3. slots' = [j \in 1 .. m |-> IF j < i THEN slots[j] ELSE slots[j + 1]]
    BY <1>3, <2>1
  <2> QED BY <2>1, <2>2, <2>3
<1>7. \A j, k \in 1 .. n : slots[j] = slots[k] => j = k
  BY <1>1 DEF ThreadInv, ThreadTypes
<1>8. \A j \in 1 .. n - 1 : \E h \in 1 .. n : h = (IF j < i THEN j ELSE j + 1) /\ h # i /\ slots'[j] = slots[h]
  <2> TAKE j \in 1 .. n - 1
  <2>1. PICK h \in 1 .. n : h = IF j < i THEN j ELSE j + 1
    BY <1>4
  <2> QED BY <1>3, <2>1
<1>9. \A h \in 1 .. n : h # i => \E j \in 1 .. n - 1 : slots'[j] = slots[h]
  <2> SUFFICES ASSUME NEW h \in 1 .. n, h # i PROVE \E j \in 1 .. n - 1 : slots'[j] = slots[h]
    OBVIOUS
  <2>1. PICK j \in 1 .. n - 1 : h = IF j < i THEN j ELSE j + 1
    <3>1. CASE h < i
      BY <3>1
    <3>2. CASE h > i
      <4>1. h - 1 \in 1 .. n - 1 /\ ~(h - 1 < i) /\ h = (h - 1) + 1
        BY <3>2
      <4> QED BY <4>1
    <3> QED BY <3>1, <3>2
  <2> QED BY <1>3, <2>1
<1>10. \A j, k \in 1 .. n - 1 : slots'[j] = slots'[k] => j = k
  <2> SUFFICES ASSUME NEW j \in 1 .. n - 1, NEW k \in 1 .. n - 1, slots'[j] = slots'[k]
      PROVE  j = k
    OBVIOUS
  <2>1. PICK a \in 1 .. n : a = (IF j < i THEN j ELSE j + 1) /\ slots'[j] = slots[a]
    BY <1>8
  <2>2. PICK b \in 1 .. n : b = (IF k < i THEN k ELSE k + 1) /\ slots'[k] = slots[b]
    BY <1>8
  <2>3. a = b
    BY <1>7, <2>1, <2>2
  <2> QED BY <2>1, <2>2, <2>3
<1>11. slot' = [slot EXCEPT ![s] = "gone"] /\ calm' \in BOOLEAN
  BY <1>2 DEF T!Turn, ThreadInv, ThreadTypes
<1>12. next' = 1
  BY <1>2 DEF ThreadInv, OneFrees
<1>13. ThreadTypes'
  BY <1>2, <1>5, <1>6, <1>10, <1>11, <1>12 DEF ThreadInv, ThreadTypes, States
<1>14. ASSUME NEW r \in Slots
       PROVE  slot'[r] # "gone" <=> \E j \in 1 .. Len(slots') : slots'[j] = r
  <2>1. slot[r] # "gone" <=> \E h \in 1 .. n : slots[h] = r
    BY <1>1 DEF ThreadInv, Slotted
  <2>2. CASE r = s
    <3>1. slot'[r] = "gone"
      BY <1>11, <2>2 DEF ThreadInv, ThreadTypes
    <3>2. \A j \in 1 .. n - 1 : slots'[j] # s
      BY <1>3, <1>7, <1>8
    <3> QED BY <1>6, <2>2, <3>1, <3>2
  <2>3. CASE r # s
    <3>1. slot'[r] = slot[r]
      BY <1>11, <2>3 DEF ThreadInv, ThreadTypes
    <3>2. (\E j \in 1 .. n - 1 : slots'[j] = r) <=> (\E h \in 1 .. n : slots[h] = r)
      BY <1>3, <1>8, <1>9, <2>3
    <3> QED BY <1>6, <2>1, <3>1, <3>2
  <2> QED BY <2>2, <2>3
<1>15. "gone" \in States /\ slot[s] # "whole"
  BY <1>2 DEF States
<1> QED BY <1>2, <1>13, <1>14, <1>15, SlotTurns

\* A thread goes on, and is not lost, while the slots are what they were.
LEMMA StillThere ==
  ASSUME ThreadInv, NEW t \in Threads, NEW place, run' = [run EXCEPT ![t] = place], place # "lost",
         run[t] \notin {"none", "exited"}, UNCHANGED <<slot, orphans, calm>>
  PROVE  Calm'
<1>1. ~T!Quiet
  BY DEF T!Quiet
<1>2. \A u \in Threads : run'[u] = "lost" => run[u] = "lost"
  BY DEF ThreadInv, ThreadTypes
<1> QED BY <1>1, <1>2 DEF ThreadInv, Calm

\* Who starts threads and waits for them changes no object.
LEMMA OwnerKeeps ==
  ASSUME ThreadInv, NEW t \in Threads,
         T!Start(t) \/ T!Resume(t) \/ T!Join(t)
  PROVE  ThreadInv'
<1>1. CASE T!Start(t)
  <2>1. run' = [run EXCEPT ![t] = "suspended"] /\ handle' = [handle EXCEPT ![t] = TRUE] /\ handle[t] = FALSE
        /\ calm' = (calm /\ \A s \in Slots : slot[s] \in {"gone", "whole"})
        /\ UNCHANGED <<slot, slots, tls, live, mutex, next, orphans>>
    BY <1>1 DEF T!Start, T!Go, ThreadInv, ThreadTypes
  <2>2. run[t] \in {"none", "exited"} /\ \A s \in Slots : tls[t][s] = NULL
    BY <2>1 DEF ThreadInv, Slotted
  <2>3. ThreadTypes' /\ OneFrees'
    BY <2>1, <2>2 DEF ThreadInv, ThreadTypes, Places, OneFrees, T!InFreeAll
  <2>4. Slotted'
    BY <2>1, <2>2 DEF ThreadInv, ThreadTypes, Slotted
  <2>5. \A u \in Threads, s \in Slots : HasIn(u, s)' <=> HasIn(u, s)
    BY <2>1, <2>2 DEF ThreadInv, ThreadTypes, HasIn, Before, T!InFreeAll
  <2>6. HeldOnce'
    BY <2>1, <2>5 DEF ThreadInv, HeldOnce
  <2>7. Calm'
    <3>1. \A u \in Threads : run'[u] = "lost" => run[u] = "lost"
      BY <2>1 DEF ThreadInv, ThreadTypes
    <3> QED BY <2>1, <3>1 DEF ThreadInv, Calm
  <2> QED BY <2>3, <2>4, <2>6, <2>7 DEF ThreadInv
<1>2. CASE T!Resume(t)
  <2>1. run' = [run EXCEPT ![t] = "running"] /\ run[t] = "suspended"
        /\ UNCHANGED <<handle, slot, slots, tls, live, mutex, next, orphans, calm>>
    BY <1>2 DEF T!Resume, T!Go
  <2>2. ThreadTypes' /\ OneFrees' /\ Slotted'
    BY <2>1 DEF ThreadInv, ThreadTypes, Places, OneFrees, Slotted, T!InFreeAll
  <2>3. \A u \in Threads, s \in Slots : HasIn(u, s)' <=> HasIn(u, s)
    BY <2>1 DEF ThreadInv, ThreadTypes, HasIn, Before, T!InFreeAll
  <2>4. HeldOnce'
    BY <2>1, <2>3 DEF ThreadInv, HeldOnce
  <2>5. Calm'
    BY <2>1, StillThere DEF T!InFreeAll
  <2> QED BY <2>2, <2>4, <2>5 DEF ThreadInv
<1>3. CASE T!Join(t)
  <2>1. UNCHANGED <<run, slot, slots, tls, live, mutex, next, orphans, calm>>
    BY <1>3 DEF T!Join
  <2>2. handle' \in [Threads -> BOOLEAN]
        /\ \A u \in Threads : handle'[u] = FALSE => handle[u] = FALSE \/ run[u] = "exited"
    BY <1>3 DEF T!Join, ThreadInv, ThreadTypes
  <2>3. ThreadTypes' /\ OneFrees' /\ Slotted'
    BY <2>1, <2>2 DEF ThreadInv, ThreadTypes, OneFrees, Slotted
  <2>4. HeldOnce' /\ Calm'
    BY <2>1 DEF ThreadInv, HeldOnce, HasIn, Calm, T!Quiet
  <2> QED BY <2>3, <2>4 DEF ThreadInv
<1> QED BY <1>1, <1>2, <1>3

\* A thread makes an object of its own.
LEMMA GetKeeps ==
  ASSUME ThreadInv, NEW t \in Threads, NEW s \in Slots, T!Get(t, s)
  PROVE  ThreadInv'
<1>1. PICK p \in Objects \ live : live' = live \cup {p} /\ tls' = [tls EXCEPT ![t][s] = p]
  BY DEF T!Get
<1>2. UNCHANGED <<run, handle, slot, slots, mutex, next, orphans, calm>>
      /\ run[t] = "running" /\ tls[t][s] = NULL /\ slot[s] = "whole"
  BY DEF T!Get
<1>3. p # NULL
  BY ThreadAssumption
<1>4. /\ tls' \in [Threads -> [Slots -> Objects \cup {NULL}]] /\ tls'[t][s] = p
      /\ \A u \in Threads, r \in Slots : u # t \/ r # s => tls'[u][r] = tls[u][r]
  BY <1>1 DEF ThreadInv, ThreadTypes
<1>5. ThreadTypes' /\ OneFrees'
  BY <1>1, <1>2, <1>4 DEF ThreadInv, ThreadTypes, OneFrees
<1>6. Slotted' /\ Calm'
  BY <1>2, <1>4 DEF ThreadInv, Slotted, Calm, T!Quiet
<1>7. HasIn(t, s)' /\ ~HasIn(t, s)
      /\ \A u \in Threads, r \in Slots : u # t \/ r # s => (HasIn(u, r)' <=> HasIn(u, r))
  BY <1>2, <1>3, <1>4 DEF HasIn, Before
<1>9. p \notin orphans /\ orphans' \subseteq live'
  BY <1>1, <1>2 DEF ThreadInv, HeldOnce
<1>8. HeldOnce'
  <2>1. \A u \in Threads, r \in Slots :
          HasIn(u, r)' /\ (u # t \/ r # s) => tls'[u][r] \in live \ orphans /\ tls'[u][r] # p
    BY <1>4, <1>7 DEF ThreadInv, HeldOnce
  <2>2. \A q \in live \ orphans : \E u \in Threads, r \in Slots : HasIn(u, r)' /\ tls'[u][r] = q
    BY <1>4, <1>7 DEF ThreadInv, HeldOnce
  <2>3. \A u, w \in Threads, r, q \in Slots :
          HasIn(u, r)' /\ HasIn(w, q)' /\ tls'[u][r] = tls'[w][q] => u = w /\ r = q
    BY <1>4, <1>7, <2>1 DEF ThreadInv, HeldOnce
  <2> QED BY <1>1, <1>2, <1>4, <1>7, <1>9, <2>1, <2>2, <2>3 DEF HeldOnce
<1> QED BY <1>5, <1>6, <1>8 DEF ThreadInv

\* It comes to its end, and to FreeAll with the objects it has.
LEMMA EndKeeps ==
  ASSUME ThreadInv, NEW t \in Threads, T!ThreadProcReturns(t) \/ T!EnterFreeAll(t)
  PROVE  ThreadInv'
<1>1. UNCHANGED <<handle, slot, slots, tls, live, orphans, calm>>
      /\ \/ /\ run[t] = "running" /\ run' = [run EXCEPT ![t] = "ending"] /\ UNCHANGED <<mutex, next>>
         \/ /\ run[t] = "ending" /\ run' = [run EXCEPT ![t] = "freeing"]
            /\ mutex = NULL /\ mutex' = t /\ next' = 1
  BY DEF T!ThreadProcReturns, T!EnterFreeAll, T!Go
<1>2. ThreadTypes'
  <2>1. run' \in [Threads -> Places] /\ mutex' \in Threads \cup {NULL}
    BY <1>1 DEF ThreadInv, ThreadTypes, Places
  <2>2. next' \in 1 .. Len(slots') + 1
    BY <1>1 DEF ThreadInv, ThreadTypes
  <2> QED BY <1>1, <2>1, <2>2 DEF ThreadInv, ThreadTypes
<1>3. OneFrees'
  BY <1>1, ThreadAssumption DEF ThreadInv, ThreadTypes, OneFrees, T!InFreeAll
<1>4. Slotted'
  BY <1>1 DEF ThreadInv, ThreadTypes, Slotted
<1>5. \A u \in Threads : u # t => run[u] = run'[u] /\ (run[u] \in T!InFreeAll => next' = next)
  BY <1>1, ThreadAssumption DEF ThreadInv, ThreadTypes, OneFrees, T!InFreeAll
<1>6. \A u \in Threads, s \in Slots : HasIn(u, s)' <=> HasIn(u, s)
  <2> SUFFICES ASSUME NEW u \in Threads, NEW s \in Slots PROVE HasIn(u, s)' <=> HasIn(u, s)
    OBVIOUS
  <2>1. CASE u # t
    BY <1>1, <1>5, <2>1 DEF HasIn
  <2>2. CASE u = t
    BY <1>1, <2>2 DEF ThreadInv, ThreadTypes, Slotted, HasIn, Before, T!InFreeAll
  <2> QED BY <2>1, <2>2
<1>7. HeldOnce'
  BY <1>1, <1>6 DEF ThreadInv, HeldOnce
<1>8. Calm'
  BY <1>1, StillThere
<1> QED BY <1>2, <1>3, <1>4, <1>7, <1>8 DEF ThreadInv

\* The call of a slot deletes nothing; it is lost on one that is not whole.
LEMMA CallKeeps ==
  ASSUME ThreadInv, NEW t \in Threads, T!CallFree(t) \/ T!FreeLost(t)
  PROVE  ThreadInv'
<1>1. PICK place \in {"calling", "lost"} :
        /\ run' = [run EXCEPT ![t] = place] /\ run[t] \in {"freeing", "calling"}
        /\ place = "calling" <=> slot[slots[next]] = "whole"
        /\ next <= Len(slots) /\ UNCHANGED <<handle, slot, slots, tls, live, mutex, next, orphans, calm>>
  <2>1. CASE T!CallFree(t)
    BY <2>1 DEF T!CallFree, T!Go
  <2>2. CASE T!FreeLost(t)
    BY <2>2 DEF T!FreeLost, T!Go, ThreadInv, OneFrees
  <2> QED BY <2>1, <2>2
<1>2. ThreadTypes' /\ OneFrees' /\ Slotted'
  BY <1>1 DEF ThreadInv, ThreadTypes, Places, OneFrees, Slotted, T!InFreeAll
<1>3. \A u \in Threads, s \in Slots : HasIn(u, s)' <=> HasIn(u, s)
  BY <1>1 DEF ThreadInv, ThreadTypes, HasIn, Before, T!InFreeAll
<1>4. HeldOnce'
  BY <1>1, <1>3 DEF ThreadInv, HeldOnce
<1>5. slots[next] \in Slots /\ slot[slots[next]] # "gone"
  BY <1>1 DEF ThreadInv, ThreadTypes, Slotted
<1>6. ~T!Quiet
  BY <1>1 DEF T!Quiet
<1>7. calm => place = "calling"
  BY <1>1, <1>5, <1>6 DEF ThreadInv, Calm
<1>8. Calm'
  <2>1. calm => \A u \in Threads : run'[u] # "lost"
    BY <1>1, <1>7 DEF ThreadInv, ThreadTypes, Calm
  <2> QED BY <1>1, <1>6, <2>1 DEF ThreadInv, Calm
<1> QED BY <1>2, <1>4, <1>8 DEF ThreadInv

\* FreeAll deletes what the thread holds in a slot and no other object.
LEMMA FreeKeeps ==
  ASSUME ThreadInv, NEW t \in Threads, T!Free(t)
  PROVE  ThreadInv'
<1>1. PICK s \in Slots : s = slots[next] /\ next \in 1 .. Len(slots)
  BY DEF T!Free, ThreadInv, ThreadTypes, OneFrees
<1>2. PICK p \in IF tls[t][s] = NULL THEN Objects \ live ELSE {tls[t][s]} :
        live' = live \ {p} /\ tls' = [tls EXCEPT ![t][s] = p]
  BY <1>1 DEF T!Free
<1>3. run[t] = "calling" /\ next' = next + 1 /\ UNCHANGED <<handle, slot, slots, mutex, orphans, calm>>
      /\ slot[s] = "whole" /\ run' = [run EXCEPT ![t] = "freeing"]
  BY <1>1 DEF T!Free, T!Go
<1>14. \A u \in Threads : run'[u] \in Places /\ (u # t => run'[u] = run[u]) /\ (u = t => run'[u] = "freeing")
  BY <1>3 DEF ThreadInv, ThreadTypes, Places
<1>4. p \in Objects /\ (tls[t][s] = NULL => p \notin live) /\ (tls[t][s] # NULL => p = tls[t][s])
  BY <1>2 DEF ThreadInv, ThreadTypes
<1>5. /\ tls' \in [Threads -> [Slots -> Objects \cup {NULL}]] /\ tls'[t][s] = p
      /\ \A u \in Threads, r \in Slots : u # t \/ r # s => tls'[u][r] = tls[u][r]
  BY <1>2, <1>4 DEF ThreadInv, ThreadTypes
<1>6. ThreadTypes'
  BY <1>1, <1>2, <1>3, <1>5, <1>14 DEF ThreadInv, ThreadTypes
<1>15. \A u \in Threads : u # t => run[u] \notin T!InFreeAll
  BY <1>3 DEF ThreadInv, OneFrees, T!InFreeAll
<1>7. OneFrees'
  BY <1>3, <1>14, <1>15, ThreadAssumption DEF ThreadInv, OneFrees, T!InFreeAll
<1>8. Slotted'
  BY <1>1, <1>3, <1>5, <1>14 DEF ThreadInv, Slotted
<1>9. ~HasIn(t, s)'
  BY <1>1, <1>3, <1>14 DEF ThreadInv, ThreadTypes, HasIn, Before
<1>10. \A u \in Threads, r \in Slots : u # t \/ r # s => (HasIn(u, r)' <=> HasIn(u, r))
  <2> SUFFICES ASSUME NEW u \in Threads, NEW r \in Slots, u # t \/ r # s
      PROVE  HasIn(u, r)' <=> HasIn(u, r)
    OBVIOUS
  <2>1. CASE u # t
    BY <1>3, <1>5, <1>14, <1>15, <2>1 DEF HasIn
  <2>2. CASE u = t /\ r # s
    <3>1. (\E i \in next .. Len(slots) : slots[i] = r) <=> (\E i \in next + 1 .. Len(slots) : slots[i] = r)
      BY <1>1, <2>2 DEF ThreadInv, ThreadTypes
    <3> QED BY <1>3, <1>5, <1>14, <2>2, <3>1 DEF HasIn, Before, T!InFreeAll
  <2> QED BY <2>1, <2>2
<1>11. tls[t][s] # NULL => HasIn(t, s)
  BY <1>1, <1>3 DEF HasIn, T!InFreeAll
<1>12. \A u \in Threads, r \in Slots : HasIn(u, r)' => (u # t \/ r # s) /\ HasIn(u, r) /\ tls'[u][r] = tls[u][r]
  BY <1>5, <1>9, <1>10
<1>13. HeldOnce'
  <2>1. \A u \in Threads, r \in Slots : HasIn(u, r)' => tls'[u][r] \in live \ orphans /\ tls'[u][r] # p
    BY <1>4, <1>11, <1>12 DEF ThreadInv, HeldOnce
  <2>3. p \notin orphans /\ orphans' \subseteq live'
    <3>1. p \notin orphans
      BY <1>4, <1>11 DEF ThreadInv, HeldOnce
    <3> QED BY <1>2, <1>3, <3>1 DEF ThreadInv, HeldOnce
  <2>2. \A q \in live' \ orphans' : \E u \in Threads, r \in Slots : HasIn(u, r)' /\ tls'[u][r] = q
    <3> TAKE q \in live' \ orphans'
    <3>1. PICK u \in Threads, r \in Slots : HasIn(u, r) /\ tls[u][r] = q /\ q # p
      BY <1>2, <1>3 DEF ThreadInv, HeldOnce
    <3>2. u # t \/ r # s
      BY <1>4, <3>1 DEF HasIn
    <3> QED BY <1>5, <1>10, <3>1, <3>2
  <2> QED BY <1>2, <1>3, <1>12, <2>1, <2>2, <2>3 DEF ThreadInv, HeldOnce
<1>16. Calm'
  BY <1>3, StillThere
<1> QED BY <1>6, <1>7, <1>8, <1>13, <1>16 DEF ThreadInv

\* The thread returns, with nothing left that it holds.
LEMMA ExitKeeps ==
  ASSUME ThreadInv, NEW t \in Threads, T!Exit(t)
  PROVE  ThreadInv'
<1>1. run[t] = "freeing" /\ next > Len(slots) /\ mutex' = NULL /\ next' = 1 /\ run' = [run EXCEPT ![t] = "exited"]
      /\ tls' = [tls EXCEPT ![t] = T!NoTls] /\ UNCHANGED <<handle, slot, slots, live, orphans, calm>>
  BY DEF T!Exit, T!Go
<1>2. /\ tls' \in [Threads -> [Slots -> Objects \cup {NULL}]] /\ \A s \in Slots : tls'[t][s] = NULL
      /\ \A u \in Threads : u # t => tls'[u] = tls[u] /\ run'[u] = run[u] /\ run[u] \notin T!InFreeAll
      /\ run'[t] = "exited"
  BY <1>1 DEF ThreadInv, ThreadTypes, OneFrees, T!NoTls, T!InFreeAll
<1>3. ThreadTypes'
  BY <1>1, <1>2 DEF ThreadInv, ThreadTypes, Places
<1>4. OneFrees' /\ Slotted'
  BY <1>1, <1>2, ThreadAssumption DEF ThreadInv, OneFrees, Slotted, T!InFreeAll
<1>5. \A s \in Slots : ~HasIn(t, s) /\ ~HasIn(t, s)'
  BY <1>1, <1>2 DEF ThreadInv, ThreadTypes, HasIn, Before
<1>6. \A u \in Threads, s \in Slots : (HasIn(u, s)' <=> HasIn(u, s)) /\ (HasIn(u, s) => tls'[u][s] = tls[u][s])
  BY <1>1, <1>2, <1>5 DEF HasIn
<1>7. HeldOnce'
  BY <1>1, <1>6 DEF ThreadInv, HeldOnce
<1>8. Calm'
  BY <1>1, StillThere
<1> QED BY <1>3, <1>4, <1>7, <1>8 DEF ThreadInv

LEMMA ThreadsStep ==
  ASSUME ThreadInv, T!Next
  PROVE  ThreadInv'
BY MakeSlotKeeps, FinishSlotKeeps, FreeIndexKeeps, DestroySlotKeeps, OwnerKeeps, GetKeeps, EndKeeps,
   CallKeeps, FreeKeeps, ExitKeeps
   DEF T!Next, T!ThreadStep

LEMMA ThreadsStay ==
  ASSUME ThreadInv, UNCHANGED threadVars
  PROVE  ThreadInv'
BY DEF ThreadInv, ThreadTypes, OneFrees, Slotted, HeldOnce, HasIn, Calm, T!Quiet, threadVars

\* Threads that are started, joined and started again, with thread-local objects in
\* slots that come and go at any moment: a thread never sees an object that was
\* deleted or is another thread's, and what no thread will delete was left behind
\* by a slot destroyed under a thread.  With slots that come and go only while there
\* are no threads, nothing is left behind and no FreeAll calls a slot that is not
\* whole (Thread.h: Start, Join; ThreadLocal.h: Get, Free, FreeAll, the destructor).
THEOREM ThreadsOwnObjects == Spec => [](T!TypeOK /\ T!OwnObjects)
<1>1. Init => ThreadInv
  BY ThreadInit DEF Init
<1>2. ThreadInv /\ [Next]_vars => ThreadInv'
  BY ThreadsStep, ThreadsStay DEF Next, vars
<1> QED BY <1>1, <1>2, ThreadSafe, PTL DEF Spec
-----------------------------------------------------------------------------
(* HighWaterHeap: piles of buckets *)

\* A pile put on another one, what is under the top of a pile, and a single bucket.
LEMMA PilesJoin ==
  ASSUME NEW S, NEW c, NEW d, Distinct(S, c), Distinct(S, d), Range(c) \cap Range(d) = {}
  PROVE  Distinct(S, d \o c) /\ Range(d \o c) = Range(d) \cup Range(c)
<1>1. Range(d \o c) = Range(d) \cup Range(c)
  BY RangeConcat
<1>2. PICK m \in Nat, n \in Nat : m = Len(d) /\ n = Len(c)
  BY PathRange
<1>3. /\ d \o c \in Seq(S) /\ Len(d \o c) = m + n
      /\ \A i \in 1 .. m + n : (d \o c)[i] = IF i <= m THEN d[i] ELSE c[i - m]
  BY <1>2, ConcatProperties DEF Distinct
<1>4. \A i \in 1 .. m : d[i] \in Range(d)
  BY <1>2, PathRange
<1>5. \A i \in 1 .. n : c[i] \in Range(c)
  BY <1>2, PathRange
<1>6. \A i \in 1 .. m + n : (i \in 1 .. m /\ (d \o c)[i] = d[i]) \/ (i - m \in 1 .. n /\ (d \o c)[i] = c[i - m])
  BY <1>2, <1>3
<1>7. ASSUME NEW i \in 1 .. m + n, NEW j \in 1 .. m + n, (d \o c)[i] = (d \o c)[j]
      PROVE  i = j
  <2>1. CASE i \in 1 .. m /\ (d \o c)[i] = d[i] /\ j \in 1 .. m /\ (d \o c)[j] = d[j]
    BY <1>2, <1>7, <2>1 DEF Distinct
  <2>2. CASE i - m \in 1 .. n /\ (d \o c)[i] = c[i - m] /\ j - m \in 1 .. n /\ (d \o c)[j] = c[j - m]
    <3>1. i - m = j - m
      BY <1>2, <1>7, <2>2 DEF Distinct
    <3> QED BY <1>2, <3>1
  <2>3. CASE i \in 1 .. m /\ (d \o c)[i] = d[i] /\ j - m \in 1 .. n /\ (d \o c)[j] = c[j - m]
    BY <1>4, <1>5, <1>7, <2>3
  <2>4. CASE i - m \in 1 .. n /\ (d \o c)[i] = c[i - m] /\ j \in 1 .. m /\ (d \o c)[j] = d[j]
    BY <1>4, <1>5, <1>7, <2>4
  <2> QED BY <1>6, <2>1, <2>2, <2>3, <2>4
<1> QED BY <1>1, <1>3, <1>7 DEF Distinct

LEMMA PileTop ==
  ASSUME NEW S, NEW c, Distinct(S, c), c # <<>>
  PROVE  /\ Distinct(S, Tail(c)) /\ Head(c) \in S /\ Head(c) \notin Range(Tail(c))
         /\ Range(c) = Range(Tail(c)) \cup {Head(c)}
<1>1. PICK n \in Nat : n = Len(c) - 1 /\ n + 1 = Len(c)
  BY EmptySeq DEF Distinct
<1>2. c \in Seq(S) /\ Head(c) = c[1] /\ Tail(c) \in Seq(S) /\ Len(Tail(c)) = n /\ \A i \in 1 .. n : Tail(c)[i] = c[i + 1]
  BY <1>1 DEF Distinct
<1>3. \A i, j \in 1 .. n + 1 : c[i] = c[j] => i = j
  BY <1>1 DEF Distinct
<1>4. \A i \in 1 .. n : i + 1 \in 1 .. n + 1 /\ i + 1 # 1
  OBVIOUS
<1>5. Distinct(S, Tail(c))
  <2>1. ASSUME NEW i \in 1 .. n, NEW j \in 1 .. n, Tail(c)[i] = Tail(c)[j] PROVE i = j
    <3>1. i + 1 = j + 1
      BY <1>2, <1>3, <1>4, <2>1
    <3> QED BY <3>1
  <2> QED BY <1>2, <2>1 DEF Distinct
<1>6. Range(c) = {c[i] : i \in 1 .. n + 1} /\ Range(Tail(c)) = {Tail(c)[i] : i \in 1 .. n}
  BY <1>1, <1>2, <1>5, PathRange
<1>7. 1 \in 1 .. n + 1 /\ \A i \in 1 .. n + 1 : i = 1 \/ (i - 1 \in 1 .. n /\ i = (i - 1) + 1)
  OBVIOUS
<1>8. Head(c) \notin Range(Tail(c))
  BY <1>2, <1>3, <1>4, <1>6, <1>7
<1>9. Range(c) \subseteq Range(Tail(c)) \cup {Head(c)}
  BY <1>2, <1>6, <1>7
<1>10. Range(Tail(c)) \cup {Head(c)} \subseteq Range(c)
  BY <1>2, <1>4, <1>6, <1>7
<1> QED BY <1>1, <1>2, <1>5, <1>7, <1>8, <1>9, <1>10

LEMMA PileOfOne ==
  ASSUME NEW S, NEW b \in S
  PROVE  Distinct(S, <<b>>) /\ Range(<<b>>) = {b}
  BY DEF Distinct, Range

\* The bucket on top of a pile, and the rest of it.
LEMMA PileSplits ==
  ASSUME NEW S, NEW b \in S, NEW c \in Seq(S), Distinct(S, <<b>> \o c)
  PROVE  Distinct(S, c) /\ b \notin Range(c) /\ Range(<<b>> \o c) = Range(c) \cup {b}
<1> DEFINE d == <<b>> \o c
<1>1. d \in Seq(S) /\ Len(d) = Len(c) + 1 /\ d[1] = b /\ \A i \in 1 .. Len(c) : d[i + 1] = c[i]
  OBVIOUS
<1>2. d # <<>> /\ Head(d) = b
  BY <1>1
<1>3. Tail(d) = c
  <2>1. PICK e \in Seq(S) : e = Tail(d)
    BY <1>1, <1>2
  <2>2. Len(e) = Len(c) /\ \A i \in 1 .. Len(e) : e[i] = c[i]
    BY <1>1, <1>2, <2>1
  <2>3. e = c
    BY <2>2, SeqEqual
  <2> QED BY <2>1, <2>3
<1>4. Distinct(S, d)
  OBVIOUS
<1> HIDE DEF d
<1>5. Distinct(S, c) /\ b \notin Range(c) /\ Range(d) = Range(c) \cup {b}
  BY <1>2, <1>3, <1>4, PileTop
<1> QED BY <1>5 DEF d
-----------------------------------------------------------------------------
(* HighWaterHeap: where the buckets are *)

HeapBlocks == [bucket : Buckets, from : Nat, size : Nat \ {0}]
Words16 == [count : Nat, high : 0 .. BucketUnits]

HeapCalls ==
  [at : {"idle", "pop", "look", "retire", "load", "claim", "giveback", "spare", "loadfree", "free"},
   size : Nat, bucket : Buckets \cup {NONE}, tried : Seq(Buckets), spare : BOOLEAN,
   seen : Words16, mem : HeapBlocks \cup {NONE}]

HeapTypes ==
  /\ state \in [Buckets -> Words16] /\ allocs \in 0 .. MaxAllocs
  /\ blocks \subseteq HeapBlocks /\ call \in [Threads -> HeapCalls]

\* What a call knows: a bucket in its hands, no block before Claim, the block of a
\* Free and its bucket.
Knows(c) ==
  /\ c.at \in {"look", "retire", "load", "claim", "loadfree", "free"} => c.bucket \in Buckets
  /\ c.at = "giveback" /\ (c.mem # NONE \/ c.spare = TRUE) => c.bucket \in Buckets
  /\ c.at \in {"idle", "spare", "loadfree", "free"} => c.tried = <<>>
  /\ c.at \in {"idle", "pop", "look", "retire", "load", "claim", "spare"} => c.mem = NONE
  /\ c.at \in {"pop", "look", "retire", "spare"} => c.spare = FALSE
  /\ c.at \in {"pop", "look", "retire", "load", "claim", "spare"} => c.size # 0
  /\ c.at = "claim" => c.size + c.seen.high <= BucketUnits
  /\ c.at = "giveback" /\ c.mem = NONE => c.size # 0
  /\ c.at \in {"loadfree", "free"} => c.mem # NONE /\ c.mem.bucket = c.bucket

CallsKnow == HeapTypes /\ \A t \in Threads : Knows(call[t])

\* The buckets a call has taken from the stacks.
HandOf(c) ==
  IF c.at \in {"look", "retire", "load", "claim"} \/ (c.at = "giveback" /\ (c.mem # NONE \/ c.spare))
  THEN <<c.bucket>> \o c.tried ELSE c.tried

LEMMA HandsAre ==
  ASSUME NEW t
  PROVE  W!Hands(t) = HandOf(call[t]) /\ W!Hands(t)' = HandOf(call'[t])
BY Zenon DEF W!Hands, HandOf

LEMMA HandFull ==
  ASSUME NEW c \in HeapCalls,
         c.at \in {"look", "retire", "load", "claim"} \/ (c.at = "giveback" /\ (c.mem # NONE \/ c.spare = TRUE))
  PROVE  HandOf(c) = <<c.bucket>> \o c.tried
<1>1. CASE c.at \in {"look", "retire", "load", "claim"}
  BY <1>1, Zenon DEF HandOf
<1>2. CASE c.at = "giveback" /\ c.mem # NONE
  BY <1>2, Zenon DEF HandOf
<1>3. CASE c.at = "giveback" /\ c.spare = TRUE
  BY <1>3, Zenon DEF HandOf
<1> QED BY <1>1, <1>2, <1>3

LEMMA HandTried ==
  ASSUME NEW c \in HeapCalls, c.at \notin {"look", "retire", "load", "claim"},
         c.at = "giveback" => c.mem = NONE /\ c.spare = FALSE
  PROVE  HandOf(c) = c.tried
BY Zenon DEF HandOf

\* Each bucket in one place: of a step of thread t it is enough to know what it
\* makes of the stacks and of its own hands.
PilesApart(a, r, h) ==
  /\ Distinct(Buckets, a) /\ Distinct(Buckets, r) /\ \A t \in Threads : Distinct(Buckets, h[t])
  /\ Range(a) \cap Range(r) = {}
  /\ \A t \in Threads : Range(h[t]) \cap (Range(a) \cup Range(r)) = {}
  /\ \A t, u \in Threads : t # u => Range(h[t]) \cap Range(h[u]) = {}
  /\ \A b \in Buckets : b \in Range(a) \/ b \in Range(r) \/ \E t \in Threads : b \in Range(h[t])

PilesInv == PilesApart(active, reserve, [t \in Threads |-> HandOf(call[t])])

LEMMA PilesMove ==
  ASSUME NEW a, NEW r, NEW h, NEW anew, NEW rnew, NEW hnew, NEW t \in Threads,
         PilesApart(a, r, h), \A u \in Threads \ {t} : hnew[u] = h[u],
         Distinct(Buckets, anew), Distinct(Buckets, rnew), Distinct(Buckets, hnew[t]),
         Range(anew) \cap Range(rnew) = {}, Range(hnew[t]) \cap (Range(anew) \cup Range(rnew)) = {},
         Range(anew) \cup Range(rnew) \cup Range(hnew[t]) = Range(a) \cup Range(r) \cup Range(h[t])
  PROVE  PilesApart(anew, rnew, hnew)
<1>1. \A u \in Threads \ {t} : Range(h[u]) \cap (Range(anew) \cup Range(rnew) \cup Range(hnew[t])) = {}
  BY DEF PilesApart
<1>2. \A u \in Threads : u = t \/ u \in Threads \ {t}
  OBVIOUS
<1>3. \A u \in Threads : Distinct(Buckets, hnew[u])
  BY <1>2 DEF PilesApart
<1>4. \A u \in Threads : Range(hnew[u]) \cap (Range(anew) \cup Range(rnew)) = {}
  BY <1>1, <1>2
<1>5. \A u, w \in Threads : u # w => Range(hnew[u]) \cap Range(hnew[w]) = {}
  <2> SUFFICES ASSUME NEW u \in Threads, NEW w \in Threads, u # w
      PROVE  Range(hnew[u]) \cap Range(hnew[w]) = {}
    OBVIOUS
  <2>1. CASE u = t
    BY <1>1, <2>1
  <2>2. CASE w = t
    BY <1>1, <2>2
  <2>3. CASE u # t /\ w # t
    BY <2>3 DEF PilesApart
  <2> QED BY <2>1, <2>2, <2>3
<1>6. \A b \in Buckets : b \in Range(anew) \/ b \in Range(rnew) \/ \E u \in Threads : b \in Range(hnew[u])
  <2> TAKE b \in Buckets
  <2>1. CASE b \in Range(a) \cup Range(r) \cup Range(h[t])
    BY <2>1
  <2>2. CASE \E u \in Threads \ {t} : b \in Range(h[u])
    BY <2>2
  <2> QED BY <2>1, <2>2, <1>2 DEF PilesApart
<1> QED BY <1>3, <1>4, <1>5, <1>6 DEF PilesApart

LEMMA PilesStay ==
  ASSUME PilesInv, UNCHANGED <<active, reserve>>, \A u \in Threads : HandOf(call'[u]) = HandOf(call[u])
  PROVE  PilesInv'
<1>1. [u \in Threads |-> HandOf(call'[u])] = [u \in Threads |-> HandOf(call[u])]
  OBVIOUS
<1> QED BY <1>1 DEF PilesInv

\* The hands of a thread that moves a bucket.
LEMMA PilesStep ==
  ASSUME PilesInv, NEW t \in Threads, \A u \in Threads \ {t} : call'[u] = call[u],
         Distinct(Buckets, active'), Distinct(Buckets, reserve'), Distinct(Buckets, HandOf(call'[t])),
         Range(active') \cap Range(reserve') = {},
         Range(HandOf(call'[t])) \cap (Range(active') \cup Range(reserve')) = {},
         Range(active') \cup Range(reserve') \cup Range(HandOf(call'[t]))
           = Range(active) \cup Range(reserve) \cup Range(HandOf(call[t]))
  PROVE  PilesInv'
<1> DEFINE h == [u \in Threads |-> HandOf(call[u])]
           hnew == [u \in Threads |-> HandOf(call'[u])]
<1>1. h[t] = HandOf(call[t]) /\ hnew[t] = HandOf(call'[t]) /\ \A u \in Threads \ {t} : hnew[u] = h[u]
  OBVIOUS
<1>2. PilesApart(active, reserve, h)
  BY DEF PilesInv
<1> HIDE DEF h, hnew
<1>3. PilesApart(active', reserve', hnew)
  BY <1>1, <1>2, PilesMove
<1> QED BY <1>3 DEF PilesInv, hnew

LEMMA PilesHave ==
  ASSUME PilesInv, NEW t \in Threads
  PROVE  /\ Distinct(Buckets, active) /\ Distinct(Buckets, reserve) /\ Distinct(Buckets, HandOf(call[t]))
         /\ Range(active) \cap Range(reserve) = {}
         /\ Range(HandOf(call[t])) \cap (Range(active) \cup Range(reserve)) = {}
BY DEF PilesInv, PilesApart

LEMMA PilesSafe ==
  ASSUME PilesInv
  PROVE  W!OnePlaceEach /\ active \in Seq(Buckets) /\ reserve \in Seq(Buckets)
<1> DEFINE h == [u \in Threads |-> HandOf(call[u])]
<1>1. \A t \in Threads : W!Hands(t) = h[t]
  BY HandsAre
<1> HIDE DEF h
<1>2. PilesApart(active, reserve, h)
  BY DEF PilesInv, h
<1>3. \A q : W!ToSet(q) = Range(q)
  BY DEF W!ToSet, Range
<1>4. \A q : Distinct(Buckets, q) => W!IsInjective(q) /\ Range(q) \subseteq Buckets /\ q \in Seq(Buckets)
  BY PathRange DEF W!IsInjective, Distinct
<1>5. \A q \in {active, reserve} \cup {W!Hands(t) : t \in Threads} : W!IsInjective(q)
  BY <1>1, <1>2, <1>4 DEF PilesApart
<1>6. W!ToSet(active) \cap W!ToSet(reserve) = {}
  BY <1>2, <1>3 DEF PilesApart
<1>7. \A t \in Threads : W!ToSet(W!Hands(t)) \cap (W!ToSet(active) \cup W!ToSet(reserve)) = {}
  BY <1>1, <1>2, <1>3 DEF PilesApart
<1>8. \A t, u \in Threads : t # u => W!ToSet(W!Hands(t)) \cap W!ToSet(W!Hands(u)) = {}
  BY <1>1, <1>2, <1>3 DEF PilesApart
<1>9. Buckets = W!ToSet(active) \cup W!ToSet(reserve) \cup UNION {W!ToSet(W!Hands(t)) : t \in Threads}
  <2>1. \A b \in Buckets : b \in Range(active) \/ b \in Range(reserve) \/ \E t \in Threads : b \in Range(h[t])
    BY <1>2 DEF PilesApart
  <2>2. Range(active) \subseteq Buckets /\ Range(reserve) \subseteq Buckets
        /\ \A t \in Threads : Range(h[t]) \subseteq Buckets
    BY <1>2, <1>4 DEF PilesApart
  <2>3. UNION {W!ToSet(W!Hands(t)) : t \in Threads} = UNION {Range(h[t]) : t \in Threads}
    BY <1>1, <1>3
  <2> QED BY <1>3, <2>1, <2>2, <2>3
<1> QED BY <1>2, <1>4, <1>5, <1>6, <1>7, <1>8, <1>9 DEF W!OnePlaceEach, PilesApart
-----------------------------------------------------------------------------
(* HighWaterHeap: the blocks *)

\* The blocks that are claimed, and the calls of Alloc that have none yet.
Owned == blocks \cup ({call[t].mem : t \in Threads} \ {NONE})
ClaimsIn(b) == {m \in Owned : m.bucket = b}
Seeks(c) ==
  c.at \in {"pop", "look", "retire", "load", "claim", "spare"} \/ (c.at = "giveback" /\ c.mem = NONE)
Seeking == {t \in Threads : Seeks(call[t])}

OwnBlocks ==
  \A t \in Threads :
    call[t].mem # NONE => call[t].mem \notin blocks /\ \A u \in Threads \ {t} : call[u].mem # call[t].mem

Packed(b) ==
  /\ Cardinality(ClaimsIn(b)) = state[b].count
  /\ \A m \in ClaimsIn(b) : m.from + m.size <= state[b].high
  /\ \A m, n \in ClaimsIn(b) : m # n => m.from + m.size <= n.from \/ n.from + n.size <= m.from

BlocksInv ==
  /\ IsFiniteSet(Owned) /\ OwnBlocks /\ \A b \in Buckets : Packed(b)
  /\ Cardinality(Seeking) + Cardinality(Owned) <= allocs

HeapInv == CallsKnow /\ PilesInv /\ BlocksInv

LEMMA NoneIsNone == NONE \notin HeapBlocks
BY HeapAssumption DEF HeapBlocks

LEMMA OwnedAre ==
  ASSUME HeapTypes
  PROVE  Owned \subseteq HeapBlocks /\ \A b : ClaimsIn(b) = W!Claimed(b)
<1>1. \A t \in Threads : call[t].mem \in HeapBlocks \cup {NONE}
  BY DEF HeapTypes, HeapCalls
<1>2. \A m \in blocks : m # NONE
  BY NoneIsNone DEF HeapTypes
<1> QED BY <1>1, <1>2 DEF HeapTypes, Owned, ClaimsIn, W!Claimed

LEMMA HeapSafe ==
  ASSUME HeapInv
  PROVE  W!TypeOK /\ W!BlocksDisjoint /\ W!OnePlaceEach
<1>1. HeapTypes /\ BlocksInv
  BY DEF HeapInv, CallsKnow
<1>2. \A b \in Buckets : state[b].count \in 0 .. MaxAllocs
  <2> TAKE b \in Buckets
  <2>1. ClaimsIn(b) \subseteq Owned
    BY DEF ClaimsIn
  <2>2. Cardinality(ClaimsIn(b)) \in Nat /\ Cardinality(Owned) \in Nat /\ Cardinality(ClaimsIn(b)) <= Cardinality(Owned)
    BY <1>1, <2>1, FS_Subset, FS_CardinalityType DEF BlocksInv
  <2>3. Cardinality(Seeking) \in Nat
    BY ThreadAssumption, FS_Subset, FS_CardinalityType DEF Seeking
  <2>4. Cardinality(ClaimsIn(b)) = state[b].count
    BY <1>1 DEF BlocksInv, Packed
  <2> QED BY <1>1, <2>2, <2>3, <2>4, HeapAssumption DEF BlocksInv, HeapTypes
<1>3. W!TypeOK
  <2>1. state \in [Buckets -> [count : 0 .. MaxAllocs, high : 0 .. BucketUnits]]
    BY <1>1, <1>2 DEF HeapTypes, Words16
  <2> QED BY <2>1, PilesSafe DEF W!TypeOK, HeapInv
<1>4. \A b \in Buckets : W!Claimed(b) = ClaimsIn(b)
  BY <1>1, OwnedAre
<1>5. W!BlocksDisjoint
  BY <1>1, <1>4 DEF BlocksInv, Packed, W!BlocksDisjoint, W!Cardinality, Cardinality
<1> QED BY <1>3, <1>5, PilesSafe DEF HeapInv

\* A call goes on to be d.
LEMMA CallGoesOn ==
  ASSUME CallsKnow, NEW t \in Threads, NEW d \in HeapCalls, Knows(d), call' = [call EXCEPT ![t] = d],
         state' \in [Buckets -> Words16], allocs' \in 0 .. MaxAllocs, blocks' \subseteq HeapBlocks
  PROVE  CallsKnow' /\ call'[t] = d /\ \A u \in Threads \ {t} : call'[u] = call[u]
<1>1. call'[t] = d /\ \A u \in Threads : u = t \/ call'[u] = call[u]
  BY DEF CallsKnow, HeapTypes
<1>2. HeapTypes'
  BY DEF CallsKnow, HeapTypes
<1>3. \A u \in Threads : Knows(call'[u])
  BY <1>1 DEF CallsKnow
<1>4. \A u \in Threads : Knows(call[u])'
  BY <1>3 DEF Knows
<1> QED BY <1>1, <1>2, <1>4 DEF CallsKnow

\* The blocks that are claimed stay what they are.
LEMMA BlocksPass ==
  ASSUME BlocksInv, Owned' = Owned, OwnBlocks', UNCHANGED state, Seeking' \subseteq Seeking, allocs' = allocs,
         allocs \in Nat
  PROVE  BlocksInv'
<1>1. \A b \in Buckets : Packed(b)'
  BY DEF BlocksInv, Packed, ClaimsIn
<1>2. IsFiniteSet(Seeking)
  BY ThreadAssumption, FS_Subset DEF Seeking
<1>3. Cardinality(Seeking') <= Cardinality(Seeking) /\ Cardinality(Seeking) \in Nat /\ Cardinality(Seeking') \in Nat
  BY <1>2, FS_Subset, FS_CardinalityType
<1>4. Cardinality(Owned) \in Nat
  BY FS_CardinalityType DEF BlocksInv
<1> QED BY <1>1, <1>3, <1>4 DEF BlocksInv

LEMMA BlocksStay ==
  ASSUME BlocksInv, CallsKnow, NEW t \in Threads, \A u \in Threads \ {t} : call'[u] = call[u],
         call'[t].mem = call[t].mem, Seeks(call'[t]) => Seeks(call[t]), UNCHANGED <<state, blocks, allocs>>
  PROVE  BlocksInv'
<1>1. \A u \in Threads : call'[u].mem = call[u].mem
  OBVIOUS
<1>2. Owned' = Owned /\ OwnBlocks'
  BY <1>1 DEF Owned, OwnBlocks, BlocksInv
<1>3. Seeking' \subseteq Seeking
  BY DEF Seeking, Seeks
<1> QED BY <1>2, <1>3, BlocksPass DEF CallsKnow, HeapTypes

\* A bucket's stack and hand are as they were.
LEMMA HandsStay ==
  ASSUME PilesInv, NEW t \in Threads, \A u \in Threads \ {t} : call'[u] = call[u],
         HandOf(call'[t]) = HandOf(call[t]), UNCHANGED <<active, reserve>>
  PROVE  PilesInv'
<1>1. \A u \in Threads : HandOf(call'[u]) = HandOf(call[u])
  OBVIOUS
<1> QED BY <1>1, PilesStay

LEMMA IdleCall ==
  /\ W!Idle \in HeapCalls /\ W!Idle.at = "idle" /\ W!Idle.mem = NONE /\ W!Idle.tried = <<>>
  /\ W!Idle.spare = FALSE /\ Knows(W!Idle) /\ HandOf(W!Idle) = <<>>
<1>1. <<>> \in Seq(Buckets) /\ [count |-> 0, high |-> 0] \in Words16
  BY HeapAssumption DEF Words16
<1>2. W!Idle \in HeapCalls
  BY <1>1 DEF HeapCalls, W!Idle, W!Empty
<1>3. W!Idle.at = "idle" /\ W!Idle.mem = NONE /\ W!Idle.tried = <<>> /\ W!Idle.spare = FALSE
  BY DEF W!Idle
<1> QED BY <1>2, <1>3, HandTried DEF Knows

\* Alloc is called: one call more, and one call more that has no block yet.
LEMMA HeapCallAlloc ==
  ASSUME HeapInv, NEW t \in Threads, NEW size \in Sizes, W!CallAlloc(t, size)
  PROVE  HeapInv'
<1>1. PICK c \in HeapCalls : c = call[t] /\ Knows(c)
  BY DEF HeapInv, CallsKnow, HeapTypes
<1>2. PICK d \in HeapCalls : d = [W!Idle EXCEPT !.at = "pop", !.size = size]
  <2>1. size \in Nat
    BY HeapAssumption
  <2> QED BY <2>1, IdleCall DEF HeapCalls
<1>3. d.at = "pop" /\ d.size # 0 /\ d.mem = NONE /\ d.tried = <<>> /\ d.spare = FALSE
  BY <1>2, IdleCall, HeapAssumption DEF HeapCalls
<1>4. c.at = "idle" /\ allocs < MaxAllocs /\ allocs' = allocs + 1 /\ UNCHANGED <<state, active, reserve, blocks>>
      /\ call' = [call EXCEPT ![t] = d]
  BY <1>1, <1>2 DEF W!CallAlloc
<1>5. CallsKnow' /\ call'[t] = d /\ \A u \in Threads \ {t} : call'[u] = call[u]
  <2>1. Knows(d)
    BY <1>3 DEF Knows
  <2>2. state' \in [Buckets -> Words16] /\ allocs' \in 0 .. MaxAllocs /\ blocks' \subseteq HeapBlocks
    BY <1>4, HeapAssumption DEF HeapInv, CallsKnow, HeapTypes
  <2>3. CallsKnow
    BY DEF HeapInv
  <2> QED BY <1>4, <2>1, <2>2, <2>3, CallGoesOn
<1>6. c.mem = NONE /\ c.tried = <<>>
  BY <1>1, <1>4 DEF Knows
<1>7. PilesInv'
  <2>1. HandOf(d) = <<>> /\ HandOf(c) = <<>>
    BY <1>3, <1>4, <1>6, HandTried
  <2> QED BY <1>1, <1>4, <1>5, <2>1, HandsStay DEF HeapInv
<1>8. \A u \in Threads : call'[u].mem = call[u].mem
  BY <1>1, <1>3, <1>5, <1>6
<1>9. Owned' = Owned /\ OwnBlocks'
  BY <1>4, <1>8 DEF Owned, OwnBlocks, HeapInv, BlocksInv
<1>10. \A b \in Buckets : Packed(b)'
  BY <1>4, <1>9 DEF HeapInv, BlocksInv, Packed, ClaimsIn
<1>11. Cardinality(Seeking') <= Cardinality(Seeking) + 1 /\ Cardinality(Seeking) \in Nat /\ Cardinality(Seeking') \in Nat
  <2>1. IsFiniteSet(Seeking)
    BY ThreadAssumption, FS_Subset DEF Seeking
  <2>2. t \notin Seeking /\ Seeking' = Seeking \cup {t}
    BY <1>1, <1>3, <1>4, <1>5 DEF Seeking, Seeks
  <2>3. IsFiniteSet(Seeking') /\ Cardinality(Seeking') = Cardinality(Seeking) + 1
    BY <2>1, <2>2, FS_AddElement
  <2>4. Cardinality(Seeking) \in Nat
    BY <2>1, FS_CardinalityType
  <2> QED BY <2>3, <2>4
<1>12. BlocksInv'
  <2>1. Cardinality(Owned) \in Nat
    BY FS_CardinalityType DEF HeapInv, BlocksInv
  <2> QED BY <1>4, <1>9, <1>10, <1>11, <2>1 DEF HeapInv, CallsKnow, HeapTypes, BlocksInv
<1> QED BY <1>5, <1>7, <1>12 DEF HeapInv

\* The step of a call that takes no bucket and claims no block, from c to d.
LEMMA HeapLooks ==
  ASSUME HeapInv, NEW t \in Threads, NEW d \in HeapCalls, Knows(d), call' = [call EXCEPT ![t] = d],
         d.mem = call[t].mem, Seeks(d) => Seeks(call[t]), HandOf(d) = HandOf(call[t]),
         UNCHANGED <<state, active, reserve, blocks, allocs>>
  PROVE  HeapInv'
<1>1. state' \in [Buckets -> Words16] /\ allocs' \in 0 .. MaxAllocs /\ blocks' \subseteq HeapBlocks /\ CallsKnow
  BY DEF HeapInv, CallsKnow, HeapTypes
<1>2. CallsKnow' /\ call'[t] = d /\ \A u \in Threads \ {t} : call'[u] = call[u]
  BY <1>1, CallGoesOn
<1>3. PilesInv'
  BY <1>2, HandsStay DEF HeapInv
<1>4. BlocksInv'
  BY <1>2, BlocksStay DEF HeapInv
<1> QED BY <1>2, <1>3, <1>4 DEF HeapInv

LEMMA HeapLook ==
  ASSUME HeapInv, NEW t \in Threads, W!Look(t)
  PROVE  HeapInv'
<1>1. PICK c \in HeapCalls : c = call[t] /\ Knows(c) /\ c.at = "look"
  BY DEF HeapInv, CallsKnow, HeapTypes, W!Look
<1>2. PICK place \in {"retire", "load"} : call' = [call EXCEPT ![t].at = place]
  BY DEF W!Look, W!Go
<1>3. PICK d \in HeapCalls : d = [c EXCEPT !.at = place]
  BY <1>1 DEF HeapCalls
<1>4. call' = [call EXCEPT ![t] = d] /\ UNCHANGED <<state, active, reserve, blocks, allocs>>
  BY <1>1, <1>2, <1>3 DEF W!Look
<1>5. d.at = place /\ d.size = c.size /\ d.bucket = c.bucket /\ d.tried = c.tried /\ d.mem = c.mem
      /\ (c.spare = FALSE => d.spare = FALSE) /\ d.seen = c.seen
  BY <1>1, <1>3 DEF HeapCalls
<1>6. Knows(d)
  BY <1>1, <1>5 DEF Knows
<1>7. HandOf(d) = HandOf(c)
  BY <1>1, <1>5, HandFull
<1> QED BY <1>1, <1>4, <1>5, <1>6, <1>7, HeapLooks DEF Seeks

LEMMA HeapLoadAlloc ==
  ASSUME HeapInv, NEW t \in Threads, W!LoadAlloc(t)
  PROVE  HeapInv'
<1>1. PICK c \in HeapCalls : c = call[t] /\ Knows(c) /\ c.at = "load"
  BY DEF HeapInv, CallsKnow, HeapTypes, W!LoadAlloc
<1>2. PICK s \in Words16 : s = state[c.bucket] /\ c.bucket \in Buckets
  BY <1>1 DEF Knows, HeapInv, CallsKnow, HeapTypes
<1>3. UNCHANGED <<state, active, reserve, blocks, allocs>>
  BY DEF W!LoadAlloc
<1>4. c.mem = NONE /\ c.size # 0 /\ HandOf(c) = <<c.bucket>> \o c.tried /\ Seeks(c)
  BY <1>1, HandFull DEF Knows, Seeks
<1>5. CASE c.size + s.high <= BucketUnits
  <2>1. PICK d \in HeapCalls : d = [c EXCEPT !.at = "claim", !.seen = s]
    BY <1>1, <1>2 DEF HeapCalls
  <2>2. call' = [call EXCEPT ![t] = d]
    BY <1>1, <1>2, <1>5, <2>1 DEF W!LoadAlloc
  <2>3. d.at = "claim" /\ d.size = c.size /\ d.bucket = c.bucket /\ d.tried = c.tried /\ d.mem = c.mem /\ d.seen = s
    BY <1>1, <2>1 DEF HeapCalls
  <2>4. Knows(d) /\ HandOf(d) = HandOf(c)
    BY <1>2, <1>4, <1>5, <2>3, HandFull DEF Knows
  <2> QED BY <1>1, <1>3, <1>4, <2>2, <2>3, <2>4, HeapLooks
<1>6. CASE ~(c.size + s.high <= BucketUnits) /\ c.spare = TRUE
  <2>1. PICK d \in HeapCalls : d = [c EXCEPT !.at = "giveback"]
    BY <1>1 DEF HeapCalls
  <2>2. call' = [call EXCEPT ![t] = d]
    BY <1>1, <1>2, <1>6, <2>1, Zenon DEF W!LoadAlloc
  <2>3. d.at = "giveback" /\ d.size = c.size /\ d.bucket = c.bucket /\ d.tried = c.tried /\ d.mem = c.mem
        /\ d.spare = TRUE
    BY <1>1, <1>6, <2>1 DEF HeapCalls
  <2>4. Knows(d) /\ HandOf(d) = HandOf(c)
    BY <1>2, <1>4, <2>3, HandFull DEF Knows
  <2> QED BY <1>1, <1>3, <1>4, <2>2, <2>3, <2>4, HeapLooks
<1>7. CASE ~(c.size + s.high <= BucketUnits) /\ c.spare = FALSE
  <2>1. <<c.bucket>> \o c.tried \in Seq(Buckets)
    BY <1>1, <1>2 DEF HeapCalls
  <2>2. PICK d \in HeapCalls : d = [c EXCEPT !.at = "pop", !.tried = <<c.bucket>> \o c.tried]
    BY <1>1, <2>1 DEF HeapCalls
  <2>3. call' = [call EXCEPT ![t] = d]
    BY <1>1, <1>2, <1>7, <2>2, Zenon DEF W!LoadAlloc
  <2>4. d.at = "pop" /\ d.size = c.size /\ d.tried = <<c.bucket>> \o c.tried /\ d.mem = c.mem
        /\ d.spare = FALSE
    BY <1>1, <1>7, <2>2 DEF HeapCalls
  <2>5. Knows(d) /\ HandOf(d) = HandOf(c)
    BY <1>4, <2>4, HandTried DEF Knows
  <2> QED BY <1>1, <1>3, <1>4, <2>3, <2>4, <2>5, HeapLooks DEF Seeks
<1>8. c.spare \in BOOLEAN
  BY <1>1 DEF HeapCalls
<1> QED BY <1>5, <1>6, <1>7, <1>8

\* The step of a call that claims no block, with what it does to the stacks.
LEMMA HeapMoves ==
  ASSUME HeapInv, NEW t \in Threads, NEW d \in HeapCalls, Knows(d), call' = [call EXCEPT ![t] = d],
         d.mem = call[t].mem, Seeks(d) => Seeks(call[t]), UNCHANGED <<state, blocks, allocs>>,
         Distinct(Buckets, active'), Distinct(Buckets, reserve'), Distinct(Buckets, HandOf(d)),
         Range(active') \cap Range(reserve') = {},
         Range(HandOf(d)) \cap (Range(active') \cup Range(reserve')) = {},
         Range(active') \cup Range(reserve') \cup Range(HandOf(d))
           = Range(active) \cup Range(reserve) \cup Range(HandOf(call[t]))
  PROVE  HeapInv'
<1>1. state' \in [Buckets -> Words16] /\ allocs' \in 0 .. MaxAllocs /\ blocks' \subseteq HeapBlocks /\ CallsKnow
  BY DEF HeapInv, CallsKnow, HeapTypes
<1>2. CallsKnow' /\ call'[t] = d /\ \A u \in Threads \ {t} : call'[u] = call[u]
  BY <1>1, CallGoesOn
<1>3. PilesInv /\ BlocksInv /\ CallsKnow
  BY DEF HeapInv
<1>4. PilesInv'
  BY <1>2, <1>3, PilesStep
<1>5. BlocksInv'
  BY <1>2, <1>3, BlocksStay
<1> QED BY <1>2, <1>4, <1>5 DEF HeapInv

\* A bucket on top of what the call has tried.
LEMMA HandTakes ==
  ASSUME NEW b \in Buckets, NEW q, Distinct(Buckets, q), b \notin Range(q)
  PROVE  Distinct(Buckets, <<b>> \o q) /\ Range(<<b>> \o q) = Range(q) \cup {b}
<1>1. PICK e : e = <<b>>
  OBVIOUS
<1>2. Distinct(Buckets, e) /\ Range(e) = {b}
  BY <1>1, PileOfOne
<1>3. Range(q) \cap Range(e) = {}
  BY <1>2
<1>4. Distinct(Buckets, e \o q) /\ Range(e \o q) = Range(e) \cup Range(q)
  BY <1>2, <1>3, PilesJoin
<1>5. Range(e) \cup Range(q) = Range(q) \cup {b}
  BY <1>2
<1> QED BY <1>1, <1>4, <1>5, Zenon

LEMMA HeapPopActive ==
  ASSUME HeapInv, NEW t \in Threads, W!PopActive(t)
  PROVE  HeapInv'
<1>1. PICK c \in HeapCalls : c = call[t] /\ Knows(c) /\ c.at = "pop"
  BY DEF HeapInv, CallsKnow, HeapTypes, W!PopActive
<1>2. c.mem = NONE /\ c.size # 0 /\ c.spare = FALSE /\ HandOf(c) = c.tried /\ Seeks(c)
  BY <1>1, HandTried DEF Knows, Seeks
<1>3. UNCHANGED <<state, reserve, blocks, allocs>>
  BY DEF W!PopActive
<1>4. CASE active = <<>>
  <2>1. PICK place \in {"spare", "giveback"} :
          call' = [call EXCEPT ![t].at = place] /\ (place = "spare" => c.tried = <<>>) /\ active' = active
    BY <1>1, <1>4 DEF W!PopActive, W!Go
  <2>2. PICK d \in HeapCalls : d = [c EXCEPT !.at = place]
    BY <1>1 DEF HeapCalls
  <2>3. call' = [call EXCEPT ![t] = d]
    BY <1>1, <2>1, <2>2
  <2>4. d.at = place /\ d.size = c.size /\ d.tried = c.tried /\ d.mem = NONE /\ d.spare = FALSE
    BY <1>1, <1>2, <2>2 DEF HeapCalls
  <2>5. Knows(d) /\ HandOf(d) = HandOf(c)
    BY <1>2, <2>1, <2>4, HandTried DEF Knows
  <2> QED BY <1>1, <1>2, <1>3, <2>1, <2>3, <2>4, <2>5, HeapLooks
<1>5. CASE active # <<>>
  <2>1. /\ Distinct(Buckets, active) /\ Distinct(Buckets, reserve) /\ Distinct(Buckets, c.tried)
        /\ Range(active) \cap Range(reserve) = {}
        /\ Range(c.tried) \cap (Range(active) \cup Range(reserve)) = {}
    BY <1>1, <1>2, PilesHave DEF HeapInv
  <2>2. PICK b \in Buckets : /\ b = Head(active) /\ Distinct(Buckets, Tail(active)) /\ b \notin Range(Tail(active))
                             /\ Range(active) = Range(Tail(active)) \cup {b}
    BY <1>5, <2>1, PileTop
  <2>3. PICK d \in HeapCalls : d = [c EXCEPT !.at = "look", !.bucket = b]
    BY <1>1 DEF HeapCalls
  <2>4. active' = Tail(active) /\ call' = [call EXCEPT ![t] = d]
    BY <1>1, <1>5, <2>2, <2>3 DEF W!PopActive
  <2>5. d.at = "look" /\ d.size = c.size /\ d.bucket = b /\ d.tried = c.tried /\ d.mem = c.mem /\ d.spare = FALSE
    BY <1>1, <1>2, <2>3 DEF HeapCalls
  <2>6. Knows(d) /\ HandOf(d) = <<b>> \o c.tried
    BY <1>2, <2>5, HandFull DEF Knows
  <2>7. Distinct(Buckets, HandOf(d)) /\ Range(HandOf(d)) = Range(c.tried) \cup {b}
    BY <2>1, <2>2, <2>6, HandTakes
  <2>8. /\ Range(active') \cap Range(reserve') = {}
        /\ Range(HandOf(d)) \cap (Range(active') \cup Range(reserve')) = {}
        /\ Range(active') \cup Range(reserve') \cup Range(HandOf(d))
             = Range(active) \cup Range(reserve) \cup Range(HandOf(c))
    BY <1>2, <1>3, <2>1, <2>2, <2>4, <2>7
  <2> QED BY <1>1, <1>2, <1>3, <2>1, <2>2, <2>4, <2>5, <2>6, <2>7, <2>8, HeapMoves
<1> QED BY <1>4, <1>5

LEMMA HeapRetire ==
  ASSUME HeapInv, NEW t \in Threads, W!Retire(t)
  PROVE  HeapInv'
<1>1. PICK c \in HeapCalls : c = call[t] /\ Knows(c) /\ c.at = "retire"
  BY DEF HeapInv, CallsKnow, HeapTypes, W!Retire
<1>2. PICK b \in Buckets : b = c.bucket
  BY <1>1 DEF Knows
<1>3. c.mem = NONE /\ c.size # 0 /\ c.spare = FALSE /\ HandOf(c) = <<b>> \o c.tried /\ Seeks(c)
  BY <1>1, <1>2, HandFull DEF Knows, Seeks
<1>4. UNCHANGED <<state, active, blocks, allocs>> /\ reserve' = <<b>> \o reserve
  BY <1>1, <1>2 DEF W!Retire
<1>5. PICK d \in HeapCalls : d = [c EXCEPT !.at = "pop"]
  BY <1>1 DEF HeapCalls
<1>6. call' = [call EXCEPT ![t] = d]
  BY <1>1, <1>5 DEF W!Retire, W!Go
<1>7. d.at = "pop" /\ d.size = c.size /\ d.tried = c.tried /\ d.mem = c.mem /\ d.spare = FALSE
  BY <1>1, <1>3, <1>5 DEF HeapCalls
<1>8. Knows(d) /\ HandOf(d) = c.tried
  BY <1>3, <1>7, HandTried DEF Knows
<1>9. /\ Distinct(Buckets, active) /\ Distinct(Buckets, reserve) /\ Distinct(Buckets, HandOf(c))
      /\ Range(active) \cap Range(reserve) = {}
      /\ Range(HandOf(c)) \cap (Range(active) \cup Range(reserve)) = {}
  BY <1>1, PilesHave DEF HeapInv
<1>10. Distinct(Buckets, c.tried) /\ b \notin Range(c.tried) /\ Range(HandOf(c)) = Range(c.tried) \cup {b}
  <2>1. c.tried \in Seq(Buckets)
    BY DEF HeapCalls
  <2> QED BY <1>3, <1>9, <2>1, PileSplits
<1>11. Distinct(Buckets, reserve') /\ Range(reserve') = Range(reserve) \cup {b}
  BY <1>4, <1>9, <1>10, HandTakes
<1>12. /\ Range(active') \cap Range(reserve') = {}
       /\ Range(HandOf(d)) \cap (Range(active') \cup Range(reserve')) = {}
       /\ Range(active') \cup Range(reserve') \cup Range(HandOf(d))
            = Range(active) \cup Range(reserve) \cup Range(HandOf(c))
  BY <1>4, <1>8, <1>9, <1>10, <1>11
<1> QED BY <1>1, <1>3, <1>4, <1>6, <1>7, <1>8, <1>9, <1>10, <1>11, <1>12, HeapMoves

LEMMA HeapPopReserve ==
  ASSUME HeapInv, NEW t \in Threads, W!PopReserve(t)
  PROVE  HeapInv'
<1>1. PICK c \in HeapCalls : c = call[t] /\ Knows(c) /\ c.at = "spare"
  BY DEF HeapInv, CallsKnow, HeapTypes, W!PopReserve
<1>2. c.mem = NONE /\ c.size # 0 /\ c.tried = <<>> /\ HandOf(c) = c.tried /\ Seeks(c)
  BY <1>1, HandTried DEF Knows, Seeks
<1>3. UNCHANGED <<state, active, blocks, allocs>>
  BY DEF W!PopReserve
<1>4. CASE reserve = <<>>
  <2>1. call' = [call EXCEPT ![t] = W!Idle] /\ reserve' = reserve
    BY <1>4 DEF W!PopReserve
  <2> QED BY <1>1, <1>2, <1>3, <2>1, IdleCall, HeapLooks
<1>5. CASE reserve # <<>>
  <2>1. /\ Distinct(Buckets, active) /\ Distinct(Buckets, reserve) /\ Distinct(Buckets, c.tried)
        /\ Range(active) \cap Range(reserve) = {}
        /\ Range(c.tried) \cap (Range(active) \cup Range(reserve)) = {}
    BY <1>1, <1>2, PilesHave DEF HeapInv
  <2>2. PICK b \in Buckets : /\ b = Head(reserve) /\ Distinct(Buckets, Tail(reserve)) /\ b \notin Range(Tail(reserve))
                             /\ Range(reserve) = Range(Tail(reserve)) \cup {b}
    BY <1>5, <2>1, PileTop
  <2>3. PICK d \in HeapCalls : d = [c EXCEPT !.at = "load", !.spare = TRUE, !.bucket = b]
    BY <1>1 DEF HeapCalls
  <2>4. reserve' = Tail(reserve) /\ call' = [call EXCEPT ![t] = d]
    BY <1>1, <1>5, <2>2, <2>3 DEF W!PopReserve
  <2>5. d.at = "load" /\ d.size = c.size /\ d.bucket = b /\ d.tried = c.tried /\ d.mem = c.mem
    BY <1>1, <1>2, <2>3 DEF HeapCalls
  <2>6. Knows(d) /\ HandOf(d) = <<b>> \o c.tried
    BY <1>2, <2>5, HandFull DEF Knows
  <2>7. Distinct(Buckets, HandOf(d)) /\ Range(HandOf(d)) = Range(c.tried) \cup {b}
    BY <2>1, <2>2, <2>6, HandTakes
  <2>8. /\ Range(active') \cap Range(reserve') = {}
        /\ Range(HandOf(d)) \cap (Range(active') \cup Range(reserve')) = {}
        /\ Range(active') \cup Range(reserve') \cup Range(HandOf(d))
             = Range(active) \cup Range(reserve) \cup Range(HandOf(c))
    BY <1>2, <1>3, <2>1, <2>2, <2>4, <2>7
  <2> QED BY <1>1, <1>2, <1>3, <2>1, <2>2, <2>4, <2>5, <2>6, <2>7, <2>8, HeapMoves
<1> QED BY <1>4, <1>5

LEMMA HeapLoadFree ==
  ASSUME HeapInv, NEW t \in Threads, W!LoadFree(t)
  PROVE  HeapInv'
<1>1. PICK c \in HeapCalls : c = call[t] /\ Knows(c) /\ c.at = "loadfree"
  BY DEF HeapInv, CallsKnow, HeapTypes, W!LoadFree
<1>2. PICK s \in Words16 : s = state[c.bucket] /\ c.bucket \in Buckets
  BY <1>1 DEF Knows, HeapInv, CallsKnow, HeapTypes
<1>3. PICK d \in HeapCalls : d = [c EXCEPT !.at = "free", !.seen = s]
  BY <1>1 DEF HeapCalls
<1>4. call' = [call EXCEPT ![t] = d] /\ UNCHANGED <<state, active, reserve, blocks, allocs>>
  BY <1>1, <1>2, <1>3 DEF W!LoadFree
<1>5. d.at = "free" /\ d.bucket = c.bucket /\ d.tried = c.tried /\ d.mem = c.mem
  BY <1>1, <1>3 DEF HeapCalls
<1>6. Knows(d) /\ HandOf(d) = HandOf(c)
  BY <1>1, <1>5, HandTried DEF Knows
<1> QED BY <1>1, <1>4, <1>5, <1>6, HeapLooks DEF Seeks

\* The buckets in hand go back, and with them the block to the program.
LEMMA HeapGiveBack ==
  ASSUME HeapInv, NEW t \in Threads, W!GiveBack(t)
  PROVE  HeapInv'
<1>1. PICK c \in HeapCalls : c = call[t] /\ Knows(c) /\ c.at = "giveback"
  BY DEF HeapInv, CallsKnow, HeapTypes, W!GiveBack
<1>2. UNCHANGED <<state, reserve, allocs>> /\ active' = HandOf(c) \o active
  BY <1>1, Zenon DEF W!GiveBack, HandOf
<1>3. blocks' = IF c.mem = NONE THEN blocks ELSE blocks \cup {c.mem}
  BY <1>1, Zenon DEF W!GiveBack
<1>4. c.spare \in BOOLEAN /\ c.mem \in HeapBlocks \cup {NONE}
  BY <1>1 DEF HeapCalls
<1>5. PICK d \in HeapCalls : /\ call' = [call EXCEPT ![t] = d] /\ Knows(d) /\ HandOf(d) = <<>> /\ d.mem = NONE
                             /\ Seeks(d) => Seeks(c)
  <2>1. CASE c.mem # NONE \/ c.spare = TRUE
    <3>1. call' = [call EXCEPT ![t] = W!Idle]
      BY <1>1, <2>1, Zenon DEF W!GiveBack
    <3>2. ~Seeks(W!Idle)
      BY IdleCall DEF Seeks
    <3> QED BY <3>1, <3>2, IdleCall
  <2>2. CASE c.mem = NONE /\ c.spare = FALSE
    <3>1. <<>> \in Seq(Buckets)
      OBVIOUS
    <3>2. PICK d \in HeapCalls : d = [c EXCEPT !.at = "spare", !.tried = <<>>]
      BY <1>1, <3>1 DEF HeapCalls
    <3>3. call' = [call EXCEPT ![t] = d]
      BY <1>1, <2>2, <3>2, Zenon DEF W!GiveBack
    <3>4. d.at = "spare" /\ d.size = c.size /\ d.tried = <<>> /\ d.mem = NONE /\ d.spare = FALSE
      BY <1>1, <2>2, <3>2 DEF HeapCalls
    <3>5. Knows(d) /\ HandOf(d) = <<>> /\ Seeks(c)
      BY <1>1, <2>2, <3>4, HandTried DEF Knows, Seeks
    <3> QED BY <3>3, <3>4, <3>5
  <2> QED BY <1>4, <2>1, <2>2
<1>6. CallsKnow' /\ call'[t] = d /\ \A u \in Threads \ {t} : call'[u] = call[u]
  <2>1. state' \in [Buckets -> Words16] /\ allocs' \in 0 .. MaxAllocs /\ blocks' \subseteq HeapBlocks /\ CallsKnow
    BY <1>2, <1>3, <1>4 DEF HeapInv, CallsKnow, HeapTypes
  <2> QED BY <1>5, <2>1, CallGoesOn
<1>7. PilesInv'
  <2>1. /\ Distinct(Buckets, active) /\ Distinct(Buckets, reserve) /\ Distinct(Buckets, HandOf(c))
        /\ Range(active) \cap Range(reserve) = {}
        /\ Range(HandOf(c)) \cap (Range(active) \cup Range(reserve)) = {}
    BY <1>1, PilesHave DEF HeapInv
  <2>2. Distinct(Buckets, active') /\ Range(active') = Range(HandOf(c)) \cup Range(active)
    <3>1. Range(active) \cap Range(HandOf(c)) = {}
      BY <2>1
    <3> QED BY <1>2, <2>1, <3>1, PilesJoin
  <2>3. Distinct(Buckets, HandOf(d)) /\ Range(HandOf(d)) = {}
    BY <1>5, PathEmpty
  <2>4. /\ Range(active') \cap Range(reserve') = {}
        /\ Range(HandOf(d)) \cap (Range(active') \cup Range(reserve')) = {}
        /\ Range(active') \cup Range(reserve') \cup Range(HandOf(d))
             = Range(active) \cup Range(reserve) \cup Range(HandOf(c))
    BY <1>2, <2>1, <2>2, <2>3
  <2> QED BY <1>1, <1>2, <1>6, <2>1, <2>2, <2>3, <2>4, PilesStep DEF HeapInv
<1>8. \A u \in Threads : u = t \/ call'[u].mem = call[u].mem
  BY <1>6
<1>9. c.mem # NONE => c.mem \notin blocks /\ \A u \in Threads \ {t} : call[u].mem # c.mem
  BY <1>1 DEF HeapInv, BlocksInv, OwnBlocks
<1>10. Owned' = Owned
  BY <1>1, <1>3, <1>5, <1>6, <1>8 DEF Owned
<1>11. OwnBlocks'
  BY <1>1, <1>3, <1>5, <1>6, <1>8, <1>9 DEF OwnBlocks, HeapInv, BlocksInv
<1>12. Seeking' \subseteq Seeking
  BY <1>1, <1>5, <1>6 DEF Seeking, Seeks
<1>13. BlocksInv'
  BY <1>2, <1>10, <1>11, <1>12, BlocksPass DEF HeapInv, CallsKnow, HeapTypes
<1> QED BY <1>6, <1>7, <1>13 DEF HeapInv

\* Free is called with a block of the program.
LEMMA HeapCallFree ==
  ASSUME HeapInv, NEW t \in Threads, NEW m \in blocks, W!CallFree(t, m)
  PROVE  HeapInv'
<1>1. PICK c \in HeapCalls : c = call[t] /\ Knows(c) /\ c.at = "idle"
  BY DEF HeapInv, CallsKnow, HeapTypes, W!CallFree
<1>2. m \in HeapBlocks /\ m # NONE /\ m.bucket \in Buckets
  BY NoneIsNone DEF HeapInv, CallsKnow, HeapTypes, HeapBlocks
<1>3. PICK d \in HeapCalls : d = [W!Idle EXCEPT !.at = "loadfree", !.bucket = m.bucket, !.mem = m]
  BY <1>2, IdleCall DEF HeapCalls
<1>4. d.at = "loadfree" /\ d.bucket = m.bucket /\ d.mem = m /\ d.tried = <<>>
  BY <1>3, IdleCall DEF HeapCalls
<1>5. blocks' = blocks \ {m} /\ call' = [call EXCEPT ![t] = d] /\ UNCHANGED <<state, active, reserve, allocs>>
  BY <1>3 DEF W!CallFree
<1>6. Knows(d) /\ HandOf(d) = <<>> /\ ~Seeks(d) /\ c.mem = NONE /\ HandOf(c) = <<>>
  BY <1>1, <1>2, <1>4, HandTried DEF Knows, Seeks
<1>7. CallsKnow' /\ call'[t] = d /\ \A u \in Threads \ {t} : call'[u] = call[u]
  <2>1. state' \in [Buckets -> Words16] /\ allocs' \in 0 .. MaxAllocs /\ blocks' \subseteq HeapBlocks /\ CallsKnow
    BY <1>5 DEF HeapInv, CallsKnow, HeapTypes
  <2> QED BY <1>5, <1>6, <2>1, CallGoesOn
<1>8. PilesInv'
  BY <1>1, <1>5, <1>6, <1>7, HandsStay DEF HeapInv
<1>9. \A u \in Threads : call[u].mem # m
  BY <1>2 DEF HeapInv, BlocksInv, OwnBlocks
<1>10. \A u \in Threads : u = t \/ call'[u].mem = call[u].mem
  BY <1>7
<1>11. Owned' = Owned
  BY <1>1, <1>2, <1>4, <1>5, <1>6, <1>7, <1>10 DEF Owned
<1>12. OwnBlocks'
  BY <1>4, <1>5, <1>7, <1>9, <1>10 DEF OwnBlocks, HeapInv, BlocksInv
<1>13. Seeking' \subseteq Seeking
  BY <1>6, <1>7 DEF Seeking, Seeks
<1>14. BlocksInv'
  BY <1>5, <1>11, <1>12, <1>13, BlocksPass DEF HeapInv, CallsKnow, HeapTypes
<1> QED BY <1>7, <1>8, <1>14 DEF HeapInv

\* The blocks of a bucket when one is added on top, or taken out.
LEMMA BlockAdded ==
  ASSUME BlocksInv, HeapTypes, NEW m \in HeapBlocks, m \notin Owned, Owned' = Owned \cup {m},
         m.from = state[m.bucket].high,
         state' = [state EXCEPT ![m.bucket] = [count |-> state[m.bucket].count + 1, high |-> state[m.bucket].high + m.size]]
  PROVE  \A b \in Buckets : Packed(b)'
<1>1. m.bucket \in Buckets /\ m.from \in Nat /\ m.size \in Nat \ {0} /\ \A n \in Owned : n \in HeapBlocks
  BY OwnedAre DEF HeapBlocks
<1>2. ASSUME NEW b \in Buckets, b # m.bucket PROVE Packed(b)'
  <2>1. ClaimsIn(b)' = ClaimsIn(b) /\ state'[b] = state[b]
    BY <1>2 DEF ClaimsIn, HeapTypes
  <2> QED BY <2>1 DEF BlocksInv, Packed
<1>3. Packed(m.bucket)'
  <2> DEFINE b == m.bucket
  <2>1. PICK k \in Nat, h \in Nat : k = state[b].count /\ h = state[b].high
    BY <1>1 DEF HeapTypes, Words16
  <2>2. state'[b].count = k + 1 /\ state'[b].high = h + m.size
    BY <1>1, <2>1 DEF HeapTypes
  <2>3. ClaimsIn(b)' = ClaimsIn(b) \cup {m} /\ m \notin ClaimsIn(b)
    BY <1>1 DEF ClaimsIn
  <2>4. IsFiniteSet(ClaimsIn(b)) /\ Cardinality(ClaimsIn(b)) = k
    <3>1. ClaimsIn(b) \subseteq Owned
      BY DEF ClaimsIn
    <3> QED BY <1>1, <2>1, <3>1, FS_Subset DEF BlocksInv, Packed
  <2>5. Cardinality(ClaimsIn(b)') = k + 1
    BY <2>3, <2>4, FS_AddElement
  <2>6. \A n \in ClaimsIn(b) : n.from \in Nat /\ n.size \in Nat /\ n.from + n.size <= h
    BY <1>1, <2>1 DEF BlocksInv, Packed, ClaimsIn, HeapBlocks
  <2>7. \A n \in ClaimsIn(b)' : n.from + n.size <= h + m.size
    BY <1>1, <2>1, <2>3, <2>6
  <2>8. \A n, l \in ClaimsIn(b) : n # l => n.from + n.size <= l.from \/ l.from + l.size <= n.from
    BY <1>1 DEF BlocksInv, Packed
  <2>9. \A n, l \in ClaimsIn(b)' : n # l => n.from + n.size <= l.from \/ l.from + l.size <= n.from
    BY <2>1, <2>3, <2>6, <2>8
  <2> QED BY <2>2, <2>5, <2>7, <2>9 DEF Packed
<1> QED BY <1>2, <1>3

LEMMA BlockGone ==
  ASSUME BlocksInv, HeapTypes, NEW m \in Owned, Owned' = Owned \ {m},
         state' = [state EXCEPT ![m.bucket] =
           IF state[m.bucket].count = 1 THEN W!Empty ELSE [state[m.bucket] EXCEPT !.count = state[m.bucket].count - 1]]
  PROVE  state' \in [Buckets -> Words16] /\ \A b \in Buckets : Packed(b)'
<1>1. m.bucket \in Buckets /\ m \in ClaimsIn(m.bucket)
  BY OwnedAre DEF HeapBlocks, ClaimsIn
<1>2. ASSUME NEW b \in Buckets, b # m.bucket PROVE Packed(b)'
  <2>1. ClaimsIn(b)' = ClaimsIn(b) /\ state'[b] = state[b]
    BY <1>2 DEF ClaimsIn, HeapTypes
  <2> QED BY <2>1 DEF BlocksInv, Packed
<1> DEFINE b == m.bucket
<1>3. ClaimsIn(b)' = ClaimsIn(b) \ {m}
  BY DEF ClaimsIn
<1>4. PICK s \in Words16 : s = state[b] /\ s.count \in Nat /\ s.high \in 0 .. BucketUnits
  BY <1>1 DEF HeapTypes, Words16
<1>5. IsFiniteSet(ClaimsIn(b)) /\ Cardinality(ClaimsIn(b)) = s.count
  <2>1. ClaimsIn(b) \subseteq Owned
    BY DEF ClaimsIn
  <2> QED BY <1>1, <1>4, <2>1, FS_Subset DEF BlocksInv, Packed
<1>6. IsFiniteSet(ClaimsIn(b)') /\ Cardinality(ClaimsIn(b)') = s.count - 1 /\ Cardinality(ClaimsIn(b)') \in Nat
  BY <1>1, <1>3, <1>5, FS_RemoveElement, FS_CardinalityType
<1>7. CASE s.count = 1
  <2>1. ClaimsIn(b)' = {}
    BY <1>6, <1>7, FS_EmptySet
  <2>2. state' = [state EXCEPT ![b] = W!Empty] /\ W!Empty \in Words16 /\ W!Empty.count = 0
    BY <1>4, <1>7, HeapAssumption DEF W!Empty, Words16
  <2>3. state' \in [Buckets -> Words16] /\ state'[b] = W!Empty
    BY <1>1, <2>2 DEF HeapTypes
  <2>4. Cardinality(ClaimsIn(b)') = state'[b].count
    <3>1. Cardinality(ClaimsIn(b)') = 0
      BY <1>6, <1>7
    <3>2. state'[b].count = 0
      BY <2>2, <2>3
    <3> QED BY <3>1, <3>2
  <2>5. Packed(b)'
    BY <2>1, <2>4, Zenon DEF Packed
  <2> QED BY <1>2, <2>3, <2>5
<1>8. CASE s.count # 1
  <2>1. PICK z \in Words16 : z = [s EXCEPT !.count = s.count - 1] /\ z.count = s.count - 1 /\ z.high = s.high
    BY <1>4, <1>6, <1>8 DEF Words16
  <2>2. state' = [state EXCEPT ![b] = z]
    BY <1>4, <1>8, <2>1
  <2>3. state' \in [Buckets -> Words16] /\ state'[b] = z
    BY <1>1, <2>1, <2>2 DEF HeapTypes
  <2>4. ClaimsIn(b)' \subseteq ClaimsIn(b) /\ Packed(b)
    BY <1>1, <1>3 DEF BlocksInv
  <2>5. Packed(b)'
    BY <1>4, <1>6, <2>1, <2>3, <2>4 DEF Packed
  <2> QED BY <1>2, <2>3, <2>5
<1> QED BY <1>7, <1>8

\* The compare and swap that claims a block.
LEMMA HeapClaim ==
  ASSUME HeapInv, NEW t \in Threads, W!Claim(t)
  PROVE  HeapInv'
<1>1. PICK c \in HeapCalls : c = call[t] /\ Knows(c) /\ c.at = "claim"
  BY DEF HeapInv, CallsKnow, HeapTypes, W!Claim
<1>2. PICK b \in Buckets : b = c.bucket
  BY <1>1 DEF Knows
<1>3. c.mem = NONE /\ c.size \in Nat \ {0} /\ c.seen \in Words16 /\ c.size + c.seen.high <= BucketUnits
      /\ HandOf(c) = <<b>> \o c.tried /\ Seeks(c)
  BY <1>1, <1>2, HandFull DEF Knows, Seeks, HeapCalls
<1>4. UNCHANGED <<active, reserve, blocks, allocs>>
  BY DEF W!Claim
<1>5. CASE state[b] # c.seen
  <2>1. PICK d \in HeapCalls : d = [c EXCEPT !.at = "load"]
    BY <1>1 DEF HeapCalls
  <2>2. call' = [call EXCEPT ![t] = d] /\ state' = state
    BY <1>1, <1>2, <1>5, <2>1 DEF W!Claim, W!Go
  <2>3. d.at = "load" /\ d.size = c.size /\ d.bucket = c.bucket /\ d.tried = c.tried /\ d.mem = c.mem
    BY <1>1, <2>1 DEF HeapCalls
  <2>4. Knows(d) /\ HandOf(d) = HandOf(c)
    BY <1>2, <1>3, <2>3, HandFull DEF Knows
  <2> QED BY <1>1, <1>3, <1>4, <2>2, <2>3, <2>4, HeapLooks
<1>6. CASE state[b] = c.seen
  <2>1. PICK k \in Nat, h \in Nat : k = c.seen.count /\ h = c.seen.high /\ h + c.size <= BucketUnits
    BY <1>3 DEF Words16
  <2>2. PICK m \in HeapBlocks : m = [bucket |-> b, from |-> h, size |-> c.size]
    BY <1>3, <2>1 DEF HeapBlocks
  <2>3. m.bucket = b /\ m.from = h /\ m.size = c.size
    BY <2>2
  <2>4. PICK d \in HeapCalls : d = [c EXCEPT !.at = "giveback", !.mem = m]
    BY <1>1, <2>2 DEF HeapCalls
  <2>5. d.at = "giveback" /\ d.mem = m /\ d.bucket = b /\ d.tried = c.tried /\ m # NONE
    BY <1>1, <1>2, <2>4, NoneIsNone DEF HeapCalls
  <2>6. call' = [call EXCEPT ![t] = d]
        /\ state' = [state EXCEPT ![b] = [count |-> k + 1, high |-> h + c.size]]
    BY <1>1, <1>2, <1>6, <2>1, <2>2, <2>4 DEF W!Claim
  <2>7. Knows(d) /\ HandOf(d) = HandOf(c) /\ ~Seeks(d)
    BY <1>3, <2>5, HandFull DEF Knows, Seeks
  <2>8. [count |-> k + 1, high |-> h + c.size] \in Words16
    BY <1>3, <2>1, HeapAssumption DEF Words16
  <2>9. CallsKnow' /\ call'[t] = d /\ \A u \in Threads \ {t} : call'[u] = call[u]
    <3>1. state' \in [Buckets -> Words16] /\ allocs' \in 0 .. MaxAllocs /\ blocks' \subseteq HeapBlocks /\ CallsKnow
      BY <1>4, <2>6, <2>8 DEF HeapInv, CallsKnow, HeapTypes
    <3> QED BY <2>6, <2>7, <3>1, CallGoesOn
  <2>10. PilesInv'
    BY <1>1, <1>4, <2>7, <2>9, HandsStay DEF HeapInv
  <2>11. HeapTypes /\ BlocksInv
    BY DEF HeapInv, CallsKnow
  <2>12. m \notin Owned
    <3> SUFFICES ASSUME m \in Owned PROVE FALSE
      OBVIOUS
    <3>1. m \in ClaimsIn(b) /\ Packed(b)
      BY <2>3, <2>11 DEF ClaimsIn, BlocksInv
    <3>2. m.from + m.size <= h
      BY <1>6, <2>1, <3>1 DEF Packed
    <3> QED BY <1>3, <2>1, <2>3, <3>2
  <2>13. \A u \in Threads : u = t \/ call'[u].mem = call[u].mem
    BY <2>9
  <2>14. Owned' = Owned \cup {m}
    <3>1. \A q : q \in Owned <=> q \in blocks \/ \E u \in Threads : q = call[u].mem /\ q # NONE
      BY DEF Owned
    <3>2. \A q : q \in Owned' <=> q \in blocks \/ \E u \in Threads : q = call'[u].mem /\ q # NONE
      BY <1>4 DEF Owned
    <3>3. call[t].mem = NONE /\ call'[t].mem = m /\ m # NONE
      BY <1>1, <1>3, <2>5, <2>9
    <3>4. \A q : q \in Owned' <=> q \in Owned \/ q = m
      BY <2>13, <3>1, <3>2, <3>3
    <3> QED BY <3>4, Zenon
  <2>15. m \notin blocks /\ \A u \in Threads : call[u].mem # m
    BY <2>5, <2>12 DEF Owned
  <2>16. OwnBlocks'
    BY <1>4, <2>5, <2>9, <2>11, <2>13, <2>15 DEF OwnBlocks, BlocksInv
  <2>17. \A p \in Buckets : Packed(p)'
    BY <1>6, <2>1, <2>3, <2>6, <2>11, <2>12, <2>14, BlockAdded
  <2>18. IsFiniteSet(Owned') /\ Cardinality(Owned') = Cardinality(Owned) + 1 /\ Cardinality(Owned) \in Nat
    BY <2>11, <2>12, <2>14, FS_AddElement, FS_CardinalityType DEF BlocksInv
  <2>19. t \in Seeking /\ Seeking' = Seeking \ {t}
    BY <1>1, <1>3, <2>7, <2>9 DEF Seeking, Seeks
  <2>20. IsFiniteSet(Seeking) /\ Cardinality(Seeking) \in Nat /\ Cardinality(Seeking') = Cardinality(Seeking) - 1
    <3>1. IsFiniteSet(Seeking)
      BY ThreadAssumption, FS_Subset DEF Seeking
    <3> QED BY <2>19, <3>1, FS_RemoveElement, FS_CardinalityType
  <2>21. BlocksInv'
    <3>1. Cardinality(Seeking') + Cardinality(Owned') <= allocs'
      BY <1>4, <2>11, <2>18, <2>20 DEF BlocksInv, HeapTypes
    <3> QED BY <2>16, <2>17, <2>18, <3>1 DEF BlocksInv
  <2> QED BY <2>9, <2>10, <2>21 DEF HeapInv
<1> QED BY <1>5, <1>6

\* The compare and swap that gives a block up.
LEMMA HeapFree ==
  ASSUME HeapInv, NEW t \in Threads, W!Free(t)
  PROVE  HeapInv'
<1>1. PICK c \in HeapCalls : c = call[t] /\ Knows(c) /\ c.at = "free"
  BY DEF HeapInv, CallsKnow, HeapTypes, W!Free
<1>2. PICK m \in HeapBlocks : m = c.mem /\ m # NONE /\ c.bucket = m.bucket /\ m.bucket \in Buckets
  BY <1>1 DEF Knows, HeapCalls
<1>3. UNCHANGED <<active, reserve, blocks, allocs>>
  BY DEF W!Free
<1>4. HandOf(c) = <<>>
  BY <1>1, HandTried DEF Knows
<1>5. CASE state[m.bucket] # c.seen
  <2>1. PICK d \in HeapCalls : d = [c EXCEPT !.at = "loadfree"]
    BY <1>1 DEF HeapCalls
  <2>2. call' = [call EXCEPT ![t] = d] /\ state' = state
    BY <1>1, <1>2, <1>5, <2>1 DEF W!Free, W!Go
  <2>3. d.at = "loadfree" /\ d.bucket = c.bucket /\ d.tried = c.tried /\ d.mem = c.mem
    BY <1>1, <2>1 DEF HeapCalls
  <2>4. Knows(d) /\ HandOf(d) = HandOf(c) /\ ~Seeks(d)
    BY <1>1, <2>3, HandTried DEF Knows, Seeks
  <2> QED BY <1>1, <1>3, <2>2, <2>3, <2>4, HeapLooks
<1>6. CASE state[m.bucket] = c.seen
  <2>1. call' = [call EXCEPT ![t] = W!Idle]
        /\ state' = [state EXCEPT ![m.bucket] =
             IF state[m.bucket].count = 1 THEN W!Empty ELSE [state[m.bucket] EXCEPT !.count = state[m.bucket].count - 1]]
    <3>1. state[call[t].bucket] = call[t].seen /\ call[t].bucket = m.bucket
      BY <1>1, <1>2, <1>6
    <3>2. call' = [call EXCEPT ![t] = W!Idle]
          /\ state' = [state EXCEPT ![call[t].bucket] =
               IF call[t].seen.count = 1 THEN W!Empty
               ELSE [call[t].seen EXCEPT !.count = call[t].seen.count - 1]]
      BY <3>1, Zenon DEF W!Free
    <3> QED BY <3>1, <3>2
  <2>2. HeapTypes /\ BlocksInv /\ CallsKnow
    BY DEF HeapInv, CallsKnow
  <2>3. call'[t] = W!Idle /\ \A u \in Threads : u = t \/ call'[u] = call[u]
    BY <2>1, <2>2 DEF HeapTypes
  <2>4. m \in Owned /\ m \notin blocks /\ \A u \in Threads \ {t} : call[u].mem # m
    BY <1>1, <1>2, <2>2 DEF Owned, BlocksInv, OwnBlocks
  <2>5. Owned' = Owned \ {m}
    BY <1>1, <1>2, <1>3, <2>3, <2>4, IdleCall DEF Owned
  <2>6. OwnBlocks'
    BY <1>3, <2>2, <2>3, IdleCall DEF OwnBlocks, BlocksInv
  <2>7. state' \in [Buckets -> Words16] /\ \A p \in Buckets : Packed(p)'
    BY <2>1, <2>2, <2>4, <2>5, BlockGone
  <2>8. CallsKnow' /\ \A u \in Threads \ {t} : call'[u] = call[u]
    <3>1. allocs' \in 0 .. MaxAllocs /\ blocks' \subseteq HeapBlocks
      BY <1>3, <2>2 DEF HeapTypes
    <3> QED BY <2>1, <2>2, <2>7, <3>1, IdleCall, CallGoesOn
  <2>9. PilesInv'
    BY <1>1, <1>3, <1>4, <2>3, <2>8, IdleCall, HandsStay DEF HeapInv
  <2>10. IsFiniteSet(Owned') /\ Cardinality(Owned') <= Cardinality(Owned) /\ Cardinality(Owned') \in Nat
         /\ Cardinality(Owned) \in Nat
    BY <2>2, <2>5, FS_Subset, FS_CardinalityType DEF BlocksInv
  <2>11. Seeking' = Seeking
    BY <1>1, <2>3, IdleCall DEF Seeking, Seeks
  <2>12. Cardinality(Seeking) \in Nat
    BY ThreadAssumption, FS_Subset, FS_CardinalityType DEF Seeking
  <2>13. BlocksInv'
    <3>1. Cardinality(Seeking') + Cardinality(Owned') <= allocs'
      BY <1>3, <2>2, <2>10, <2>11, <2>12 DEF BlocksInv, HeapTypes
    <3> QED BY <2>6, <2>7, <2>10, <3>1 DEF BlocksInv
  <2> QED BY <2>8, <2>9, <2>13 DEF HeapInv
<1> QED BY <1>5, <1>6

\* The sequence SetToSeq(Buckets) has every bucket once.
LEMMA SpareBuckets ==
  LET q == W!SetToSeq(Buckets)
  IN  Distinct(Buckets, q) /\ Range(q) = Buckets
<1> DEFINE N == Cardinality(Buckets)
           q == W!SetToSeq(Buckets)
<1>1. N \in Nat /\ N = W!Cardinality(Buckets)
  BY HeapAssumption, FS_CardinalityType DEF Cardinality, W!Cardinality
<1>2. PICK f \in Bijection(1 .. N, Buckets) : TRUE
  BY HeapAssumption, FS_CardinalityType DEF ExistsBijection
<1>3. f \in [1 .. N -> Buckets] /\ W!IsInjective(f)
  BY <1>2 DEF Bijection, Injection, IsInjective, W!IsInjective
<1>4. q = CHOOSE g \in [1 .. N -> Buckets] : W!IsInjective(g)
  BY <1>1 DEF W!SetToSeq
<1> HIDE DEF q
<1>5. q \in [1 .. N -> Buckets] /\ W!IsInjective(q)
  BY <1>3, <1>4
<1>6. q \in Injection(1 .. N, Buckets)
  BY <1>5 DEF Injection, IsInjective, W!IsInjective
<1> HIDE DEF N
<1>7. q \in Seq(Buckets) /\ Len(q) = N
  BY <1>1, <1>5
<1>8. Distinct(Buckets, q)
  BY <1>5, <1>7 DEF W!IsInjective, Distinct
<1>9. Cardinality(1 .. N) = N
  BY <1>1, OneTo
<1>10. q \in Surjection(1 .. N, Buckets)
  BY <1>6, <1>9, HeapAssumption, FS_Injection DEF N
<1>11. Range(q) = Buckets
  BY <1>5, <1>10 DEF Surjection, Range
<1> QED BY <1>8, <1>11 DEF q

LEMMA HeapInit == W!Init => HeapInv
<1> SUFFICES ASSUME W!Init PROVE HeapInv
  OBVIOUS
<1>1. \A t \in Threads : call[t] = W!Idle
  BY DEF W!Init
<1>2. CallsKnow
  <2>1. [count |-> 0, high |-> 0] \in Words16
    BY HeapAssumption DEF Words16
  <2>2. HeapTypes
    BY <2>1, IdleCall, HeapAssumption DEF W!Init, W!Empty, HeapTypes
  <2> QED BY <1>1, <2>2, IdleCall DEF CallsKnow
<1>3. PilesInv
  <2> DEFINE h == [t \in Threads |-> HandOf(call[t])]
  <2>1. Distinct(Buckets, reserve) /\ Range(reserve) = Buckets
    BY SpareBuckets DEF W!Init
  <2>2. active = <<>> /\ \A t \in Threads : h[t] = <<>>
    BY <1>1, IdleCall DEF W!Init
  <2>3. Distinct(Buckets, <<>>) /\ Range(<<>>) = {}
    BY PathEmpty
  <2> HIDE DEF h
  <2>4. PilesApart(active, reserve, h)
    BY <2>1, <2>2, <2>3 DEF PilesApart
  <2> QED BY <2>4 DEF PilesInv, h
<1>4. Owned = {}
  BY <1>1, IdleCall DEF W!Init, Owned
<1>5. Seeking = {}
  BY <1>1, IdleCall DEF Seeking, Seeks
<1>6. IsFiniteSet({}) /\ Cardinality({}) = 0
  BY FS_EmptySet
<1>7. \A b \in Buckets : ClaimsIn(b) = {} /\ state[b].count = 0
  BY <1>4 DEF ClaimsIn, W!Init, W!Empty
<1>8. \A b \in Buckets : Packed(b)
  BY <1>6, <1>7 DEF Packed
<1>9. OwnBlocks
  BY <1>1, IdleCall DEF OwnBlocks
<1>10. allocs = 0
  BY DEF W!Init
<1>11. BlocksInv
  BY <1>4, <1>5, <1>6, <1>8, <1>9, <1>10 DEF BlocksInv
<1> QED BY <1>2, <1>3, <1>11 DEF HeapInv

LEMMA HeapStep ==
  ASSUME HeapInv, W!Next
  PROVE  HeapInv'
BY HeapCallAlloc, HeapPopActive, HeapLook, HeapRetire, HeapLoadAlloc, HeapClaim, HeapGiveBack,
   HeapPopReserve, HeapCallFree, HeapLoadFree, HeapFree
   DEF W!Next, W!Step

LEMMA HeapStay ==
  ASSUME HeapInv, UNCHANGED heapVars
  PROVE  HeapInv'
<1>1. CallsKnow'
  BY DEF HeapInv, CallsKnow, HeapTypes, Knows, heapVars
<1>2. PilesInv'
  BY DEF HeapInv, PilesInv, PilesApart, HandOf, heapVars
<1>3. BlocksInv'
  BY DEF HeapInv, BlocksInv, OwnBlocks, Packed, ClaimsIn, Owned, Seeking, Seeks, heapVars
<1> QED BY <1>1, <1>2, <1>3 DEF HeapInv

\* Threads that allocate from a HighWaterHeapSet and free, at once: blocks that are
\* claimed share nothing and are what the count of their bucket says, which is
\* emptied by the last one only, and a bucket is on one stack or in one thread's
\* hands, never lost (HighWaterHeap.h: Alloc, Free; HighWaterHeapSet.h: Alloc).
THEOREM HeapBlocksApart == Spec => [](W!TypeOK /\ W!BlocksDisjoint /\ W!OnePlaceEach)
<1>1. Init => HeapInv
  BY HeapInit DEF Init
<1>2. HeapInv /\ [Next]_vars => HeapInv'
  BY HeapStep, HeapStay DEF Next, vars
<1> QED BY <1>1, <1>2, HeapSafe, PTL DEF Spec
-----------------------------------------------------------------------------
(* CowList: the storage of the writer's list *)

Datas == UNION {[0 .. n - 1 -> Items \cup {JUNK}] : n \in Nat}

\* The elements lie inside the storage and were all written.
StoreFine(m) ==
  /\ m \in [data : Datas, cap : Nat, count : 0 .. MaxCount]
  /\ m.count <= m.cap /\ m.data \in [0 .. m.cap - 1 -> Items \cup {JUNK}]
  /\ \A i \in 0 .. m.count - 1 : m.data[i] \in Items

LEMMA StoreIs ==
  ASSUME NEW d, NEW n \in Nat, NEW k \in 0 .. MaxCount, k <= n, d \in [0 .. n - 1 -> Items \cup {JUNK}],
         \A i \in 0 .. k - 1 : d[i] \in Items
  PROVE  StoreFine([data |-> d, cap |-> n, count |-> k])
<1>1. d \in Datas
  BY DEF Datas
<1> HIDE DEF Datas
<1>2. PICK m \in [data : Datas, cap : Nat, count : 0 .. MaxCount] : m = [data |-> d, cap |-> n, count |-> k]
  BY <1>1
<1>3. m.data = d /\ m.cap = n /\ m.count = k
  BY <1>2
<1>4. StoreFine(m)
  BY <1>3 DEF StoreFine
<1> QED BY <1>2, <1>4

\* What is left of m when its data, or its count, is another.
LEMMA StoreWith ==
  ASSUME NEW m, StoreFine(m), NEW d
  PROVE  [m EXCEPT !.data = d] = [data |-> d, cap |-> m.cap, count |-> m.count]
<1>1. m \in [data : Datas, cap : Nat, count : 0 .. MaxCount]
  BY DEF StoreFine
<1> HIDE DEF Datas
<1> QED BY <1>1

LEMMA NoStoreFine == StoreFine(C!NoStore) /\ C!NoStore.count = 0
<1>1. PICK d \in [{} -> Items \cup {JUNK}] : d = [i \in {} |-> JUNK]
  OBVIOUS
<1>2. 0 .. 0 - 1 = {}
  OBVIOUS
<1>3. d \in [0 .. 0 - 1 -> Items \cup {JUNK}]
  BY <1>2
<1>4. C!NoStore = [data |-> d, cap |-> 0, count |-> 0]
  BY <1>1 DEF C!NoStore
<1>5. 0 \in 0 .. MaxCount /\ 0 \in Nat /\ 0 <= 0 /\ \A i \in 0 .. 0 - 1 : d[i] \in Items
  BY CowAssumption
<1>6. StoreFine([data |-> d, cap |-> 0, count |-> 0])
  BY <1>3, <1>5, StoreIs
<1> QED BY <1>4, <1>6

\* Room makes room for one element more.
LEMMA RoomIs ==
  ASSUME NEW m, StoreFine(m)
  PROVE  StoreFine(C!Room(m)) /\ C!Room(m).count = m.count /\ m.count + 1 <= C!Room(m).cap
         /\ \A i \in 0 .. m.count - 1 : C!Room(m).data[i] = m.data[i]
<1>1. PICK n \in Nat, k \in Nat :
        /\ n = m.cap /\ k = m.count /\ k \in 0 .. MaxCount /\ k <= n
        /\ m.data \in [0 .. n - 1 -> Items \cup {JUNK}] /\ \A i \in 0 .. k - 1 : m.data[i] \in Items
  BY CowAssumption DEF StoreFine
<1>2. CASE k + 1 < n
  <2>1. C!Room(m) = m
    BY <1>1, <1>2 DEF C!Room
  <2> QED BY <1>1, <1>2, <2>1
<1>3. CASE ~(k + 1 < n)
  <2>0. PICK f \in Nat \ {0}, g \in Nat \ {0} : f = InitialCapacity /\ g = GrowCapacity
    BY CowAssumption
  <2>1. PICK w \in Nat : w = (IF k = 0 THEN InitialCapacity ELSE n + GrowCapacity) /\ (w > n => k + 1 <= w)
                         /\ (w <= n => k + 1 <= n)
    <3>1. CASE k = 0
      BY <1>1, <2>0, <3>1
    <3>2. CASE k # 0
      <4>1. n + g \in Nat /\ k + 1 <= n + g
        BY <1>1, <2>0
      <4> QED BY <2>0, <3>2, <4>1
    <3> QED BY <3>1, <3>2
  <2>2. C!Room(m) = C!SetCapacity(m, w)
    BY <1>1, <1>3, <2>1 DEF C!Room
  <2>3. CASE w <= n
    <3>1. C!Room(m) = m
      BY <1>1, <2>2, <2>3 DEF C!SetCapacity
    <3> QED BY <1>1, <2>1, <2>3, <3>1
  <2>4. CASE w > n
    <3> DEFINE e == [i \in 0 .. w - 1 |-> IF i < n THEN m.data[i] ELSE JUNK]
    <3>1. C!Room(m) = [m EXCEPT !.cap = w, !.data = e]
      BY <1>1, <2>1, <2>2, <2>4 DEF C!SetCapacity
    <3>2. e \in [0 .. w - 1 -> Items \cup {JUNK}] /\ \A i \in 0 .. k - 1 : e[i] = m.data[i]
      BY <1>1, <2>1, <2>4
    <3> HIDE DEF e
    <3>3. C!Room(m) = [data |-> e, cap |-> w, count |-> k]
      <4>1. m \in [data : Datas, cap : Nat, count : 0 .. MaxCount]
        BY DEF StoreFine
      <4> HIDE DEF Datas
      <4> QED BY <1>1, <3>1, <4>1
    <3>4. k <= w /\ \A i \in 0 .. k - 1 : e[i] \in Items
      <4>1. k <= w
        BY <2>1, <2>4
      <4>2. \A i \in 0 .. k - 1 : e[i] = m.data[i] /\ m.data[i] \in Items
        BY <1>1, <3>2
      <4> QED BY <4>1, <4>2
    <3>5. StoreFine([data |-> e, cap |-> w, count |-> k])
      BY <1>1, <2>1, <3>2, <3>4, StoreIs
    <3>6. C!Room(m).data = e /\ C!Room(m).cap = w /\ C!Room(m).count = k
      BY <3>3
    <3>7. k + 1 <= w
      BY <2>1, <2>4
    <3> QED BY <1>1, <3>2, <3>3, <3>5, <3>6, <3>7
  <2> QED BY <2>1, <2>3, <2>4
<1> QED BY <1>1, <1>2, <1>3

\* An element stored in the storage.
LEMMA StoredData ==
  ASSUME NEW c \in Nat, NEW V, NEW d \in [0 .. c - 1 -> V], NEW p \in 0 .. c - 1, NEW x \in V
  PROVE  LET e == [i \in DOMAIN d \cup {p} |-> IF i = p THEN x ELSE d[i]]
         IN  e \in [0 .. c - 1 -> V] /\ \A i \in 0 .. c - 1 : e[i] = IF i = p THEN x ELSE d[i]
<1>1. DOMAIN d \cup {p} = 0 .. c - 1
  OBVIOUS
<1> QED BY <1>1

LEMMA InsertedFine ==
  ASSUME NEW m, StoreFine(m), m.count < MaxCount, NEW p \in 0 .. m.count, NEW x \in Items
  PROVE  StoreFine(C!Inserted(m, p, x))
<1>1. PICK r : r = C!Room(m)
  OBVIOUS
<1>2. PICK n \in Nat, k \in Nat :
        /\ n = r.cap /\ k = r.count /\ k = m.count /\ k + 1 \in 0 .. MaxCount /\ k + 1 <= n
        /\ r.data \in [0 .. n - 1 -> Items \cup {JUNK}] /\ \A i \in 0 .. k - 1 : r.data[i] \in Items
  <2>1. StoreFine(r) /\ r.count = m.count /\ m.count + 1 <= r.cap
    BY <1>1, RoomIs
  <2>2. m.count \in Nat /\ r.cap \in Nat /\ MaxCount \in Nat
    BY <2>1, CowAssumption DEF StoreFine
  <2>3. m.count + 1 \in 0 .. MaxCount
    BY <2>2
  <2> QED BY <2>1, <2>2, <2>3 DEF StoreFine
<1>3. StoreFine(r)
  BY <1>1, RoomIs
<1>4. PICK q \in Nat : /\ q = p /\ q <= k /\ q + 1 \in Nat /\ k - q \in Nat
                       /\ q + 1 + (k - q) <= n /\ q + (k - q) <= n
  BY <1>2
<1>5. PICK d : d = C!memmove(r.data, q + 1, q, k - q)
  OBVIOUS
<1>6. d \in [0 .. n - 1 -> Items \cup {JUNK}]
      /\ \A i \in 0 .. n - 1 : d[i] = IF i \in q + 1 .. q + 1 + (k - q) - 1 THEN r.data[i - (q + 1) + q] ELSE r.data[i]
  <2>0. q + 1 + (k - q) - 1 = k
    OBVIOUS
  <2>1. DOMAIN r.data \cup q + 1 .. q + 1 + (k - q) - 1 = 0 .. n - 1
    <3>1. DOMAIN r.data = 0 .. n - 1 /\ k + 1 <= n
      BY <1>2
    <3> QED BY <2>0, <3>1
  <2>2. d = [i \in 0 .. n - 1 |-> IF i \in q + 1 .. q + 1 + (k - q) - 1 THEN r.data[i - (q + 1) + q] ELSE r.data[i]]
    BY <1>5, <2>1, Zenon DEF C!memmove
  <2>3. \A i \in q + 1 .. q + 1 + (k - q) - 1 : i - (q + 1) + q \in 0 .. n - 1
    <3>1. k + 1 <= n
      BY <1>2
    <3> QED BY <2>0, <3>1
  <2> QED BY <1>2, <2>2, <2>3
<1>7. PICK e : e = [i \in DOMAIN d \cup {q} |-> IF i = q THEN x ELSE d[i]]
  OBVIOUS
<1>8. e \in [0 .. n - 1 -> Items \cup {JUNK}] /\ \A i \in 0 .. n - 1 : e[i] = IF i = q THEN x ELSE d[i]
  <2>1. q \in 0 .. n - 1 /\ x \in Items \cup {JUNK}
    BY <1>2, <1>4
  <2> QED BY <1>6, <1>7, <2>1, StoredData
<1>9. ASSUME NEW i \in 0 .. k PROVE e[i] \in Items
  <2>1. i \in 0 .. n - 1 /\ i \in Nat
    BY <1>2
  <2>2. CASE i < q
    <3>1. i # q /\ i \notin q + 1 .. q + 1 + (k - q) - 1 /\ i \in 0 .. k - 1
      BY <1>4, <2>2
    <3>2. e[i] = d[i] /\ d[i] = r.data[i]
      BY <1>6, <1>8, <2>1, <3>1
    <3> QED BY <1>2, <3>1, <3>2
  <2>3. CASE i = q
    BY <1>8, <2>1, <2>3
  <2>4. CASE i > q
    <3>1. i # q /\ i \in q + 1 .. q + 1 + (k - q) - 1 /\ i - (q + 1) + q \in 0 .. k - 1
      BY <1>4, <2>4
    <3>2. e[i] = d[i] /\ d[i] = r.data[i - (q + 1) + q]
      BY <1>6, <1>8, <2>1, <3>1
    <3> QED BY <1>2, <3>1, <3>2
  <2> QED BY <1>4, <2>1, <2>2, <2>3, <2>4
<1>10. C!Inserted(m, p, x) = [data |-> e, cap |-> n, count |-> k + 1]
  <2>1. [r EXCEPT !.data = d] = [data |-> d, cap |-> n, count |-> k]
    BY <1>2, <1>3, StoreWith
  <2>2. C!Stored([r EXCEPT !.data = d], q, x) = [data |-> e, cap |-> n, count |-> k]
    <3>1. PICK s : s = [data |-> d, cap |-> n, count |-> k]
      OBVIOUS
    <3>2. [s EXCEPT !.data = e] = [data |-> e, cap |-> n, count |-> k] /\ s.data = d
      BY <3>1
    <3>3. C!Stored(s, q, x) = [s EXCEPT !.data = e]
      BY <1>7, <3>2, Zenon DEF C!Stored
    <3> QED BY <2>1, <3>1, <3>2, <3>3
  <2>3. C!Inserted(m, p, x) = [C!Stored([r EXCEPT !.data = d], q, x) EXCEPT !.count = @ + 1]
    BY <1>1, <1>2, <1>4, <1>5, Zenon DEF C!Inserted
  <2> QED BY <2>2, <2>3
<1>11. StoreFine([data |-> e, cap |-> n, count |-> k + 1])
  <2>1. \A i \in 0 .. (k + 1) - 1 : e[i] \in Items
    BY <1>2, <1>9
  <2> QED BY <1>2, <1>8, <2>1, StoreIs
<1> QED BY <1>10, <1>11

\* memmove among the elements.
LEMMA MovedFine ==
  ASSUME NEW n \in Nat, NEW k \in Nat, k <= n, NEW d \in [0 .. n - 1 -> Items \cup {JUNK}],
         \A i \in 0 .. k - 1 : d[i] \in Items,
         NEW to \in Nat, NEW from \in Nat, NEW l \in Nat, to + l <= k, from + l <= k,
         NEW e, e = C!memmove(d, to, from, l)
  PROVE  e \in [0 .. n - 1 -> Items \cup {JUNK}] /\ \A i \in 0 .. k - 1 : e[i] \in Items
<1>1. DOMAIN d \cup to .. to + l - 1 = 0 .. n - 1
  OBVIOUS
<1>2. e = [i \in 0 .. n - 1 |-> IF i \in to .. to + l - 1 THEN d[i - to + from] ELSE d[i]]
  BY <1>1, Zenon DEF C!memmove
<1>3. \A i \in to .. to + l - 1 : i - to + from \in 0 .. k - 1 /\ i - to + from \in 0 .. n - 1
  OBVIOUS
<1>4. e \in [0 .. n - 1 -> Items \cup {JUNK}]
  BY <1>2, <1>3
<1>5. ASSUME NEW i \in 0 .. k - 1 PROVE e[i] \in Items
  <2>1. i \in 0 .. n - 1
    OBVIOUS
  <2>2. CASE i \in to .. to + l - 1
    <3>1. e[i] = d[i - to + from]
      BY <1>2, <2>1, <2>2
    <3> QED BY <1>3, <2>2, <3>1
  <2>3. CASE i \notin to .. to + l - 1
    BY <1>2, <2>1, <2>3
  <2> QED BY <2>2, <2>3
<1> QED BY <1>4, <1>5

\* The numbers of a store.
LEMMA StoreNumbers ==
  ASSUME NEW m, StoreFine(m)
  PROVE  \E n \in Nat, k \in Nat : /\ n = m.cap /\ k = m.count /\ k \in 0 .. MaxCount /\ k <= n
                                  /\ m.data \in [0 .. n - 1 -> Items \cup {JUNK}]
                                  /\ \A i \in 0 .. k - 1 : m.data[i] \in Items
BY CowAssumption DEF StoreFine

LEMMA RemovedFine ==
  ASSUME NEW m, StoreFine(m), NEW p \in 0 .. m.count - 1
  PROVE  StoreFine(C!Removed(m, p))
<1>1. PICK n \in Nat, k \in Nat : /\ n = m.cap /\ k = m.count /\ k \in 0 .. MaxCount /\ k <= n
                                  /\ m.data \in [0 .. n - 1 -> Items \cup {JUNK}]
                                  /\ \A i \in 0 .. k - 1 : m.data[i] \in Items
  BY StoreNumbers
<1>2. PICK q \in Nat : q = p /\ q + 1 <= k
  BY <1>1
<1>3. PICK l \in Nat : l = k - q - 1
  BY <1>2
<1>4. q + l <= k /\ (q + 1) + l <= k /\ q + 1 \in Nat /\ k - 1 \in 0 .. MaxCount /\ k - 1 <= n
  <2>1. q + 1 <= k
    BY <1>2
  <2>2. k <= n /\ k <= MaxCount /\ MaxCount \in Nat
    BY <1>1, CowAssumption
  <2>3. q + l <= k /\ (q + 1) + l <= k /\ q + 1 \in Nat
    BY <1>3, <2>1
  <2> QED BY <2>1, <2>2, <2>3
<1>5. PICK e : e = C!memmove(m.data, q, q + 1, l)
  OBVIOUS
<1>6. e \in [0 .. n - 1 -> Items \cup {JUNK}] /\ \A i \in 0 .. k - 1 : e[i] \in Items
  BY <1>1, <1>4, <1>5, MovedFine
<1>7. StoreFine([data |-> e, cap |-> n, count |-> k - 1])
  <2>1. \A i \in 0 .. (k - 1) - 1 : e[i] \in Items
    BY <1>6
  <2> QED BY <1>4, <1>6, <2>1, StoreIs
<1>8. C!Removed(m, p) = [data |-> e, cap |-> n, count |-> k - 1]
  <2>1. m \in [data : Datas, cap : Nat, count : 0 .. MaxCount] /\ m.cap = n /\ m.count = k
    BY <1>1 DEF StoreFine
  <2>2. C!Removed(m, p) = [m EXCEPT !.data = e, !.count = @ - 1]
    BY <1>1, <1>2, <1>3, <1>5, Zenon DEF C!Removed
  <2> HIDE DEF Datas
  <2> QED BY <2>1, <2>2
<1> QED BY <1>7, <1>8

LEMMA MovedElementFine ==
  ASSUME NEW m, StoreFine(m), NEW p \in 0 .. m.count - 1, NEW to \in (0 .. m.count - 1) \ {p}
  PROVE  StoreFine(C!Moved(m, p, to))
<1>1. PICK n \in Nat, k \in Nat : /\ n = m.cap /\ k = m.count /\ k \in 0 .. MaxCount /\ k <= n
                                  /\ m.data \in [0 .. n - 1 -> Items \cup {JUNK}]
                                  /\ \A i \in 0 .. k - 1 : m.data[i] \in Items
  BY StoreNumbers
<1>2. PICK q \in Nat, r \in Nat : q = p /\ r = to /\ q + 1 <= k /\ r + 1 <= k /\ q # r
  BY <1>1
<1>0. k <= n /\ m.data \in [0 .. n - 1 -> Items \cup {JUNK}] /\ \A i \in 0 .. k - 1 : m.data[i] \in Items
  BY <1>1
<1>3. PICK d : d = IF r < q THEN C!memmove(m.data, r + 1, r, q - r) ELSE C!memmove(m.data, q, q + 1, r - q)
  OBVIOUS
<1>4. d \in [0 .. n - 1 -> Items \cup {JUNK}] /\ \A i \in 0 .. k - 1 : d[i] \in Items
  <2>1. CASE r < q
    <3>1. PICK l \in Nat : l = q - r
      BY <2>1
    <3>2. r + 1 \in Nat /\ (r + 1) + l <= k /\ r + l <= k
      <4>1. q + 1 <= k
        BY <1>2
      <4> QED BY <3>1, <4>1
    <3>3. d = C!memmove(m.data, r + 1, r, l)
      BY <1>3, <2>1, <3>1
    <3> QED BY <1>0, <3>2, <3>3, MovedFine, ZenonT(60)
  <2>2. CASE ~(r < q)
    <3>1. PICK l \in Nat : l = r - q
      BY <2>2
    <3>2. q + 1 \in Nat /\ q + l <= k /\ (q + 1) + l <= k
      <4>1. r + 1 <= k
        BY <1>2
      <4> QED BY <3>1, <4>1
    <3>3. d = C!memmove(m.data, q, q + 1, l)
      BY <1>3, <2>2, <3>1
    <3> QED BY <1>0, <3>2, <3>3, MovedFine, ZenonT(60)
  <2> QED BY <2>1, <2>2
<1>5. PICK x \in Items : x = m.data[q]
  <2>1. q \in 0 .. k - 1
    BY <1>2
  <2> QED BY <1>1, <2>1
<1>6. PICK e : e = [i \in DOMAIN d \cup {r} |-> IF i = r THEN x ELSE d[i]]
  OBVIOUS
<1>7. e \in [0 .. n - 1 -> Items \cup {JUNK}] /\ \A i \in 0 .. n - 1 : e[i] = IF i = r THEN x ELSE d[i]
  <2>1. r \in 0 .. n - 1 /\ x \in Items \cup {JUNK}
    BY <1>1, <1>2
  <2> QED BY <1>4, <1>6, <2>1, StoredData
<1>8. \A i \in 0 .. k - 1 : e[i] \in Items
  <2>1. \A i \in 0 .. k - 1 : i \in 0 .. n - 1
    BY <1>1
  <2> QED BY <1>4, <1>7, <2>1
<1>9. StoreFine([data |-> e, cap |-> n, count |-> k])
  BY <1>1, <1>7, <1>8, StoreIs
<1>10. C!Moved(m, p, to) = [data |-> e, cap |-> n, count |-> k]
  <2>1. PICK s : s = [m EXCEPT !.data = d]
    OBVIOUS
  <2>2. s = [data |-> d, cap |-> n, count |-> k]
    BY <1>1, <2>1, StoreWith
  <2>3. [s EXCEPT !.data = e] = [data |-> e, cap |-> n, count |-> k] /\ s.data = d
    BY <2>2
  <2>4. C!Moved(m, p, to) = C!Stored(s, r, x)
    BY <1>2, <1>3, <1>5, <2>1, Zenon DEF C!Moved
  <2>5. C!Stored(s, r, x) = [s EXCEPT !.data = e]
    BY <1>6, <2>3, Zenon DEF C!Stored
  <2> QED BY <2>3, <2>4, <2>5
<1> QED BY <1>9, <1>10

LEMMA SortedFine ==
  ASSUME NEW m, StoreFine(m), NEW order \in C!Orders(m.count)
  PROVE  StoreFine(C!Sorted(m, order))
<1>1. PICK n \in Nat, k \in Nat : /\ n = m.cap /\ k = m.count /\ k \in 0 .. MaxCount /\ k <= n
                                  /\ m.data \in [0 .. n - 1 -> Items \cup {JUNK}]
                                  /\ \A i \in 0 .. k - 1 : m.data[i] \in Items
  BY StoreNumbers
<1>2. order \in [0 .. k - 1 -> 0 .. k - 1]
  BY <1>1 DEF C!Orders
<1>3. PICK e : e = [i \in DOMAIN m.data |-> IF i < k THEN m.data[order[i]] ELSE m.data[i]]
  OBVIOUS
<1>4. DOMAIN m.data = 0 .. n - 1 /\ \A i \in 0 .. k - 1 : m.data[order[i]] \in Items /\ e[i] = m.data[order[i]]
  <2>1. \A i \in 0 .. k - 1 : i \in 0 .. n - 1 /\ i < k
    BY <1>1
  <2> QED BY <1>1, <1>2, <1>3, <2>1
<1>5. e \in [0 .. n - 1 -> Items \cup {JUNK}]
  <2>1. ASSUME NEW i \in 0 .. n - 1 PROVE (IF i < k THEN m.data[order[i]] ELSE m.data[i]) \in Items \cup {JUNK}
    <3>1. CASE i < k
      <4>1. i \in 0 .. k - 1
        BY <3>1
      <4> QED BY <1>4, <3>1, <4>1
    <3>2. CASE ~(i < k)
      BY <1>1, <3>2
    <3> QED BY <3>1, <3>2
  <2> QED BY <1>3, <1>4, <2>1
<1>6. StoreFine([data |-> e, cap |-> n, count |-> k])
  BY <1>1, <1>4, <1>5, StoreIs
<1>7. C!Sorted(m, order) = [data |-> e, cap |-> n, count |-> k]
  <2>1. C!Sorted(m, order) = [m EXCEPT !.data = e]
    BY <1>1, <1>3, Zenon DEF C!Sorted
  <2> QED BY <1>1, <2>1, StoreWith
<1> QED BY <1>6, <1>7

LEMMA EditsFine ==
  ASSUME NEW m, StoreFine(m), NEW e \in C!Edits(m)
  PROVE  StoreFine(e)
<1>1. \/ \E p \in 0 .. m.count, x \in Items : m.count < MaxCount /\ e = C!Inserted(m, p, x)
      \/ \E p \in 0 .. m.count - 1 : e = C!Removed(m, p)
      \/ \E p \in 0 .. m.count - 1 : \E q \in (0 .. m.count - 1) \ {p} : e = C!Moved(m, p, q)
  BY DEF C!Edits
<1> QED BY <1>1, InsertedFine, RemovedFine, MovedElementFine

LEMMA ClearedFine ==
  ASSUME NEW m, StoreFine(m)
  PROVE  StoreFine([m EXCEPT !.count = 0])
<1>1. PICK n \in Nat, k \in Nat : /\ n = m.cap /\ k = m.count /\ k \in 0 .. MaxCount /\ k <= n
                                  /\ m.data \in [0 .. n - 1 -> Items \cup {JUNK}]
                                  /\ \A i \in 0 .. k - 1 : m.data[i] \in Items
  BY StoreNumbers
<1>2. [m EXCEPT !.count = 0] = [data |-> m.data, cap |-> n, count |-> 0]
  <2>1. m \in [data : Datas, cap : Nat, count : 0 .. MaxCount]
    BY DEF StoreFine
  <2> HIDE DEF Datas
  <2> QED BY <1>1, <2>1
<1>3. 0 \in 0 .. MaxCount /\ 0 <= n /\ \A i \in 0 .. 0 - 1 : m.data[i] \in Items
  BY CowAssumption
<1> QED BY <1>1, <1>2, <1>3, StoreIs

\* The elements of the list.
LEMMA ElementsAre ==
  ASSUME NEW m, StoreFine(m)
  PROVE  C!Elements(m) \in Seq(Items) /\ (m.count = 0 => C!Elements(m) = <<>>)
<1>1. PICK n \in Nat, k \in Nat : /\ n = m.cap /\ k = m.count /\ k \in 0 .. MaxCount /\ k <= n
                                  /\ m.data \in [0 .. n - 1 -> Items \cup {JUNK}]
                                  /\ \A i \in 0 .. k - 1 : m.data[i] \in Items
  BY StoreNumbers
<1>2. C!Elements(m) = [i \in 1 .. k |-> m.data[i - 1]]
  BY <1>1 DEF C!Elements
<1>3. \A i \in 1 .. k : i - 1 \in 0 .. k - 1
  OBVIOUS
<1>4. [i \in 1 .. k |-> m.data[i - 1]] \in Seq(Items)
  BY <1>1, <1>3
<1>5. k = 0 => [i \in 1 .. k |-> m.data[i - 1]] = <<>>
  OBVIOUS
<1> QED BY <1>1, <1>2, <1>4, <1>5
-----------------------------------------------------------------------------
(* CowList: who has which snapshot *)

Pointers == Snaps \cup {NULL}
Snapshots == [live : BOOLEAN, items : Seq(Items), next : Pointers]
WriterCalls == [at : {"idle", "load", "try", "set"}, pending : Pointers, new : Pointers]
Writers == [depth : 0 .. MaxDepth, dirty : BOOLEAN, calls : Nat, call : WriterCalls]

CowTypes ==
  /\ heap \in [Snaps -> Snapshots]
  /\ hand \in [pending : Pointers, retired : Pointers, current : Snaps]
  /\ writer \in Writers
  /\ reader \in [at : {"idle", "head", "push"}, pending : Pointers, head : Pointers]

\* What m_retired holds is a list.
NextOf(h) == [a \in Snaps |-> h[a].next]
ChainOf(h, p) == LET f == Follow(Snaps, NULL, NextOf(h), p) IN {f[k] : k \in DOMAIN f} \ {NULL}
Backs == ChainOf(heap, hand.retired)
Linked == ListOf(Snaps, NULL, NextOf(heap), hand.retired, Backs)

\* What is allocated is in R or held by one of the four other pointers, and not
\* by two.
OneHolder(h, R, cur, pend, took, new) ==
  /\ cur \notin {pend, took, new}
  /\ pend # NULL => pend \notin {took, new}
  /\ took # NULL => took # new
  /\ R \cap {cur, pend, took, new} = {}
  /\ \A a \in Snaps : h[a].live = TRUE <=> a \in R \cup {cur, pend, took, new}

Holders == OneHolder(heap, Backs, hand.current, hand.pending, reader.pending, writer.call.new)

\* What each of the two threads knows at the place it is at.
CowKnows ==
  /\ writer.call.at \in {"idle", "load"} <=> writer.call.new = NULL
  /\ writer.call.at # "idle" => writer.depth = 0
  /\ writer.call.at = "try" => hand.pending \in {writer.call.pending, NULL}
  /\ writer.call.at = "set" => hand.pending = NULL
  /\ writer.call.new # NULL => heap[writer.call.new].items = C!Elements(store)
  /\ reader.at = "idle" <=> reader.pending = NULL
  /\ reader.at = "push" => heap[hand.current].next = reader.head

CowInv == CowTypes /\ StoreFine(store) /\ Linked /\ Holders /\ CowKnows

\* Chain is the walk of LinkedLists.
LEMMA ChainFollow ==
  /\ C!Chain(hand.retired) = ChainOf(heap, hand.retired)
  /\ C!Chain(hand.retired)' = ChainOf(heap', hand'.retired)
BY DEF C!Chain, C!nexts, NextOf, ChainOf, Follow, C!Cardinality, Cardinality

LEMMA ChainList ==
  ASSUME NEW h, NEW p, NEW S, ListOf(Snaps, NULL, NextOf(h), p, S)
  PROVE  ChainOf(h, p) = S
<1>1. PICK f : f = Follow(Snaps, NULL, NextOf(h), p)
  OBVIOUS
<1>2. {f[k] : k \in DOMAIN f} \ {NULL} = S
  BY <1>1, CowAssumption, ListWalk
<1> QED BY <1>1, <1>2 DEF ChainOf

\* The list after a step.
LEMMA LinkedThen ==
  ASSUME NEW S, ListOf(Snaps, NULL, NextOf(heap'), hand'.retired, S)
  PROVE  Backs' = S /\ Linked'
BY ChainList DEF Backs, Linked

LEMMA BacksAre ==
  ASSUME CowInv
  PROVE  /\ Backs \subseteq Snaps /\ NULL \notin Backs /\ C!Chain(hand.retired) = Backs
         /\ hand.retired = NULL <=> Backs = {}
BY ListHas, ChainFollow, CowAssumption DEF CowInv, Linked, Backs

\* A list of which the links stay.
LEMMA BacksStay ==
  ASSUME CowInv, hand'.retired = hand.retired, \A a \in Backs : heap'[a].next = heap[a].next
  PROVE  Backs' = Backs /\ Linked'
<1>1. \A a \in Backs : NextOf(heap')[a] = NextOf(heap)[a]
  BY BacksAre DEF NextOf
<1>2. ListOf(Snaps, NULL, NextOf(heap'), hand.retired, Backs)
  BY <1>1, ListKept DEF CowInv, Linked
<1> QED BY <1>2, LinkedThen

\* Free is no snapshot that is live.
LEMMA NoSnapshot ==
  \E f \in Snapshots : f = C!Free /\ f.live = FALSE
<1>0. <<>> \in Seq(Items)
  OBVIOUS
<1>1. PICK s \in Seq(Items) : s = <<>>
  BY <1>0
<1>2. PICK f \in Snapshots : f = [live |-> FALSE, items |-> s, next |-> NULL]
  BY DEF Snapshots, Pointers
<1>3. f = C!Free
  BY <1>1, <1>2, Zenon DEF C!Free
<1>4. f.live = FALSE
  BY <1>2
<1> QED BY <1>3, <1>4

\* The snapshots of S are deleted.
LEMMA Freed ==
  ASSUME CowTypes, NEW S
  PROVE  /\ C!Without(S) \in [Snaps -> Snapshots]
         /\ \A a \in Snaps : C!Without(S)[a].live = TRUE <=> heap[a].live = TRUE /\ a \notin S
         /\ \A a \in Snaps \ S : C!Without(S)[a] = heap[a]
<1>1. PICK f \in Snapshots : f = C!Free /\ f.live = FALSE
  BY NoSnapshot
<1>2. \A a \in Snaps : C!Without(S)[a] = IF a \in S THEN f ELSE heap[a]
  BY <1>1 DEF C!Without
<1> QED BY <1>1, <1>2 DEF C!Without, CowTypes

\* The reader's list and the list published last are read from the heap.
View == heap[IF reader.pending = NULL THEN hand.current ELSE reader.pending].items
Published == IF hand.pending = NULL THEN View ELSE heap[hand.pending].items
RegisterStep == C!Register!Next \/ UNCHANGED C!Register!vars

LEMMA RegisterIs ==
  /\ C!Viewed.items = View /\ C!Newest.items = Published
  /\ C!Viewed.items' = View' /\ C!Newest.items' = Published'
BY Zenon DEF C!Viewed, C!Newest, View, Published

LEMMA RegisterEdit ==
  ASSUME UNCHANGED <<writer.depth, View, Published>>
  PROVE  RegisterStep
<1>1. (writer.depth > 0)' = (writer.depth > 0)
  OBVIOUS
<1> QED BY <1>1, RegisterIs, Zenon DEF RegisterStep, C!Register!Next, C!Register!Edit

LEMMA RegisterBatch ==
  ASSUME UNCHANGED <<store, View, Published>>
  PROVE  RegisterStep
<1>1. C!Elements(store)' = C!Elements(store)
  BY DEF C!Elements
<1>2. (writer.depth > 0)' \in BOOLEAN
  OBVIOUS
<1> QED BY <1>1, <1>2, RegisterIs, Zenon DEF RegisterStep, C!Register!Next, C!Register!Batch

LEMMA RegisterPublish ==
  ASSUME CowTypes, writer.depth = 0, UNCHANGED <<store, writer.depth, View>>, Published' = C!Elements(store)
  PROVE  RegisterStep
<1>1. C!Elements(store)' = C!Elements(store)
  BY DEF C!Elements
<1>2. (writer.depth > 0)' = (writer.depth > 0) /\ ~(writer.depth > 0)
  OBVIOUS
<1> QED BY <1>1, <1>2, RegisterIs, Zenon DEF RegisterStep, C!Register!Next, C!Register!Publish

LEMMA RegisterTake ==
  ASSUME UNCHANGED <<store, writer.depth, Published>>, View' = Published
  PROVE  RegisterStep
<1>1. C!Elements(store)' = C!Elements(store)
  BY DEF C!Elements
<1>2. (writer.depth > 0)' = (writer.depth > 0)
  OBVIOUS
<1> QED BY <1>1, <1>2, RegisterIs, Zenon DEF RegisterStep, C!Register!Next, C!Register!Take

LEMMA RegisterReset ==
  ASSUME writer.depth = 0, UNCHANGED writer.depth, C!Elements(store') = <<>>, View' = <<>>, Published' = <<>>
  PROVE  RegisterStep
<1>1. C!Elements(store)' = <<>>
  BY DEF C!Elements
<1>2. (writer.depth > 0)' = (writer.depth > 0) /\ ~(writer.depth > 0)
  OBVIOUS
<1> QED BY <1>1, <1>2, RegisterIs, Zenon DEF RegisterStep, C!Register!Next, C!Register!Reset

\* The snapshots that are not in the hands of the writer or back with it.
LEMMA ViewStays ==
  ASSUME CowInv, UNCHANGED <<reader, hand.current, hand.pending>>,
         \A a \in {hand.current, reader.pending, hand.pending} \ {NULL} : heap'[a].items = heap[a].items
  PROVE  UNCHANGED <<View, Published>>
<1>1. hand.current \in Snaps /\ hand.current # NULL
  BY CowAssumption DEF CowInv, CowTypes
<1>2. View' = View
  BY <1>1, Zenon DEF View
<1> QED BY <1>1, <1>2, Zenon DEF Published

\* ReclaimRetired: what was handed back is deleted, and nothing else changes.
LEMMA Reclaimed ==
  ASSUME CowInv, C!ReclaimRetired
  PROVE  /\ heap' \in [Snaps -> Snapshots] /\ Backs' = {} /\ Linked'
         /\ hand' \in [pending : Pointers, retired : Pointers, current : Snaps]
         /\ UNCHANGED <<hand.pending, hand.current>>
         /\ OneHolder(heap', {}, hand.current, hand.pending, reader.pending, writer.call.new)
         /\ \A a \in {hand.current, hand.pending, reader.pending, writer.call.new} \ {NULL} : heap'[a] = heap[a]
<1>1. heap' = C!Without(Backs) /\ hand' = [hand EXCEPT !.retired = NULL]
  BY BacksAre DEF C!ReclaimRetired
<1>2. /\ heap' \in [Snaps -> Snapshots]
      /\ \A a \in Snaps : heap'[a].live = TRUE <=> heap[a].live = TRUE /\ a \notin Backs
      /\ \A a \in Snaps \ Backs : heap'[a] = heap[a]
  <2>1. /\ C!Without(Backs) \in [Snaps -> Snapshots]
        /\ \A a \in Snaps : C!Without(Backs)[a].live = TRUE <=> heap[a].live = TRUE /\ a \notin Backs
        /\ \A a \in Snaps \ Backs : C!Without(Backs)[a] = heap[a]
    BY Freed DEF CowInv
  <2> QED BY <1>1, <2>1, Zenon
<1>3. /\ hand' \in [pending : Pointers, retired : Pointers, current : Snaps] /\ hand'.retired = NULL
      /\ UNCHANGED <<hand.pending, hand.current>>
  BY <1>1 DEF CowInv, CowTypes, Pointers
<1>4. Backs' = {} /\ Linked'
  BY <1>3, ListNone, LinkedThen
<1>5. {hand.current, hand.pending, reader.pending, writer.call.new} \ {NULL} \subseteq Snaps \ Backs
  BY DEF CowInv, CowTypes, Writers, WriterCalls, Holders, OneHolder, Pointers
<1>6. OneHolder(heap', {}, hand.current, hand.pending, reader.pending, writer.call.new)
  BY <1>2 DEF CowInv, Holders, OneHolder
<1> QED BY <1>2, <1>3, <1>4, <1>5, <1>6


\* What changes is the writer's list.
LEMMA PrivateEdit ==
  ASSUME CowInv, UNCHANGED <<heap, hand, reader, writer.depth, writer.call>>, writer' \in Writers,
         StoreFine(store'), writer.call.new = NULL
  PROVE  CowInv' /\ RegisterStep
<1>1. CowTypes' /\ Linked' /\ Holders'
  BY DEF CowInv, CowTypes, Linked, Holders, OneHolder, Backs
<1>2. CowKnows'
  BY DEF CowInv, CowKnows
<1>3. UNCHANGED <<View, Published>>
  BY DEF View, Published
<1> QED BY <1>1, <1>2, <1>3, RegisterEdit DEF CowInv

\* A call more of the writer, in a batch or not.
LEMMA WriterCounts ==
  ASSUME NEW w \in Writers, NEW v,
         v = [w EXCEPT !.dirty = TRUE, !.calls = @ + 1] \/ v = [w EXCEPT !.calls = @ + 1]
  PROVE  v \in Writers /\ v.depth = w.depth /\ v.call = w.call
<1>1. PICK n \in Nat : n = w.calls + 1
  BY DEF Writers
<1>2. PICK u \in Writers : u = [w EXCEPT !.dirty = TRUE, !.calls = n] /\ u.depth = w.depth /\ u.call = w.call
  <2>1. PICK x \in Writers : x = [w EXCEPT !.dirty = TRUE, !.calls = n]
    BY DEF Writers
  <2>2. x.depth = w.depth /\ x.call = w.call
    BY <2>1 DEF Writers
  <2> QED BY <2>1, <2>2
<1>3. PICK y \in Writers : y = [w EXCEPT !.calls = n] /\ y.depth = w.depth /\ y.call = w.call
  <2>1. PICK x \in Writers : x = [w EXCEPT !.calls = n]
    BY DEF Writers
  <2>2. x.depth = w.depth /\ x.call = w.call
    BY <2>1 DEF Writers
  <2> QED BY <2>1, <2>2
<1> QED BY <1>1, <1>2, <1>3, Zenon

\* The writer edits its list, and publishes it next or marks the batch.
LEMMA CowMutate ==
  ASSUME CowInv, NEW m \in C!Edits(store), C!Mutate(m)
  PROVE  CowInv' /\ RegisterStep
<1>1. StoreFine(store')
  BY EditsFine DEF C!Mutate, CowInv
<1>2. writer.call.at = "idle" /\ writer.call.new = NULL /\ UNCHANGED reader
  BY DEF C!Mutate, CowInv, CowKnows
<1>3. CASE writer.depth = 0
  <2>1. C!ReclaimRetired /\ writer' = [writer EXCEPT !.call.at = "load", !.calls = @ + 1]
    BY <1>3 DEF C!Mutate
  <2>2. writer' \in Writers /\ writer'.depth = 0 /\ writer'.call.new = NULL /\ writer'.call.at = "load"
    <3>1. PICK w \in Writers : w = writer /\ w.call.new = NULL /\ w.depth = 0
      BY <1>2, <1>3 DEF CowInv, CowTypes
    <3>2. PICK b \in WriterCalls, n \in Nat : b = w.call /\ b.new = NULL /\ n = w.calls + 1
      BY <3>1 DEF Writers
    <3>3. PICK c \in WriterCalls : c = [b EXCEPT !.at = "load"] /\ c.at = "load" /\ c.new = NULL
      <4>1. PICK c : c = [b EXCEPT !.at = "load"]
        OBVIOUS
      <4>2. c \in WriterCalls /\ c.at = "load" /\ c.new = b.new
        BY <4>1 DEF WriterCalls
      <4> QED BY <3>2, <4>1, <4>2
    <3>4. PICK v \in Writers : v = [w EXCEPT !.call = c, !.calls = n]
      BY DEF Writers
    <3>5. writer' = v
      BY <2>1, <3>1, <3>2, <3>3, <3>4 DEF Writers
    <3> QED BY <3>1, <3>3, <3>4, <3>5 DEF Writers
  <2>3. CowTypes'
    BY <1>2, <2>1, <2>2, Reclaimed DEF CowInv, CowTypes
  <2>4. Linked' /\ Holders'
    BY <1>2, <2>1, <2>2, Reclaimed DEF Holders
  <2>5. CowKnows'
    BY <1>2, <2>1, <2>2, Reclaimed, CowAssumption DEF CowInv, CowTypes, CowKnows
  <2>6. UNCHANGED <<View, Published>>
    BY <1>2, <2>1, Reclaimed, ViewStays
  <2> QED BY <1>1, <1>3, <2>2, <2>3, <2>4, <2>5, <2>6, RegisterEdit DEF CowInv
<1>4. CASE writer.depth # 0
  <2>1. UNCHANGED <<heap, hand>> /\ writer' = [writer EXCEPT !.dirty = TRUE, !.calls = @ + 1]
    BY <1>4 DEF C!Mutate
  <2>2. writer' \in Writers /\ writer'.depth = writer.depth /\ writer'.call = writer.call
    BY <2>1, WriterCounts DEF CowInv, CowTypes
  <2> QED BY <1>1, <1>2, <2>1, <2>2, PrivateEdit
<1> QED BY <1>3, <1>4

LEMMA CowSort ==
  ASSUME CowInv, NEW order \in C!Orders(store.count), C!Sort(C!Sorted(store, order))
  PROVE  CowInv' /\ RegisterStep
<1>1. StoreFine(store')
  BY SortedFine DEF C!Sort, CowInv
<1>2. writer.call.new = NULL /\ UNCHANGED <<heap, hand, reader>>
  BY DEF C!Sort, CowInv, CowKnows
<1>3. writer' \in Writers /\ writer'.depth = writer.depth /\ writer'.call = writer.call
  <2>1. writer' = [writer EXCEPT !.dirty = TRUE, !.calls = @ + 1]
    BY DEF C!Sort
  <2> QED BY <2>1, WriterCounts DEF CowInv, CowTypes
<1> QED BY <1>1, <1>2, <1>3, PrivateEdit

LEMMA CowClear ==
  ASSUME CowInv, C!Clear
  PROVE  CowInv' /\ RegisterStep
<1>1. StoreFine(store')
  BY ClearedFine DEF C!Clear, CowInv
<1>2. writer.call.new = NULL /\ UNCHANGED <<heap, hand, reader>>
  BY DEF C!Clear, CowInv, CowKnows
<1>3. writer' \in Writers /\ writer'.depth = writer.depth /\ writer'.call = writer.call
  <2>1. writer' = [writer EXCEPT !.calls = @ + 1]
    BY DEF C!Clear
  <2> QED BY <2>1, WriterCounts DEF CowInv, CowTypes
<1> QED BY <1>1, <1>2, <1>3, PrivateEdit

\* A batch is opened or closed, and published next.
LEMMA CowStartUpdate ==
  ASSUME CowInv, C!StartUpdate
  PROVE  CowInv' /\ RegisterStep
<1>1. writer.call.at = "idle" /\ writer.call.new = NULL /\ UNCHANGED <<store, reader>> /\ writer.depth < MaxDepth
  BY DEF C!StartUpdate, CowInv, CowKnows
<1>2. PICK w \in Writers : w = writer /\ w.depth \in 0 .. MaxDepth /\ w.depth < MaxDepth /\ MaxDepth \in Nat
  BY <1>1, CowAssumption DEF CowInv, CowTypes, Writers
<1>3. CASE w.depth = 0
  <2>1. C!ReclaimRetired /\ writer' = [w EXCEPT !.depth = 1, !.dirty = FALSE]
    BY <1>2, <1>3 DEF C!StartUpdate
  <2>2. writer' \in Writers /\ writer'.call = writer.call
    <3>1. PICK n \in 0 .. MaxDepth : n = 1
      BY <1>2, <1>3
    <3>2. writer' = [w EXCEPT !.depth = n, !.dirty = FALSE]
      BY <2>1, <3>1
    <3> QED BY <1>2, <3>2 DEF Writers
  <2>3. CowTypes'
    BY <1>1, <2>1, <2>2, Reclaimed DEF CowInv, CowTypes
  <2>4. Linked' /\ Holders'
    BY <1>1, <2>1, <2>2, Reclaimed DEF Holders
  <2>5. CowKnows'
    BY <1>1, <2>1, <2>2, Reclaimed, CowAssumption DEF CowInv, CowTypes, CowKnows
  <2>6. UNCHANGED <<View, Published>>
    BY <1>1, <2>1, Reclaimed, ViewStays
  <2> QED BY <1>1, <2>3, <2>4, <2>5, <2>6, RegisterBatch DEF CowInv
<1>4. CASE w.depth # 0
  <2>1. UNCHANGED <<heap, hand>> /\ writer' = [w EXCEPT !.depth = @ + 1]
    BY <1>2, <1>4 DEF C!StartUpdate
  <2>2. writer' \in Writers /\ writer'.call = writer.call
    <3>1. PICK n \in 0 .. MaxDepth : n = w.depth + 1
      BY <1>2
    <3>2. writer' = [w EXCEPT !.depth = n]
      BY <2>1, <3>1
    <3> QED BY <1>2, <3>2 DEF Writers
  <2>3. CowTypes' /\ Linked' /\ Holders'
    BY <1>1, <2>1, <2>2 DEF CowInv, CowTypes, Linked, Holders, OneHolder, Backs
  <2>4. CowKnows'
    BY <1>1, <2>1, <2>2 DEF CowInv, CowKnows
  <2>5. UNCHANGED <<View, Published>>
    BY <1>1, <2>1 DEF View, Published
  <2> QED BY <1>1, <2>3, <2>4, <2>5, RegisterBatch DEF CowInv
<1> QED BY <1>3, <1>4

LEMMA CowEndUpdate ==
  ASSUME CowInv, C!EndUpdate
  PROVE  CowInv' /\ RegisterStep
<1>1. writer.call.at = "idle" /\ writer.call.new = NULL /\ UNCHANGED <<heap, hand, store, reader>> /\ writer.depth > 0
  BY DEF C!EndUpdate, CowInv, CowKnows
<1>2. PICK w \in Writers, b \in WriterCalls, n \in 0 .. MaxDepth :
        w = writer /\ b = w.call /\ n = w.depth - 1 /\ b.new = NULL
  BY <1>1, CowAssumption DEF CowInv, CowTypes, Writers
<1>3. PICK p \in {"idle", "load"} : p = (IF writer.depth = 1 /\ writer.dirty THEN "load" ELSE "idle")
  OBVIOUS
<1>4. p = "load" => n = 0
  BY <1>2, <1>3
<1>5. PICK c : c = [b EXCEPT !.at = p]
  OBVIOUS
<1>6. c \in WriterCalls /\ c.at = p /\ c.new = b.new
  BY <1>5 DEF WriterCalls
<1>7. PICK v \in Writers : v = [w EXCEPT !.depth = n, !.call = c]
  BY <1>6 DEF Writers
<1>8. writer' = v
  BY <1>2, <1>3, <1>5, <1>7 DEF C!EndUpdate, Writers
<1>9. writer' \in Writers /\ writer'.call.at = p /\ writer'.call.new = NULL /\ writer'.depth = n
  BY <1>2, <1>6, <1>7, <1>8 DEF Writers
<1>10. CowTypes' /\ Linked' /\ Holders'
  BY <1>1, <1>9 DEF CowInv, CowTypes, Linked, Holders, OneHolder, Backs
<1>11. CowKnows'
  BY <1>1, <1>4, <1>9 DEF CowInv, CowKnows
<1>12. UNCHANGED <<View, Published>>
  BY <1>1 DEF View, Published
<1> QED BY <1>1, <1>10, <1>11, <1>12, RegisterBatch DEF CowInv

\* The writer builds a snapshot and tries to publish it.
LEMMA CowLoadPending ==
  ASSUME CowInv, C!LoadPending
  PROVE  CowInv' /\ RegisterStep
<1>1. PICK a \in Snaps \ C!Live :
        /\ heap' = [heap EXCEPT ![a] = C!CowListSnapshot(C!Elements(store))]
        /\ writer' = [writer EXCEPT !.call = [at |-> "try", pending |-> hand.pending, new |-> a]]
  BY DEF C!LoadPending
<1>2. writer.call.at = "load" /\ UNCHANGED <<hand, store, reader>> /\ writer.call.new = NULL /\ writer.depth = 0
  BY DEF C!LoadPending, CowInv, CowKnows
<1>3. PICK s \in Snapshots : s = C!CowListSnapshot(C!Elements(store)) /\ s.live = TRUE /\ s.items = C!Elements(store)
  <2>1. PICK e \in Seq(Items) : e = C!Elements(store)
    BY ElementsAre DEF CowInv
  <2>2. PICK s \in Snapshots : s = [live |-> TRUE, items |-> e, next |-> NULL]
    BY DEF Snapshots, Pointers
  <2>3. s = C!CowListSnapshot(C!Elements(store))
    BY <2>1, <2>2, Zenon DEF C!CowListSnapshot
  <2>4. s.live = TRUE /\ s.items = e
    BY <2>2
  <2> QED BY <2>1, <2>3, <2>4
<1>4. heap' \in [Snaps -> Snapshots] /\ heap'[a] = s /\ \A x \in Snaps \ {a} : heap'[x] = heap[x]
  BY <1>1, <1>3 DEF CowInv, CowTypes
<1>5. heap[a].live # TRUE
  BY DEF C!Live
<1>6. a \notin Backs \cup {hand.current, hand.pending, reader.pending}
  BY <1>5 DEF CowInv, Holders, OneHolder
<1>7. writer' \in Writers /\ writer'.depth = 0
      /\ writer'.call.at = "try" /\ writer'.call.pending = hand.pending /\ writer'.call.new = a
  <2>1. PICK c \in WriterCalls : c = [at |-> "try", pending |-> hand.pending, new |-> a]
    BY DEF WriterCalls, Pointers, CowInv, CowTypes
  <2>2. c.at = "try" /\ c.pending = hand.pending /\ c.new = a
    BY <2>1
  <2>3. PICK w \in Writers : w = writer
    BY DEF CowInv, CowTypes
  <2>4. writer' = [w EXCEPT !.call = c]
    BY <1>1, <2>1, <2>3
  <2>5. writer' \in Writers /\ writer'.call = c /\ writer'.depth = w.depth
    BY <2>4 DEF Writers
  <2> QED BY <1>2, <2>2, <2>3, <2>5
<1>8. Linked' /\ Backs' = Backs
  BY <1>2, <1>4, <1>6, BacksAre, BacksStay
<1>9. hand.current \in Snaps /\ hand.pending \in Pointers /\ reader.pending \in Pointers /\ NULL \notin Snaps
  BY CowAssumption DEF CowInv, CowTypes
<1>10. Holders'
  <2>1. OneHolder(heap', Backs, hand.current, hand.pending, reader.pending, a)
    BY <1>2, <1>3, <1>4, <1>6, <1>9 DEF CowInv, Holders, OneHolder
  <2> QED BY <1>2, <1>7, <1>8, <2>1 DEF Holders
<1>11. CowTypes'
  BY <1>2, <1>4, <1>7 DEF CowInv, CowTypes
<1>12. CowKnows'
  <2>1. heap'[hand.current] = heap[hand.current]
    BY <1>4, <1>6, <1>9
  <2>2. C!Elements(store)' = C!Elements(store)
    BY <1>2 DEF C!Elements
  <2> QED BY <1>2, <1>3, <1>4, <1>7, <1>9, <2>1, <2>2 DEF CowInv, CowKnows
<1>13. UNCHANGED <<View, Published>>
  BY <1>2, <1>4, <1>6, <1>9, ViewStays DEF Pointers
<1>14. writer'.depth = writer.depth
  BY <1>2, <1>7
<1> QED BY <1>2, <1>8, <1>10, <1>11, <1>12, <1>13, <1>14, RegisterEdit DEF CowInv

\* The writer's call is over: the snapshot it built is the pending one, and there
\* was none or the one that was is deleted.
LEMMA CowPublished ==
  ASSUME CowInv, writer.call.new # NULL, writer.depth = 0, writer' = [writer EXCEPT !.call = C!Idle],
         hand' = [hand EXCEPT !.pending = writer.call.new], UNCHANGED <<store, reader>>,
         heap' \in [Snaps -> Snapshots],
         \A a \in Snaps : heap'[a].live = TRUE <=> heap[a].live = TRUE /\ a # hand.pending,
         \A a \in Snaps : a # hand.pending => heap'[a] = heap[a]
  PROVE  CowInv' /\ RegisterStep
<1>1. PICK p \in Snaps : p = writer.call.new
  BY DEF CowInv, CowTypes, Writers, WriterCalls, Pointers
<1>2. hand.current \in Snaps /\ hand.pending \in Pointers /\ reader.pending \in Pointers /\ NULL \notin Snaps
  BY CowAssumption DEF CowInv, CowTypes
<1>3. OneHolder(heap, Backs, hand.current, hand.pending, reader.pending, p)
  BY <1>1 DEF CowInv, Holders
<1>4. writer' \in Writers /\ writer'.depth = 0 /\ writer'.call.at = "idle" /\ writer'.call.new = NULL
  <2>1. PICK c \in WriterCalls : c = C!Idle /\ c.at = "idle" /\ c.new = NULL
    <3>1. PICK c \in WriterCalls : c = [at |-> "idle", pending |-> NULL, new |-> NULL]
      BY DEF WriterCalls, Pointers
    <3> QED BY <3>1 DEF C!Idle
  <2>2. PICK w \in Writers : w = writer
    BY DEF CowInv, CowTypes
  <2>3. writer' = [w EXCEPT !.call = c]
    BY <2>1, <2>2
  <2>4. writer' \in Writers /\ writer'.call = c /\ writer'.depth = w.depth
    BY <2>3 DEF Writers
  <2> QED BY <2>1, <2>2, <2>4
<1>5. /\ hand' \in [pending : Pointers, retired : Pointers, current : Snaps]
      /\ hand'.pending = p /\ hand'.retired = hand.retired /\ hand'.current = hand.current
  BY <1>1 DEF CowInv, CowTypes, Pointers
<1>6. Linked' /\ Backs' = Backs
  <2>1. \A a \in Backs : a \in Snaps /\ a # hand.pending
    BY <1>3, BacksAre DEF OneHolder
  <2> QED BY <1>5, <2>1, BacksStay
<1>7. Holders'
  <2>1. OneHolder(heap', Backs, hand.current, p, reader.pending, NULL)
    <3>1. Backs \cap {hand.current, p, reader.pending, NULL} = {}
      BY <1>3, BacksAre DEF OneHolder
    <3>2. \A a \in Snaps : heap'[a].live = TRUE <=> a \in Backs \cup {hand.current, p, reader.pending, NULL}
      BY <1>2, <1>3 DEF OneHolder
    <3> QED BY <1>2, <1>3, <3>1, <3>2 DEF OneHolder
  <2> QED BY <1>4, <1>5, <1>6, <2>1 DEF Holders
<1>8. CowTypes'
  BY <1>4, <1>5 DEF CowInv, CowTypes
<1>9. heap'[hand.current] = heap[hand.current] /\ heap'[p] = heap[p]
  BY <1>1, <1>2, <1>3 DEF OneHolder
<1>10. CowKnows'
  BY <1>4, <1>5, <1>9 DEF CowInv, CowKnows
<1>11. View' = View
  <2>1. reader.pending # NULL => heap'[reader.pending] = heap[reader.pending]
    BY <1>2, <1>3 DEF OneHolder, Pointers
  <2> QED BY <1>5, <1>9, <2>1, Zenon DEF View
<1>12. Published' = C!Elements(store)
  <2>1. heap'[p].items = C!Elements(store)
    BY <1>1, <1>9 DEF CowInv, CowKnows
  <2> QED BY <1>1, <1>2, <1>5, <2>1 DEF Published
<1>13. writer'.depth = writer.depth
  BY <1>4
<1> QED BY <1>6, <1>7, <1>8, <1>10, <1>11, <1>12, <1>13, RegisterPublish DEF CowInv

LEMMA CowTrySet ==
  ASSUME CowInv, C!TrySet
  PROVE  CowInv' /\ RegisterStep
<1>1. writer.call.at = "try" /\ UNCHANGED <<store, reader>> /\ writer.call.new # NULL /\ writer.depth = 0
      /\ hand.pending \in {writer.call.pending, NULL}
  BY DEF C!TrySet, CowInv, CowKnows
<1>2. CASE hand.pending = writer.call.pending
  <2>1. /\ hand' = [hand EXCEPT !.pending = writer.call.new] /\ heap' = C!Without({hand.pending})
        /\ writer' = [writer EXCEPT !.call = C!Idle]
    BY <1>2 DEF C!TrySet
  <2>2. /\ C!Without({hand.pending}) \in [Snaps -> Snapshots]
        /\ \A a \in Snaps : C!Without({hand.pending})[a].live = TRUE <=> heap[a].live = TRUE /\ a \notin {hand.pending}
        /\ \A a \in Snaps \ {hand.pending} : C!Without({hand.pending})[a] = heap[a]
    BY Freed DEF CowInv
  <2>3. /\ heap' \in [Snaps -> Snapshots]
        /\ \A a \in Snaps : heap'[a].live = TRUE <=> heap[a].live = TRUE /\ a # hand.pending
        /\ \A a \in Snaps : a # hand.pending => heap'[a] = heap[a]
    BY <2>1, <2>2, Zenon
  <2> QED BY <1>1, <2>1, <2>3, CowPublished
<1>3. CASE hand.pending # writer.call.pending
  <2>1. writer' = [writer EXCEPT !.call.at = "set"] /\ UNCHANGED <<hand, heap>> /\ hand.pending = NULL
    BY <1>1, <1>3 DEF C!TrySet, C!Call
  <2>2. writer' \in Writers /\ writer'.call.at = "set" /\ writer'.call.new = writer.call.new /\ writer'.depth = 0
    <3>1. PICK w \in Writers, b \in WriterCalls : w = writer /\ b = w.call
      BY DEF CowInv, CowTypes, Writers
    <3>2. PICK c : c = [b EXCEPT !.at = "set"]
      OBVIOUS
    <3>3. c \in WriterCalls /\ c.at = "set" /\ c.new = b.new
      BY <3>2 DEF WriterCalls
    <3>4. writer' = [w EXCEPT !.call = c]
      BY <2>1, <3>1, <3>2 DEF Writers
    <3>5. writer' \in Writers /\ writer'.call = c /\ writer'.depth = w.depth
      BY <3>3, <3>4 DEF Writers
    <3> QED BY <1>1, <3>1, <3>3, <3>5
  <2>3. CowTypes' /\ Linked' /\ Holders'
    BY <1>1, <2>1, <2>2 DEF CowInv, CowTypes, Linked, Holders, OneHolder, Backs
  <2>4. C!Elements(store)' = C!Elements(store)
    BY <1>1 DEF C!Elements
  <2>5. CowKnows'
    BY <1>1, <2>1, <2>2, <2>4 DEF CowInv, CowKnows
  <2>6. UNCHANGED <<View, Published>>
    BY <1>1, <2>1 DEF View, Published
  <2>7. writer'.depth = writer.depth
    BY <1>1, <2>2
  <2> QED BY <1>1, <2>3, <2>5, <2>6, <2>7, RegisterEdit DEF CowInv
<1> QED BY <1>2, <1>3

LEMMA CowSetPending ==
  ASSUME CowInv, C!SetPending
  PROVE  CowInv' /\ RegisterStep
<1>1. /\ writer.call.new # NULL /\ writer.depth = 0 /\ hand.pending = NULL
      /\ hand' = [hand EXCEPT !.pending = writer.call.new] /\ writer' = [writer EXCEPT !.call = C!Idle]
      /\ UNCHANGED <<heap, store, reader>>
  BY DEF C!SetPending, CowInv, CowKnows
<1>2. \A a \in Snaps : a # hand.pending
  BY <1>1, CowAssumption
<1>3. heap' \in [Snaps -> Snapshots]
  BY <1>1 DEF CowInv, CowTypes
<1> QED BY <1>1, <1>2, <1>3, CowPublished

\* The reader takes the pending snapshot, and hands its old one back.
LEMMA CowTakePending ==
  ASSUME CowInv, C!TakePending
  PROVE  CowInv' /\ RegisterStep
<1>1. reader.at = "idle" /\ hand.pending # NULL /\ reader.pending = NULL /\ UNCHANGED <<heap, store, writer>>
  BY DEF C!TakePending, CowInv, CowKnows
<1>2. PICK p \in Snaps : p = hand.pending
  BY <1>1 DEF CowInv, CowTypes, Pointers
<1>3. /\ hand' \in [pending : Pointers, retired : Pointers, current : Snaps]
      /\ hand'.pending = NULL /\ hand'.retired = hand.retired /\ hand'.current = hand.current
  BY DEF C!TakePending, CowInv, CowTypes, Pointers
<1>4. /\ reader' \in [at : {"idle", "head", "push"}, pending : Pointers, head : Pointers]
      /\ reader'.at = "head" /\ reader'.pending = p
  BY <1>2 DEF C!TakePending, CowInv, CowTypes, Pointers
<1>5. hand.current # NULL /\ NULL \notin Snaps
  BY CowAssumption DEF CowInv, CowTypes
<1>6. Linked' /\ Backs' = Backs
  BY <1>1, <1>3, BacksStay
<1>7. Holders'
  <2>1. OneHolder(heap, Backs, hand.current, p, NULL, writer.call.new)
    BY <1>1, <1>2 DEF CowInv, Holders
  <2>2. OneHolder(heap, Backs, hand.current, NULL, p, writer.call.new)
    BY <1>2, <1>5, <2>1 DEF OneHolder
  <2> QED BY <1>1, <1>3, <1>4, <1>6, <2>2 DEF Holders
<1>8. CowTypes'
  BY <1>1, <1>3, <1>4 DEF CowInv, CowTypes
<1>9. CowKnows'
  BY <1>1, <1>3, <1>4, <1>5 DEF CowInv, CowKnows, C!Elements
<1>10. View' = heap[p].items /\ Published = heap[p].items /\ Published' = heap[p].items
  BY <1>1, <1>2, <1>3, <1>4, <1>5, Zenon DEF View, Published
<1> QED BY <1>1, <1>6, <1>7, <1>8, <1>9, <1>10, RegisterTake DEF CowInv

\* The reader links its old snapshot to what it saw on m_retired.
LEMMA CowLinks ==
  ASSUME CowInv, reader.at # "idle", heap' = [heap EXCEPT ![hand.current].next = hand.retired],
         reader' \in [at : {"idle", "head", "push"}, pending : Pointers, head : Pointers],
         reader'.at = "push", reader'.head = hand.retired, reader'.pending = reader.pending,
         UNCHANGED <<hand, store, writer>>
  PROVE  CowInv' /\ RegisterStep
<1>1. hand.current \in Snaps /\ hand.retired \in Pointers /\ heap \in [Snaps -> Snapshots] /\ NULL \notin Snaps
  BY CowAssumption DEF CowInv, CowTypes
<1>2. PICK s \in Snapshots : s = [heap[hand.current] EXCEPT !.next = hand.retired]
  BY <1>1 DEF Snapshots
<1>3. s.next = hand.retired /\ s.items = heap[hand.current].items /\ s.live = heap[hand.current].live
  BY <1>1, <1>2 DEF Snapshots
<1>4. heap' = [heap EXCEPT ![hand.current] = s]
  BY <1>1, <1>2
<1>5. /\ heap' \in [Snaps -> Snapshots] /\ heap'[hand.current].next = hand.retired
      /\ \A a \in Snaps : heap'[a].items = heap[a].items /\ heap'[a].live = heap[a].live
      /\ \A a \in Snaps \ {hand.current} : heap'[a] = heap[a]
  BY <1>1, <1>3, <1>4
<1>6. Linked' /\ Backs' = Backs
  <2>1. \A a \in Backs : a \in Snaps \ {hand.current}
    BY BacksAre DEF CowInv, Holders, OneHolder
  <2> QED BY <1>5, <2>1, BacksStay
<1>7. Holders'
  BY <1>5, <1>6 DEF CowInv, Holders, OneHolder
<1>8. CowTypes'
  BY <1>5 DEF CowInv, CowTypes
<1>9. CowKnows'
  <2>1. writer.call.new # NULL => heap'[writer.call.new].items = heap[writer.call.new].items
    BY <1>5 DEF CowInv, CowTypes, Writers, WriterCalls, Pointers
  <2>2. C!Elements(store)' = C!Elements(store)
    BY DEF C!Elements
  <2> QED BY <1>5, <2>1, <2>2 DEF CowInv, CowKnows
<1>10. UNCHANGED <<View, Published>>
  <2>1. \A a \in {hand.current, reader.pending, hand.pending} \ {NULL} : a \in Snaps
    BY DEF CowInv, CowTypes, Pointers
  <2>2. View' = View
    BY <1>1, <1>5, <2>1, Zenon DEF View
  <2> QED BY <1>5, <2>1, <2>2, Zenon DEF Published
<1> QED BY <1>6, <1>7, <1>8, <1>9, <1>10, RegisterEdit DEF CowInv

LEMMA CowLoadRetired ==
  ASSUME CowInv, C!LoadRetired
  PROVE  CowInv' /\ RegisterStep
<1>1. /\ reader.at # "idle" /\ heap' = [heap EXCEPT ![hand.current].next = hand.retired]
      /\ UNCHANGED <<hand, store, writer>> /\ hand.retired \in Pointers
  BY DEF C!LoadRetired, CowInv, CowTypes
<1>2. PICK r \in [at : {"idle", "head", "push"}, pending : Pointers, head : Pointers] : r = reader
  BY DEF CowInv, CowTypes
<1>3. reader' = [r EXCEPT !.at = "push", !.head = hand.retired]
  BY <1>2 DEF C!LoadRetired
<1>4. /\ reader' \in [at : {"idle", "head", "push"}, pending : Pointers, head : Pointers]
      /\ reader'.at = "push" /\ reader'.head = hand.retired /\ reader'.pending = r.pending
  BY <1>1, <1>3
<1> QED BY <1>1, <1>2, <1>4, CowLinks

LEMMA CowPushRetired ==
  ASSUME CowInv, C!PushRetired
  PROVE  CowInv' /\ RegisterStep
<1>1. reader.at = "push" /\ UNCHANGED <<store, writer>>
  BY DEF C!PushRetired
<1>2. CASE hand.retired # reader.head
  <2>1. /\ heap' = [heap EXCEPT ![hand.current].next = hand.retired] /\ UNCHANGED hand
        /\ reader' = [reader EXCEPT !.head = hand.retired] /\ hand.retired \in Pointers
    BY <1>2 DEF C!PushRetired, CowInv, CowTypes
  <2>2. PICK r \in [at : {"idle", "head", "push"}, pending : Pointers, head : Pointers] : r = reader
    BY DEF CowInv, CowTypes
  <2>3. /\ reader' \in [at : {"idle", "head", "push"}, pending : Pointers, head : Pointers]
        /\ reader'.at = r.at /\ reader'.head = hand.retired /\ reader'.pending = r.pending
    BY <2>1, <2>2
  <2> QED BY <1>1, <2>1, <2>2, <2>3, CowLinks
<1>3. CASE hand.retired = reader.head
  <2>1. PICK p \in Snaps, q \in Snaps : p = reader.pending /\ q = hand.current
    BY <1>1 DEF CowInv, CowTypes, CowKnows, Pointers
  <2>2. hand' = [hand EXCEPT !.retired = q, !.current = p] /\ reader' = C!Away /\ UNCHANGED heap
    BY <1>3, <2>1 DEF C!PushRetired
  <2>3. /\ hand' \in [pending : Pointers, retired : Pointers, current : Snaps]
        /\ hand'.pending = hand.pending /\ hand'.retired = q /\ hand'.current = p
    BY <2>2 DEF CowInv, CowTypes, Pointers
  <2>4. /\ reader' \in [at : {"idle", "head", "push"}, pending : Pointers, head : Pointers]
        /\ reader'.at = "idle" /\ reader'.pending = NULL
    BY <2>2 DEF C!Away, Pointers
  <2>5. NULL \notin Snaps /\ heap[q].next = hand.retired
    BY <1>1, <1>3, <2>1, CowAssumption DEF CowInv, CowKnows
  <2>6. OneHolder(heap, Backs, q, hand.pending, p, writer.call.new)
    BY <2>1 DEF CowInv, Holders
  <2>7. Linked' /\ Backs' = Backs \cup {q}
    <3>1. NextOf(heap)[q] = hand.retired /\ q \notin Backs
      BY <2>5, <2>6 DEF NextOf, OneHolder
    <3>2. ListOf(Snaps, NULL, NextOf(heap), hand.retired, Backs)
      BY DEF CowInv, Linked
    <3>3. ListOf(Snaps, NULL, NextOf(heap), q, Backs \cup {q})
      BY <2>5, <3>1, <3>2, ListAdd
    <3> QED BY <2>2, <2>3, <3>3, LinkedThen
  <2>8. Holders'
    <3>1. OneHolder(heap, Backs \cup {q}, p, hand.pending, NULL, writer.call.new)
      <4>1. NULL \notin Backs
        BY BacksAre
      <4> QED BY <2>1, <2>5, <2>6, <4>1 DEF OneHolder
    <3> QED BY <1>1, <2>2, <2>3, <2>4, <2>7, <3>1 DEF Holders
  <2>9. CowTypes'
    BY <1>1, <2>2, <2>3, <2>4 DEF CowInv, CowTypes
  <2>10. CowKnows'
    BY <1>1, <2>2, <2>3, <2>4 DEF CowInv, CowKnows, C!Elements
  <2>11. View' = heap[p].items /\ View = heap[p].items
    BY <2>1, <2>2, <2>3, <2>4, <2>5, Zenon DEF View
  <2>12. Published' = Published
    BY <2>2, <2>3, <2>11, Zenon DEF Published
  <2> QED BY <1>1, <2>7, <2>8, <2>9, <2>10, <2>11, <2>12, RegisterEdit DEF CowInv
<1> QED BY <1>2, <1>3

\* The state with one empty snapshot.
LEMMA EmptySnapshot ==
  \E s \in Snapshots : s = C!CowListSnapshot(<<>>) /\ s.live = TRUE /\ s.items = <<>>
<1>0. <<>> \in Seq(Items)
  OBVIOUS
<1>1. PICK e \in Seq(Items) : e = <<>>
  BY <1>0
<1>2. PICK s \in Snapshots : s = [live |-> TRUE, items |-> e, next |-> NULL]
  BY DEF Snapshots, Pointers
<1>3. s = C!CowListSnapshot(<<>>)
  BY <1>1, <1>2, Zenon DEF C!CowListSnapshot
<1>4. s.live = TRUE /\ s.items = e
  BY <1>2
<1> QED BY <1>1, <1>3, <1>4

LEMMA NoElements == C!Elements(C!NoStore) = <<>>
BY NoStoreFine, ElementsAre

\* Reset deletes what the list has and starts again.
LEMMA CowReset ==
  ASSUME CowInv, C!Reset
  PROVE  CowInv' /\ RegisterStep
<1> DEFINE freed == {hand.pending, hand.current} \cup Backs
<1>1. /\ writer.call.at = "idle" /\ writer.call.new = NULL /\ writer.depth = 0
      /\ reader.at = "idle" /\ reader.pending = NULL /\ store' = C!NoStore
      /\ writer' = [writer EXCEPT !.calls = @ + 1] /\ UNCHANGED reader
  BY DEF C!Reset, CowInv, CowKnows
<1>2. PICK a \in (Snaps \ C!Live) \cup (freed \ {NULL}) :
        /\ heap' = [C!Without(freed) EXCEPT ![a] = C!CowListSnapshot(<<>>)]
        /\ hand' = [pending |-> NULL, retired |-> NULL, current |-> a]
  BY BacksAre, Zenon DEF C!Reset
<1>3. freed \ {NULL} \subseteq Snaps
  BY BacksAre DEF CowInv, CowTypes, Pointers
<1>4. a \in Snaps /\ NULL \notin Snaps
  BY <1>3, CowAssumption
<1>5. PICK s \in Snapshots : s = C!CowListSnapshot(<<>>) /\ s.live = TRUE /\ s.items = <<>>
  BY EmptySnapshot
<1>6. /\ C!Without(freed) \in [Snaps -> Snapshots]
      /\ \A b \in Snaps : C!Without(freed)[b].live = TRUE <=> heap[b].live = TRUE /\ b \notin freed
  <2> HIDE DEF freed
  <2> QED BY Freed DEF CowInv
<1>7. \A b \in Snaps : heap[b].live = TRUE => b \in freed
  BY <1>1, <1>4 DEF CowInv, Holders, OneHolder
<1> HIDE DEF freed
<1>8. /\ heap' \in [Snaps -> Snapshots] /\ heap'[a] = s
      /\ \A b \in Snaps : heap'[b].live = TRUE <=> b = a
  BY <1>2, <1>4, <1>5, <1>6, <1>7
<1>9. /\ hand' \in [pending : Pointers, retired : Pointers, current : Snaps]
      /\ hand'.pending = NULL /\ hand'.retired = NULL /\ hand'.current = a
  BY <1>2, <1>4 DEF Pointers
<1>10. Linked' /\ Backs' = {}
  BY <1>9, ListNone, LinkedThen
<1>11. writer' \in Writers /\ writer'.depth = writer.depth /\ writer'.call = writer.call
  BY <1>1, WriterCounts DEF CowInv, CowTypes
<1>12. Holders'
  <2>1. OneHolder(heap', {}, a, NULL, NULL, NULL)
    BY <1>4, <1>8 DEF OneHolder
  <2> QED BY <1>1, <1>9, <1>10, <1>11, <2>1 DEF Holders
<1>13. CowTypes'
  BY <1>1, <1>8, <1>9, <1>11 DEF CowInv, CowTypes
<1>14. CowKnows'
  BY <1>1, <1>11 DEF CowInv, CowKnows
<1>15. StoreFine(store')
  BY <1>1, NoStoreFine
<1>16. View' = <<>> /\ Published' = <<>>
  BY <1>1, <1>5, <1>8, <1>9, Zenon DEF View, Published
<1> QED BY <1>1, <1>10, <1>11, <1>12, <1>13, <1>14, <1>15, <1>16, NoElements, RegisterReset DEF CowInv

LEMMA CowInit == C!Init => CowInv /\ C!Register!Init
<1> SUFFICES ASSUME C!Init PROVE CowInv /\ C!Register!Init
  OBVIOUS
<1>1. PICK a \in Snaps : a = CHOOSE b \in Snaps : TRUE
  BY CowAssumption
<1>2. /\ heap = [b \in Snaps |-> IF b = a THEN C!CowListSnapshot(<<>>) ELSE C!Free]
      /\ hand = [pending |-> NULL, retired |-> NULL, current |-> a]
      /\ store = C!NoStore /\ reader = C!Away
      /\ writer = [depth |-> 0, dirty |-> FALSE, calls |-> 0, call |-> C!Idle]
  BY <1>1, Zenon DEF C!Init
<1>3. PICK s \in Snapshots : s = C!CowListSnapshot(<<>>) /\ s.live = TRUE /\ s.items = <<>>
  BY EmptySnapshot
<1>4. PICK f \in Snapshots : f = C!Free /\ f.live = FALSE
  BY NoSnapshot
<1>5. heap \in [Snaps -> Snapshots] /\ heap[a] = s /\ \A b \in Snaps : heap[b].live = TRUE <=> b = a
  BY <1>2, <1>3, <1>4
<1>6. /\ hand \in [pending : Pointers, retired : Pointers, current : Snaps]
      /\ hand.pending = NULL /\ hand.retired = NULL /\ hand.current = a
  BY <1>2 DEF Pointers
<1>7. /\ reader \in [at : {"idle", "head", "push"}, pending : Pointers, head : Pointers]
      /\ reader.at = "idle" /\ reader.pending = NULL
  BY <1>2 DEF C!Away, Pointers
<1>8. writer \in Writers /\ writer.depth = 0 /\ writer.call.at = "idle" /\ writer.call.new = NULL
  <2>1. PICK c \in WriterCalls : c = C!Idle /\ c.at = "idle" /\ c.new = NULL
    <3>1. PICK c \in WriterCalls : c = [at |-> "idle", pending |-> NULL, new |-> NULL]
      BY DEF WriterCalls, Pointers
    <3> QED BY <3>1 DEF C!Idle
  <2>2. PICK d \in 0 .. MaxDepth : d = 0
    BY CowAssumption
  <2>3. PICK w \in Writers : w = [depth |-> d, dirty |-> FALSE, calls |-> 0, call |-> c]
    BY DEF Writers
  <2>4. w.depth = d /\ w.call = c
    BY <2>3
  <2>5. writer = w
    BY <1>2, <2>1, <2>2, <2>3, Zenon
  <2> QED BY <2>1, <2>2, <2>4, <2>5
<1>9. NULL \notin Snaps
  BY CowAssumption
<1>10. Linked /\ Backs = {}
  <2>1. ListOf(Snaps, NULL, NextOf(heap), hand.retired, {})
    BY <1>6, ListNone
  <2> QED BY <2>1, ChainList DEF Linked, Backs
<1>11. Holders
  <2>1. OneHolder(heap, {}, a, NULL, NULL, NULL)
    BY <1>5, <1>9 DEF OneHolder
  <2> QED BY <1>6, <1>7, <1>8, <1>10, <2>1 DEF Holders
<1>12. CowTypes
  BY <1>5, <1>6, <1>7, <1>8 DEF CowTypes
<1>13. CowKnows
  BY <1>6, <1>7, <1>8 DEF CowKnows
<1>14. StoreFine(store) /\ C!Elements(store) = <<>>
  BY <1>2, NoStoreFine, NoElements
<1>15. View = <<>> /\ Published = <<>>
  BY <1>3, <1>5, <1>6, <1>7, Zenon DEF View, Published
<1>16. C!Register!Init
  <2>1. (writer.depth > 0) = FALSE
    BY <1>8
  <2> QED BY <1>14, <1>15, <2>1, RegisterIs, Zenon DEF C!Register!Init
<1> QED BY <1>10, <1>11, <1>12, <1>13, <1>14, <1>16 DEF CowInv

LEMMA CowStep ==
  ASSUME CowInv, C!Next
  PROVE  CowInv' /\ RegisterStep
BY CowMutate, CowSort, CowClear, CowStartUpdate, CowEndUpdate, CowReset, CowLoadPending, CowTrySet,
   CowSetPending, CowTakePending, CowLoadRetired, CowPushRetired
   DEF C!Next, C!WriterStep, C!ReaderStep

LEMMA CowStay ==
  ASSUME CowInv, UNCHANGED cowVars
  PROVE  CowInv' /\ RegisterStep
<1>1. CowInv'
  BY DEF CowInv, CowTypes, Linked, Holders, OneHolder, Backs, CowKnows, StoreFine, C!Elements, cowVars
<1>2. UNCHANGED <<writer.depth, View, Published>>
  BY DEF View, Published, cowVars
<1> QED BY <1>1, <1>2, RegisterEdit

\* As many snapshots are live as the stack and the other four pointers hold.
LEMMA LiveCount ==
  ASSUME CowInv
  PROVE  /\ C!Live = ({hand.current, hand.pending, reader.pending, writer.call.new} \cup Backs) \ {NULL}
         /\ Cardinality(C!Live) = Cardinality(Backs) +
              Cardinality({o \in 1 .. 4 : <<hand.current, hand.pending, reader.pending, writer.call.new>>[o] # NULL})
<1>1. PICK cur \in Snaps, pend \in Pointers, took \in Pointers, new \in Pointers :
        cur = hand.current /\ pend = hand.pending /\ took = reader.pending /\ new = writer.call.new
  BY DEF CowInv, CowTypes, Writers, WriterCalls
<1>2. OneHolder(heap, Backs, cur, pend, took, new)
  BY <1>1 DEF CowInv, Holders
<1>3. Backs \subseteq Snaps /\ NULL \notin Snaps /\ IsFiniteSet(Snaps)
  BY BacksAre, CowAssumption
<1> DEFINE q == <<cur, pend, took, new>>
           O == {o \in 1 .. 4 : q[o] # NULL}
           H == {cur, pend, took, new} \ {NULL}
           g == [o \in O |-> q[o]]
<1>4. C!Live = Backs \cup H /\ Backs \cap H = {}
  <2>1. \A a \in Snaps : heap[a].live <=> heap[a].live = TRUE
    BY DEF CowInv, CowTypes, Snapshots
  <2>2. C!Live = {a \in Snaps : a \in Backs \cup {cur, pend, took, new}}
    BY <1>2, <2>1 DEF C!Live, OneHolder
  <2> QED BY <1>2, <1>3, <2>2 DEF OneHolder, Pointers
<1>5. q[1] = cur /\ q[2] = pend /\ q[3] = took /\ q[4] = new /\ 1 .. 4 = {1, 2, 3, 4}
  OBVIOUS
<1> HIDE DEF q
<1>6. g \in Bijection(O, H)
  <2>1. \A o \in O : o = 1 \/ o = 2 \/ o = 3 \/ o = 4
    BY <1>5
  <2>2. g \in [O -> H]
    BY <1>5, <2>1
  <2>3. \A o, p \in O : g[o] = g[p] => o = p
    BY <1>2, <1>5, <2>1 DEF OneHolder
  <2>4. ASSUME NEW a \in H PROVE \E o \in O : g[o] = a
    <3>1. a = q[1] \/ a = q[2] \/ a = q[3] \/ a = q[4]
      BY <1>5
    <3>2. \E o \in 1 .. 4 : a = q[o]
      BY <1>5, <3>1
    <3> QED BY <3>2
  <2> QED BY <2>2, <2>3, <2>4 DEF Bijection, Injection, Surjection, IsInjective
<1>7. IsFiniteSet(O) /\ IsFiniteSet(H) /\ IsFiniteSet(Backs)
  <2>1. IsFiniteSet(1 .. 4)
    BY OneTo
  <2>2. H \subseteq Snaps
    BY DEF Pointers
  <2> QED BY <1>3, <2>1, <2>2, FS_Subset
<1>8. ExistsBijection(O, H)
  BY <1>6 DEF ExistsBijection
<1> HIDE DEF O, H, g
<1>9. Cardinality(O) = Cardinality(H)
  BY <1>7, <1>8, FS_Bijection
<1>10. Cardinality(Backs \cup H) = Cardinality(Backs) + Cardinality(H)
  <2>1. Cardinality(Backs \cap H) = 0
    BY <1>4, FS_EmptySet
  <2>2. Cardinality(Backs \cup H) = Cardinality(Backs) + Cardinality(H) - Cardinality(Backs \cap H)
    BY <1>7, FS_Union
  <2>3. Cardinality(Backs) \in Nat /\ Cardinality(H) \in Nat
    BY <1>7, FS_CardinalityType
  <2> QED BY <2>1, <2>2, <2>3
<1>11. O = {o \in 1 .. 4 : <<hand.current, hand.pending, reader.pending, writer.call.new>>[o] # NULL}
  BY <1>1, Zenon DEF O, q
<1>12. H = {hand.current, hand.pending, reader.pending, writer.call.new} \ {NULL}
  BY <1>1 DEF H
<1> QED BY <1>3, <1>4, <1>9, <1>10, <1>11, <1>12

LEMMA CowSafe ==
  ASSUME CowInv
  PROVE  C!TypeOK /\ C!Sound
<1>1. C!TypeOK
  <2>1. \A a \in C!Live : heap[a].items \in Seq(Items)
    BY DEF C!Live, CowInv, CowTypes, Snapshots
  <2>2. store.count \in 0 .. MaxCount
    BY DEF CowInv, StoreFine
  <2> QED BY <2>1, <2>2 DEF C!TypeOK, CowInv, CowTypes, Writers, WriterCalls, Pointers
<1>2. /\ DOMAIN store.data = 0 .. store.cap - 1 /\ store.count <= store.cap
      /\ \A i \in 0 .. store.count - 1 : store.data[i] # JUNK
  BY CowAssumption DEF CowInv, StoreFine
<1>3. C!Chain(hand.retired) = Backs
  BY BacksAre
<1>4. C!Live = ({hand.current, hand.pending, reader.pending, writer.call.new} \cup C!Chain(hand.retired)) \ {NULL}
  BY <1>3, LiveCount
<1>5. C!Cardinality(C!Live) = C!Cardinality(C!Chain(hand.retired)) +
        C!Cardinality({o \in 1 .. 4 : <<hand.current, hand.pending, reader.pending, writer.call.new>>[o] # NULL})
  BY <1>3, LiveCount DEF Cardinality, C!Cardinality
<1>6. C!Sound
  BY <1>2, <1>4, <1>5, Zenon DEF C!Sound
<1> QED BY <1>1, <1>6

\* Between one writer that edits, batches and publishes and one reader that takes
\* the newest list: a snapshot that one of them can reach is allocated, each has
\* one owner, none is leaked, and the storage is never read or written past its
\* end nor before it was filled (CowList.h: InsertAt, RemoveAt, Move, Sort,
\* PublishSnapshot, GetSnapshot, ReclaimRetired, Reset).
THEOREM SnapshotsOwned == Spec => [](C!TypeOK /\ C!Sound)
<1>1. Init => CowInv
  BY CowInit DEF Init
<1>2. CowInv /\ [Next]_vars => CowInv'
  BY CowStep, CowStay DEF Next, vars
<1> QED BY <1>1, <1>2, CowSafe, PTL DEF Spec

\* CowList is an atomic register of lists: the reader takes in one step, whole, the
\* list published last, which was the writer's list when no batch was open
\* (CowList.h: PublishSnapshot, GetSnapshot, StartUpdate, EndUpdate).
THEOREM CowListIsRegister == Spec => C!ImplementsRegister
<1>1. Init => CowInv /\ C!Register!Init
  BY CowInit DEF Init
<1>2. CowInv /\ [Next]_vars => CowInv' /\ [C!Register!Next]_(C!Register!vars)
  BY CowStep, CowStay DEF Next, vars, RegisterStep
<1> QED BY <1>1, <1>2, PTL DEF Spec, C!ImplementsRegister, C!Register!Spec
-----------------------------------------------------------------------------
(* The components together *)

PrimitivesInv == SpscInv /\ CowInv /\ StructInv /\ LockInv /\ ThreadInv /\ HeapInv

LEMMA PrimitivesInit == Init => PrimitivesInv
BY SpscInit, CowInit, StructInit, LockInit, ThreadInit, HeapInit DEF Init, PrimitivesInv

LEMMA PrimitivesStep == PrimitivesInv /\ [Next]_vars => PrimitivesInv'
BY SpscStep, SpscStay, CowStep, CowStay, StructStep, StructStay, LockStep, LockStay,
   ThreadsStep, ThreadsStay, HeapStep, HeapStay DEF Next, vars, PrimitivesInv

\* Whichever of the components runs, for any of its sizes, threads and values:
\* nobody touches what is somebody else's.
THEOREM NothingIsIntruded == Spec => []NoIntrusion
<1>1. PrimitivesInv => NoIntrusion
  BY LockSafe, SpscSafe, CowSafe, StructSafe, ThreadSafe, HeapSafe DEF PrimitivesInv, NoIntrusion
<1> QED BY PrimitivesInit, PrimitivesStep, <1>1, PTL DEF Spec

\* SpscQueue implements a bounded FIFO and CowList an atomic register, step by step.
THEOREM SharedImplemented == Spec => ImplementsShared
<1> DEFINE mapped ==
      /\ which = "spsc" => Q!Fifo!ANext \/ UNCHANGED Q!Fifo!avars
      /\ which = "cow" => C!Register!Next \/ UNCHANGED C!Register!vars
<1>1. Init => Q!Fifo!AInit /\ C!Register!Init
  BY SpscInit, CowInit DEF Init
<1>2. PrimitivesInv /\ [Next]_vars => [mapped]_vars
  BY SpscStep, SpscStay, CowStep, CowStay DEF Next, vars, PrimitivesInv, RegisterStep
<1> QED BY PrimitivesInit, PrimitivesStep, <1>1, <1>2, PTL DEF Spec, ImplementsShared
=============================================================================
