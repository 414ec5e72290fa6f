------------------------ MODULE AtomicSemaphoreProofs ------------------------
(***************************************************************************)
(* Proofs about AtomicSemaphore, for any finite sets of waiters and        *)
(* producers, any spin count, any kind of time-outs and any bounds.        *)
(***************************************************************************)
EXTENDS AtomicSemaphore, FiniteSetTheorems, TLAPS

-----------------------------------------------------------------------------
(* Types *)

\* Storing a value of the right type keeps a function's type.
LEMMA ExceptType ==
  ASSUME NEW S, NEW R, NEW f \in [S -> R], NEW x, NEW y \in R
  PROVE  [f EXCEPT ![x] = y] \in [S -> R]
  OBVIOUS

\* A waiter about to claim has seen a unit; one that spins or that is in WakeOne
\* has turns left; one on its way to sleep has seen none; Stop sets the flag first.
Places ==
  /\ \A w \in Waiters :
       /\ wpc[w] = "claim" => current[w] > 0
       /\ wpc[w] = "spin" => spins[w] > 0
       /\ wpc[w] \in {"onidle", "recheck", "sleep", "asleep"} => current[w] = 0
  /\ \A p \in Producers :
       /\ ppc[p] = "wake" => wakes[p] \in 1 .. MaxRelease
       /\ ppc[p] \in {"stopAdd", "stopWake"} => stop = 1

TypeInv == TypeOK /\ Places

\* The types and the places hold in the initial state.
LEMMA TypeInit == Init => TypeInv
  BY SemaphoreAssumption DEF Init, TypeInv, TypeOK, Places

\* Every step of a waiter keeps them.
LEMMA WaiterTypes ==
  ASSUME TypeInv, NEW w \in Waiters,
         \/ \E to \in Timeouts : CallWait(w, to)
         \/ WaiterStep(w) \/ SpuriousWake(w) \/ TimeOut(w)
  PROVE  TypeInv'
<1> USE SemaphoreAssumption DEF TypeInv, TypeOK, Places, GoW, producing, history
<1>1. ASSUME NEW to \in Timeouts, CallWait(w, to) PROVE TypeInv'
  BY <1>1 DEF CallWait
<1>2. CASE CheckStop(w)
  BY <1>2 DEF CheckStop
<1>3. CASE LoadCount(w)
  BY <1>3 DEF LoadCount
<1>4. CASE Claim(w)
  <2>1. CASE count = current[w]
    <3>1. count > 0 /\ count - 1 \in Nat /\ granted + 1 \in Nat
      BY <1>4, <2>1 DEF Claim
    <3> QED BY <1>4, <2>1, <3>1 DEF Claim
  <2>2. CASE count # current[w]
    BY <1>4, <2>2 DEF Claim
  <2> QED BY <2>1, <2>2
<1>5. CASE Spin(w)
  <2>1. spins[w] - 1 \in Nat
    BY <1>5 DEF Spin
  <2>2. spins' \in [Waiters -> Nat] /\ current' \in [Waiters -> Nat]
    BY <1>5, <2>1 DEF Spin
  <2> QED BY <1>5, <2>1, <2>2 DEF Spin
<1>6. ASSUME NEW answer \in IdleAnswers, OnIdle(w, answer) PROVE TypeInv'
  BY <1>6 DEF OnIdle
<1>7. CASE Recheck(w)
  BY <1>7 DEF Recheck
<1>8. CASE Sleep(w)
  BY <1>8 DEF Sleep
<1>9. CASE SpuriousWake(w)
  BY <1>9 DEF SpuriousWake
<1>10. CASE TimeOut(w)
  BY <1>10 DEF TimeOut
<1> QED BY <1>1, <1>2, <1>3, <1>4, <1>5, <1>6, <1>7, <1>8, <1>9, <1>10 DEF WaiterStep

\* Every step of a producer keeps them, and so does Reset.
LEMMA ProducerTypes ==
  ASSUME TypeInv, NEW p \in Producers,
         \/ \E n \in 1 .. MaxRelease : Release(p, n)
         \/ Stop(p) \/ ProducerStep(p)
  PROVE  TypeInv'
<1> USE SemaphoreAssumption DEF TypeInv, TypeOK, Places, GoP, GoW, waiting, history
<1>1. ASSUME NEW n \in 1 .. MaxRelease, Release(p, n) PROVE TypeInv'
  BY <1>1 DEF Release
<1>2. CASE Stop(p)
  BY <1>2 DEF Stop
<1>3. CASE WakeOne(p)
  <2>1. wakes[p] - 1 \in Nat
    BY <1>3 DEF WakeOne
  <2>2. /\ wakes' \in [Producers -> Nat]
        /\ ppc' \in [Producers -> {"idle", "wake", "stopAdd", "stopWake"}]
    BY <1>3, <2>1 DEF WakeOne
  <2>3. \/ UNCHANGED wpc
        \/ \E w \in Asleep : wpc' = [wpc EXCEPT ![w] = "recheck"]
    BY <1>3 DEF WakeOne
  <2>4. /\ wpc' \in [Waiters -> {"idle", "stop", "load", "claim", "spin", "onidle",
                                 "recheck", "sleep", "asleep"}]
        /\ \A w \in Waiters : wpc'[w] # wpc[w] => wpc'[w] = "recheck" /\ wpc[w] = "asleep"
    BY <2>3 DEF Asleep
  <2>5. \A q \in Producers : ppc'[q] = "wake" => wakes'[q] \in 1 .. MaxRelease
    BY <1>3, <2>1 DEF WakeOne
  <2>6. \A q \in Producers : ppc'[q] \in {"stopAdd", "stopWake"} => ppc[q] = ppc'[q]
    BY <1>3 DEF WakeOne
  <2>7. UNCHANGED <<count, stop, current, timeout, spins, released, granted, stops>>
    BY <1>3 DEF WakeOne
  <2> QED BY <2>2, <2>4, <2>5, <2>6, <2>7
<1>4. CASE StopAdd(p)
  BY <1>4 DEF StopAdd
<1>5. CASE StopWake(p)
  BY <1>5 DEF StopWake, Asleep
<1> QED BY <1>1, <1>2, <1>3, <1>4, <1>5 DEF ProducerStep

\* Every action keeps the types and the places.
LEMMA TypeStep == TypeInv /\ [Next]_vars => TypeInv'
<1> SUFFICES ASSUME TypeInv, [Next]_vars PROVE TypeInv'
  OBVIOUS
<1>1. CASE Reset
  BY <1>1 DEF Reset, TypeInv, TypeOK, Places, waiting, producing
<1>2. CASE UNCHANGED vars
  BY <1>2 DEF vars, waiting, producing, history, TypeInv, TypeOK, Places
<1> QED BY <1>1, <1>2, WaiterTypes, ProducerTypes DEF Next

\* Every variable keeps its type: in particular m_count, a uint32_t, never goes
\* below 0 in SpinWait's TrySet(current - 1, current).
THEOREM TypesCorrect == Spec => []TypeOK
<1>1. TypeInv => TypeOK
  BY DEF TypeInv
<1> QED BY TypeInit, TypeStep, <1>1, PTL DEF Spec
-----------------------------------------------------------------------------
(* Units *)

\* Every action keeps the balance of the units.
LEMMA UnitsStep ==
  TypeInv /\ UnitsConserved /\ [Next]_vars => UnitsConserved'
<1> SUFFICES ASSUME TypeInv, UnitsConserved, [Next]_vars PROVE UnitsConserved'
  OBVIOUS
<1>0. count \in Nat /\ released \in Nat /\ granted \in Nat /\ stops \in Nat
  BY DEF TypeInv, TypeOK
<1> USE DEF UnitsConserved
<1>1. ASSUME NEW w \in Waiters, Claim(w) PROVE UnitsConserved'
  BY <1>0, <1>1 DEF Claim
<1>2. ASSUME NEW p \in Producers, NEW n \in 1 .. MaxRelease, Release(p, n)
      PROVE  UnitsConserved'
  BY <1>0, <1>2 DEF Release
<1>3. ASSUME NEW p \in Producers, StopAdd(p) PROVE UnitsConserved'
  BY <1>0, <1>3 DEF StopAdd
<1>4. CASE Reset
  BY <1>4 DEF Reset
<1>5. CASE UNCHANGED <<count, history>>
  BY <1>5 DEF history
<1>6. ASSUME NEW w \in Waiters,
             \/ \E to \in Timeouts : CallWait(w, to)
             \/ WaiterStep(w) \/ SpuriousWake(w) \/ TimeOut(w)
      PROVE  Claim(w) \/ UNCHANGED <<count, history>>
  BY <1>6 DEF CallWait, WaiterStep, CheckStop, LoadCount, Spin, OnIdle, Recheck,
              Sleep, SpuriousWake, TimeOut
<1>7. ASSUME NEW p \in Producers, Stop(p) \/ WakeOne(p) \/ StopWake(p)
      PROVE  UNCHANGED <<count, history>>
  BY <1>7 DEF Stop, WakeOne, StopWake, history
<1>8. CASE UNCHANGED vars
  BY <1>8 DEF vars, history
<1> QED BY <1>1, <1>2, <1>3, <1>4, <1>5, <1>6, <1>7, <1>8 DEF Next, ProducerStep

\* Units are neither lost nor made up: each that Release or Stop added is in
\* m_count or was granted to one waiter, however their TrySets interleave.
THEOREM NoUnitLost == Spec => []UnitsConserved
<1>1. Init => UnitsConserved
  BY SemaphoreAssumption DEF Init, UnitsConserved
<1> QED BY <1>1, TypeInit, TypeStep, UnitsStep, PTL DEF Spec
-----------------------------------------------------------------------------
(* Wakeups *)

\* There are finitely many wakes to come and waiters awake.
LEMMA Finite ==
  /\ IsFiniteSet(PendingWakes) /\ Cardinality(PendingWakes) \in Nat
  /\ IsFiniteSet(InTransit) /\ Cardinality(InTransit) \in Nat
<1>1. IsFiniteSet(1 .. MaxRelease)
  BY SemaphoreAssumption, FS_Interval
<1>2. IsFiniteSet(Producers \X (1 .. MaxRelease))
  BY <1>1, SemaphoreAssumption, FS_Product
<1>3. IsFiniteSet(PendingWakes)
  BY <1>2, FS_Subset DEF PendingWakes
<1>4. IsFiniteSet(InTransit)
  BY SemaphoreAssumption, FS_Subset DEF InTransit
<1> QED BY <1>3, <1>4, FS_CardinalityType

\* The same of the state after a step.
LEMMA FiniteNext ==
  /\ IsFiniteSet(PendingWakes') /\ Cardinality(PendingWakes') \in Nat
  /\ IsFiniteSet(InTransit') /\ Cardinality(InTransit') \in Nat
<1>1. IsFiniteSet(1 .. MaxRelease)
  BY SemaphoreAssumption, FS_Interval
<1>2. IsFiniteSet(Producers \X (1 .. MaxRelease))
  BY <1>1, SemaphoreAssumption, FS_Product
<1>3. IsFiniteSet(PendingWakes')
  BY <1>2, FS_Subset DEF PendingWakes
<1>4. IsFiniteSet(InTransit')
  BY SemaphoreAssumption, FS_Subset DEF InTransit
<1> QED BY <1>3, <1>4, FS_CardinalityType

\* A step that adds no unit and no sleeper and takes neither a wake to come nor a
\* waiter that is awake loses no wakeup.
LEMMA NothingLost ==
  ASSUME TypeInv, NoLostWakeup, stop' = 0 => stop = 0,
         Asleep' \subseteq Asleep, count' = count,
         PendingWakes \subseteq PendingWakes', InTransit \subseteq InTransit'
  PROVE  NoLostWakeup'
<1>1. /\ Cardinality(PendingWakes) <= Cardinality(PendingWakes')
      /\ Cardinality(InTransit) <= Cardinality(InTransit')
  BY FiniteNext, FS_Subset
<1>2. count \in Nat
  BY DEF TypeInv, TypeOK
<1> QED BY <1>1, <1>2, Finite, FiniteNext DEF NoLostWakeup

\* A waiter that claims a unit was awake and takes one away.
LEMMA ClaimKeeps ==
  ASSUME TypeInv, NoLostWakeup, NEW w \in Waiters, Claim(w)
  PROVE  NoLostWakeup'
<1> USE DEF TypeInv, TypeOK
<1>1. PendingWakes' = PendingWakes /\ stop' = stop
  BY DEF Claim, PendingWakes, producing
<1>2. CASE count = current[w]
  <2>1. count' = count - 1 /\ wpc' = [wpc EXCEPT ![w] = "idle"] /\ wpc[w] = "claim"
    BY <1>2 DEF Claim, GoW
  <2>2. Asleep' = Asleep /\ InTransit' = InTransit \ {w} /\ w \in InTransit
    BY <2>1 DEF Asleep, InTransit
  <2>3. Cardinality(InTransit') = Cardinality(InTransit) - 1
    BY <2>2, Finite, FS_RemoveElement
  <2> QED BY <1>1, <2>1, <2>2, <2>3, Finite DEF NoLostWakeup
<1>3. CASE count # current[w]
  <2>1. count' = count /\ wpc' = [wpc EXCEPT ![w] = "load"] /\ wpc[w] = "claim"
    BY <1>3 DEF Claim, GoW
  <2>2. Asleep' \subseteq Asleep /\ InTransit \subseteq InTransit'
    BY <2>1 DEF Asleep, InTransit
  <2> QED BY <1>1, <2>1, <2>2, NothingLost
<1> QED BY <1>2, <1>3

\* A waiter goes to sleep only when the platform finds no unit.
LEMMA SleepKeeps ==
  ASSUME TypeInv, NoLostWakeup, NEW w \in Waiters, Sleep(w)
  PROVE  NoLostWakeup'
<1> USE DEF TypeInv, TypeOK
<1>1. PendingWakes' = PendingWakes /\ stop' = stop /\ count' = count
  BY DEF Sleep, PendingWakes, producing
<1>2. CASE count = current[w]
  <2>1. count' = 0
    BY <1>1, <1>2 DEF Sleep, Places
  <2> QED BY <2>1, FiniteNext DEF NoLostWakeup
<1>3. CASE count # current[w]
  <2>1. wpc' = [wpc EXCEPT ![w] = "recheck"] /\ wpc[w] = "sleep"
    BY <1>3 DEF Sleep, GoW
  <2>2. Asleep' \subseteq Asleep /\ InTransit \subseteq InTransit'
    BY <2>1 DEF Asleep, InTransit
  <2> QED BY <1>1, <2>2, NothingLost
<1> QED BY <1>2, <1>3

\* The other steps of a waiter leave it awake, or wake it, or m_stop is set.
LEMMA WaiterKeeps ==
  ASSUME TypeInv, NoLostWakeup, NEW w \in Waiters,
         \/ \E to \in Timeouts : CallWait(w, to)
         \/ WaiterStep(w) \/ SpuriousWake(w) \/ TimeOut(w)
  PROVE  NoLostWakeup'
<1>0. CASE Claim(w) \/ Sleep(w)
  BY <1>0, ClaimKeeps, SleepKeeps
<1>1. CASE CheckStop(w) /\ stop = 1
  BY <1>1 DEF CheckStop, NoLostWakeup
<1>2. CASE ~(Claim(w) \/ Sleep(w) \/ (CheckStop(w) /\ stop = 1))
  <2>1. PendingWakes' = PendingWakes /\ count' = count /\ stop' = stop
    BY <1>2 DEF CallWait, WaiterStep, CheckStop, LoadCount, Spin, OnIdle, Recheck,
                SpuriousWake, TimeOut, PendingWakes, producing
  <2>2. \/ wpc[w] \in {"idle", "stop", "load", "spin", "onidle", "recheck"}
              /\ \E l \in {"stop", "load", "claim", "spin", "onidle", "recheck", "sleep"} :
                   wpc' = [wpc EXCEPT ![w] = l]
        \/ wpc[w] = "asleep" /\ \E l \in {"recheck", "idle"} : wpc' = [wpc EXCEPT ![w] = l]
    BY <1>2 DEF CallWait, WaiterStep, CheckStop, LoadCount, Spin, OnIdle, Recheck,
                SpuriousWake, TimeOut, GoW
  <2>3. Asleep' \subseteq Asleep /\ InTransit \subseteq InTransit'
    BY <2>2 DEF Asleep, InTransit, TypeInv, TypeOK
  <2> QED BY <2>1, <2>3, NothingLost
<1> QED BY <1>0, <1>1, <1>2

\* A product with a singleton has as many elements as the other factor.
LEMMA OneColumn ==
  ASSUME NEW p, NEW n \in Nat
  PROVE  IsFiniteSet({p} \X (1 .. n)) /\ Cardinality({p} \X (1 .. n)) = n
<1> DEFINE S == {p}
           T == 1 .. n
<1>1. IsFiniteSet(T) /\ Cardinality(T) = n
  BY FS_Interval
<1>2. IsFiniteSet(S) /\ Cardinality(S) = 1
  BY FS_Singleton
<1> HIDE DEF S, T
<1>3. IsFiniteSet(S \X T) /\ Cardinality(S \X T) = Cardinality(S) * Cardinality(T)
  BY <1>1, <1>2, FS_Product
<1>4. Cardinality(S \X T) = n
  BY <1>1, <1>2, <1>3
<1> QED BY <1>3, <1>4 DEF S, T

\* The n units of a Release come with n calls of WakeOne.
LEMMA ReleaseKeeps ==
  ASSUME TypeInv, NoLostWakeup, NEW p \in Producers, NEW n \in 1 .. MaxRelease,
         Release(p, n)
  PROVE  NoLostWakeup'
<1> USE DEF TypeInv, TypeOK
<1>1. /\ ppc[p] = "idle" /\ ppc' = [ppc EXCEPT ![p] = "wake"]
      /\ wakes' = [wakes EXCEPT ![p] = n]
      /\ count' = count + n /\ stop' = stop
      /\ Asleep' = Asleep /\ InTransit' = InTransit
  BY DEF Release, GoP, waiting, Asleep, InTransit
<1> DEFINE New == {p} \X (1 .. n)
<1>2. PendingWakes' = PendingWakes \cup New /\ PendingWakes \cap New = {}
  BY <1>1, SemaphoreAssumption DEF PendingWakes
<1>3. IsFiniteSet(New) /\ Cardinality(New) = n
  <2>1. n \in Nat
    OBVIOUS
  <2> QED BY <2>1, OneColumn
<1>4. Cardinality(PendingWakes \cup New) = Cardinality(PendingWakes) + n
  <2>1. Cardinality(PendingWakes \cap New) = 0
    BY <1>2, FS_EmptySet
  <2> HIDE DEF New
  <2>2. Cardinality(PendingWakes \cup New) = Cardinality(PendingWakes) + Cardinality(New) - 0
    BY <1>3, <2>1, Finite, FS_Union
  <2> QED BY <1>3, <2>2, Finite
<1>5. Cardinality(PendingWakes') = Cardinality(PendingWakes) + n
  BY <1>2, <1>4
<1> QED BY <1>1, <1>5, Finite DEF NoLostWakeup

\* A WakeOne wakes a waiter, unless none sleeps.
LEMMA WakeOneKeeps ==
  ASSUME TypeInv, NoLostWakeup, NEW p \in Producers, WakeOne(p)
  PROVE  NoLostWakeup'
<1> USE DEF TypeInv, TypeOK
<1>1. /\ ppc[p] = "wake" /\ wakes[p] \in 1 .. MaxRelease
      /\ ppc' = [ppc EXCEPT ![p] = IF wakes[p] > 1 THEN "wake" ELSE "idle"]
      /\ wakes' = [wakes EXCEPT ![p] = @ - 1] /\ count' = count /\ stop' = stop
  BY DEF WakeOne, GoP, Places
<1>2. CASE Asleep = {}
  BY <1>2 DEF WakeOne, Asleep, NoLostWakeup
<1>3. CASE Asleep # {}
  <2>1. PICK w \in Asleep : wpc' = [wpc EXCEPT ![w] = "recheck"]
    BY <1>3 DEF WakeOne, GoW
  <2>2. InTransit' = InTransit \cup {w} /\ w \notin InTransit
    BY <2>1 DEF InTransit, Asleep
  <2>3. Cardinality(InTransit') = Cardinality(InTransit) + 1
    BY <2>2, Finite, FS_AddElement
  <2>4. PendingWakes' = PendingWakes \ {<<p, wakes[p]>>}
    BY <1>1, SemaphoreAssumption DEF PendingWakes
  <2>5. <<p, wakes[p]>> \in PendingWakes
    BY <1>1 DEF PendingWakes
  <2>6. Cardinality(PendingWakes') = Cardinality(PendingWakes) - 1
    BY <2>4, <2>5, Finite, FS_RemoveElement
  <2> QED BY <1>1, <1>3, <2>3, <2>6, Finite DEF NoLostWakeup
<1> QED BY <1>2, <1>3

\* Every action keeps the wakeups: after a Stop the property claims nothing, and
\* Reset is called when nobody sleeps.
LEMMA WakeupsStep ==
  TypeInv /\ NoLostWakeup /\ [Next]_vars => NoLostWakeup'
<1> SUFFICES ASSUME TypeInv, NoLostWakeup, [Next]_vars PROVE NoLostWakeup'
  OBVIOUS
<1>1. ASSUME NEW p \in Producers, Stop(p) \/ StopAdd(p) \/ StopWake(p)
      PROVE  NoLostWakeup'
  <2>1. stop' = 1
    BY <1>1 DEF Stop, StopAdd, StopWake, TypeInv, Places
  <2> QED BY <2>1 DEF NoLostWakeup
<1>2. CASE Reset
  <2>1. Asleep' = {}
    BY <1>2 DEF Reset, Asleep, waiting
  <2> QED BY <2>1 DEF NoLostWakeup
<1>3. CASE UNCHANGED vars
  <2>1. /\ Asleep' = Asleep /\ InTransit' = InTransit /\ PendingWakes' = PendingWakes
        /\ count' = count /\ stop' = stop
    BY <1>3 DEF vars, waiting, producing, Asleep, InTransit, PendingWakes
  <2> QED BY <2>1 DEF NoLostWakeup
<1> QED BY <1>1, <1>2, <1>3, WaiterKeeps, ReleaseKeeps, WakeOneKeeps DEF Next, ProducerStep

\* No wakeup is lost: while a waiter sleeps, each unit of m_count is matched by a
\* WakeOne that Release still has to make or by a waiter that is awake and will
\* look at m_count again before it sleeps.
THEOREM WakeupsKept == Spec => []NoLostWakeup
<1>1. Init => NoLostWakeup
  BY DEF Init, NoLostWakeup, Asleep
<1> QED BY <1>1, TypeInit, TypeStep, WakeupsStep, PTL DEF Spec
=============================================================================
