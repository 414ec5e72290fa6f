--------------------------- MODULE AtomicSemaphore ---------------------------
(***************************************************************************)
(* Threading/AtomicSemaphore.h: a counting semaphore made of one atomic    *)
(* count, a stop flag and the wait on an address of the platform (a futex).*)
(* A waiter is in SpinWait, and inside it in Atomic::Wait; a producer is   *)
(* in Release or in Stop.  One action is one access of m_count or m_stop,  *)
(* or one call of the platform.                                            *)
(***************************************************************************)
EXTENDS Integers, FiniteSets

CONSTANTS
  Waiters,      \* threads that call Wait or SpinWait
  Producers,    \* threads that call Release, Stop and Reset
  Initial,      \* the constructor's initialValue
  SpinCount,    \* spinCount of SpinWait; Wait passes 0
  Timeouts,     \* what "timeout" may be: {"forever"}, {"finite"} or both
  IdleAnswers,  \* what onIdle may return; {TRUE} is also a null onIdle
  Spurious,     \* TRUE when futexWait may return with nobody having woken it
  MaxRelease,   \* bound: units of one Release
  MaxReleased,  \* bound: units released since the last Reset
  MaxStops      \* bound: calls of Stop since the last Reset

ASSUME SemaphoreAssumption ==
  /\ IsFiniteSet(Waiters) /\ IsFiniteSet(Producers)
  /\ Initial \in Nat /\ SpinCount \in Nat /\ MaxRelease \in Nat
  /\ Timeouts \subseteq {"forever", "finite"} /\ IdleAnswers \subseteq BOOLEAN
  /\ Spurious \in BOOLEAN
  /\ MaxReleased \in Nat /\ MaxStops \in Nat

VARIABLES
  count,     \* m_count, under 2^32 by the bounds
  stop,      \* m_stop
  wpc,       \* where each waiter is
  current,   \* current of SpinWait
  timeout,   \* timeout of the call of each waiter
  spins,     \* spins left before going to sleep
  ppc,       \* where each producer is
  wakes,     \* n in the loop of Release
  released,  \* history: units added by Release since the last Reset
  granted,   \* history: calls that returned true since the last Reset
  stops      \* history: units added by Stop since the last Reset

waiting == <<wpc, current, timeout, spins>>
producing == <<ppc, wakes>>
history == <<released, granted, stops>>
vars == <<count, stop, waiting, producing, history>>

Asleep == {w \in Waiters : wpc[w] = "asleep"}

GoW(w, label) == wpc' = [wpc EXCEPT ![w] = label]
GoP(p, label) == ppc' = [ppc EXCEPT ![p] = label]
-----------------------------------------------------------------------------
(* SpinWait *)

CallWait(w, to) ==
  /\ wpc[w] = "idle"
  /\ timeout' = [timeout EXCEPT ![w] = to]
  /\ GoW(w, "stop")
  /\ UNCHANGED <<count, stop, current, spins, producing, history>>

\* The head of the loop: "if (m_stop.Get()) return false".
CheckStop(w) ==
  /\ wpc[w] = "stop"
  /\ GoW(w, IF stop = 1 THEN "idle" ELSE "load")
  /\ UNCHANGED <<count, stop, current, timeout, spins, producing, history>>

\* current = m_count.Get(), on the way in and after a failed TrySet
LoadCount(w) ==
  /\ wpc[w] = "load"
  /\ current' = [current EXCEPT ![w] = count]
  /\ spins' = [spins EXCEPT ![w] = SpinCount]
  /\ GoW(w, IF count > 0 THEN "claim" ELSE IF SpinCount > 0 THEN "spin" ELSE "onidle")
  /\ UNCHANGED <<count, stop, timeout, producing, history>>

\* mutant: the count is decremented without the comparison
Claim_NoCompare(w) ==
  /\ wpc[w] = "claim"
  /\ count' = current[w] - 1 /\ granted' = granted + 1 /\ GoW(w, "idle")
  /\ UNCHANGED <<stop, current, timeout, spins, producing, released, stops>>

\* m_count.TrySet(current - 1, current)
Claim(w) ==
  /\ wpc[w] = "claim"
  /\ IF count = current[w]
     THEN count' = current[w] - 1 /\ granted' = granted + 1 /\ GoW(w, "idle")
     ELSE GoW(w, "load") /\ UNCHANGED <<count, granted>>
  /\ UNCHANGED <<stop, current, timeout, spins, producing, released, stops>>

\* Thread::Yield() and current = m_count.Get() of the spin loop
Spin(w) ==
  /\ wpc[w] = "spin"
  /\ current' = [current EXCEPT ![w] = count]
  /\ spins' = [spins EXCEPT ![w] = @ - 1]
  /\ GoW(w, IF count > 0 THEN "stop" ELSE IF spins[w] > 1 THEN "spin" ELSE "onidle")
  /\ UNCHANGED <<count, stop, timeout, producing, history>>

\* "if (onIdle && !onIdle(user)) continue"
OnIdle(w, answer) ==
  /\ wpc[w] = "onidle"
  /\ GoW(w, IF answer THEN "recheck" ELSE "stop")
  /\ UNCHANGED <<count, stop, current, timeout, spins, producing, history>>
-----------------------------------------------------------------------------
(* Atomic::Wait(current, timeout), with current = 0 *)

\* current = Get(), on the way in and after every return of futexWait
Recheck(w) ==
  /\ wpc[w] = "recheck"
  /\ GoW(w, IF count = current[w] THEN "sleep" ELSE "stop")
  /\ UNCHANGED <<count, stop, current, timeout, spins, producing, history>>

\* mutant: the platform goes to sleep without comparing the value again
Sleep_NoCompare(w) ==
  /\ wpc[w] = "sleep"
  /\ GoW(w, "asleep")
  /\ UNCHANGED <<count, stop, current, timeout, spins, producing, history>>

\* futexWait: compares the value and sleeps in one step of the platform
Sleep(w) ==
  /\ wpc[w] = "sleep"
  /\ GoW(w, IF count = current[w] THEN "asleep" ELSE "recheck")
  /\ UNCHANGED <<count, stop, current, timeout, spins, producing, history>>

\* futexWait returns true although nobody woke the address
SpuriousWake(w) ==
  /\ Spurious /\ wpc[w] = "asleep"
  /\ GoW(w, "recheck")
  /\ UNCHANGED <<count, stop, current, timeout, spins, producing, history>>

\* futexWait returns false, and SpinWait does
TimeOut(w) ==
  /\ wpc[w] = "asleep" /\ timeout[w] = "finite"
  /\ GoW(w, "idle")
  /\ UNCHANGED <<count, stop, current, timeout, spins, producing, history>>
-----------------------------------------------------------------------------
(* Release, Stop and Reset *)

\* The call of Release(n), with its m_count.Add(n)
Release(p, n) ==
  /\ ppc[p] = "idle"
  /\ released + n <= MaxReleased
  /\ count' = count + n /\ released' = released + n
  /\ wakes' = [wakes EXCEPT ![p] = n]
  /\ GoP(p, "wake")
  /\ UNCHANGED <<stop, waiting, granted, stops>>

\* mutant: one WakeOne for all the units of a Release
WakeOne_Once(p) ==
  /\ ppc[p] = "wake"
  /\ wakes' = [wakes EXCEPT ![p] = 0]
  /\ GoP(p, "idle")
  /\ IF Asleep = {} THEN UNCHANGED wpc ELSE \E w \in Asleep : GoW(w, "recheck")
  /\ UNCHANGED <<count, stop, current, timeout, spins, history>>

\* mutant: one turn too many
WakeOne_OneTooMany(p) ==
  /\ ppc[p] = "wake"
  /\ wakes' = [wakes EXCEPT ![p] = @ - 1]
  /\ GoP(p, IF wakes[p] >= 0 THEN "wake" ELSE "idle")
  /\ IF Asleep = {} THEN UNCHANGED wpc ELSE \E w \in Asleep : GoW(w, "recheck")
  /\ UNCHANGED <<count, stop, current, timeout, spins, history>>

\* one turn of "while (n-- > 0) m_count.WakeOne()"; the platform picks the waiter
WakeOne(p) ==
  /\ ppc[p] = "wake"
  /\ wakes' = [wakes EXCEPT ![p] = @ - 1]
  /\ GoP(p, IF wakes[p] > 1 THEN "wake" ELSE "idle")
  /\ IF Asleep = {} THEN UNCHANGED wpc ELSE \E w \in Asleep : GoW(w, "recheck")
  /\ UNCHANGED <<count, stop, current, timeout, spins, history>>

\* The call of Stop, with its m_stop.Set(1)
Stop(p) ==
  /\ ppc[p] = "idle"
  /\ stops + Cardinality({q \in Producers : ppc[q] = "stopAdd"}) < MaxStops
  /\ stop' = 1
  /\ GoP(p, "stopAdd")
  /\ UNCHANGED <<count, waiting, wakes, history>>

\* m_count.Add(1)
StopAdd(p) ==
  /\ ppc[p] = "stopAdd"
  /\ count' = count + 1 /\ stops' = stops + 1
  /\ GoP(p, "stopWake")
  /\ UNCHANGED <<stop, waiting, wakes, released, granted>>

\* m_count.WakeAll()
StopWake(p) ==
  /\ ppc[p] = "stopWake"
  /\ wpc' = [w \in Waiters |-> IF w \in Asleep THEN "recheck" ELSE wpc[w]]
  /\ GoP(p, "idle")
  /\ UNCHANGED <<count, stop, current, timeout, spins, wakes, history>>

\* Reset's caller has seen every waiter and producer return.
Reset ==
  /\ \A w \in Waiters : wpc[w] = "idle"
  /\ \A p \in Producers : ppc[p] = "idle"
  /\ stop' = 0 /\ count' = 0
  /\ released' = 0 /\ granted' = 0 /\ stops' = 0
  /\ UNCHANGED <<waiting, producing>>
-----------------------------------------------------------------------------
Init ==
  /\ count = Initial /\ stop = 0
  /\ wpc = [w \in Waiters |-> "idle"]
  /\ current = [w \in Waiters |-> 0]
  /\ timeout = [w \in Waiters |-> "forever"]
  /\ spins = [w \in Waiters |-> 0]
  /\ ppc = [p \in Producers |-> "idle"]
  /\ wakes = [p \in Producers |-> 0]
  \* initialValue is counted as released, so that Reset to 0 is the same state
  /\ released = Initial /\ granted = 0 /\ stops = 0

WaiterStep(w) ==
  \/ CheckStop(w) \/ LoadCount(w) \/ Claim(w) \/ Spin(w)
  \/ \E answer \in IdleAnswers : OnIdle(w, answer)
  \/ Recheck(w) \/ Sleep(w)

ProducerStep(p) == WakeOne(p) \/ StopAdd(p) \/ StopWake(p)

Next ==
  \/ \E w \in Waiters, to \in Timeouts : CallWait(w, to)
  \/ \E w \in Waiters : WaiterStep(w) \/ SpuriousWake(w) \/ TimeOut(w)
  \/ \E p \in Producers, n \in 1 .. MaxRelease : Release(p, n)
  \/ \E p \in Producers : Stop(p) \/ ProducerStep(p)
  \/ Reset

Spec == Init /\ [][Next]_vars

\* Runnable threads run.  A sleeping thread is owed nothing: it runs again
\* when somebody wakes it; no spurious wake and no timeout is assumed.
FairSpec ==
  /\ Spec
  /\ \A w \in Waiters : WF_vars(WaiterStep(w))
  /\ \A p \in Producers : WF_vars(ProducerStep(p))
-----------------------------------------------------------------------------
(* Properties *)

\* Types; m_count never falls below 0, where as a uint32_t it would wrap.
TypeOK ==
  /\ count \in Nat /\ stop \in {0, 1}
  /\ wpc \in [Waiters -> {"idle", "stop", "load", "claim", "spin", "onidle",
                          "recheck", "sleep", "asleep"}]
  /\ current \in [Waiters -> Nat]
  /\ timeout \in [Waiters -> {"forever", "finite"}]
  /\ spins \in [Waiters -> Nat]
  /\ ppc \in [Producers -> {"idle", "wake", "stopAdd", "stopWake"}]
  /\ wakes \in [Producers -> Nat]
  /\ released \in Nat /\ granted \in Nat /\ stops \in Nat

\* Every unit is granted to one waiter: what SpinWait's loop of TrySet took out
\* of m_count is what Release and Stop put into it.
UnitsConserved == count + granted = released + stops

\* the calls of WakeOne that Releases in progress have left, the waiters awake
PendingWakes ==
  {call \in Producers \X (1 .. MaxRelease) :
     ppc[call[1]] = "wake" /\ call[2] <= wakes[call[1]]}
InTransit == {w \in Waiters : wpc[w] \notin {"idle", "asleep"}}

\* No wakeup is lost: while a waiter sleeps, each unit of m_count is matched
\* by a WakeOne that Release still has to make or by a waiter that is awake
\* and will look at m_count again before it sleeps.
NoLostWakeup ==
  Asleep # {} /\ stop = 0 =>
    count <= Cardinality(PendingWakes) + Cardinality(InTransit)

\* A unit does not lie in m_count while a waiter sleeps on it: some waiter
\* gets it, whatever spins, times out or is woken for nothing in between.
UnitsDelivered ==
  \A w \in Waiters :
    count > 0 /\ wpc[w] # "idle" ~> count = 0 \/ wpc[w] = "idle" \/ stop = 1

\* Stop unblocks the waiters: test/TestAtomicSemaphore.cpp:66, "AtomicSemaphore
\* Stop Unblocks Waiter", and the comment in Stop, "force a real value change
\* so any parked CAtomic::Wait() unblocks".
StopUnblocks == \A w \in Waiters : stop = 1 /\ wpc[w] # "idle" ~> wpc[w] = "idle"
=============================================================================
