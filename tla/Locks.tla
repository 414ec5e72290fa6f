-------------------------------- MODULE Locks --------------------------------
(***************************************************************************)
(* Threading/SpinLock.h, SlimLock.h, Mutex.h and Semaphore.h with their    *)
(* guards EnterSpinLock, EnterSlimLock and EnterMutex.  SpinLock is an     *)
(* atomic bool; the others forward to the platform, whose locks are        *)
(* modelled by what they promise.                                          *)
(***************************************************************************)
EXTENDS Integers, FiniteSets

CONSTANTS
  Threads,
  LockKinds, \* which of "spin", "slim", "mutex" and "semaphore" are used
  Units,     \* the initial value of the semaphore
  MaxUnits,  \* the most units it may have, 0x7FFFFFFF
  MaxNested  \* bound: the guards a thread has on a Mutex

VARIABLES
  lock,    \* the kind of the lock in this behaviour
  locked,  \* m_locked of the SpinLock
  owner,   \* who holds m_mutex, or m_slimlock alone; a set of at most one
  sharers, \* who shares m_slimlock
  units,   \* m_sema
  issued,  \* history: units given to the semaphore, less those used up
  at,      \* where each thread is in its call, or inside
  guards   \* the guards of each thread: how many, and their mode (_exclusive)

vars == <<lock, locked, owner, sharers, units, issued, at, guards>>

NoGuard == [count |-> 0, exclusive |-> TRUE]
Go(t, place) == at' = [at EXCEPT ![t] = place]
Guarded(t, exclusive) ==
  guards' = [guards EXCEPT ![t] = [count |-> @.count + 1, exclusive |-> exclusive]]

\* EnterSpinLock, EnterSlimLock, EnterMutex or Wait is called; a guard that
\* holds its lock already is not entered again, but a Mutex may have several
Enter(t, exclusive) ==
  /\ \/ at[t] = "idle"
     \/ at[t] = "inside" /\ lock = "mutex" /\ guards[t].count < MaxNested
  /\ exclusive \/ lock = "slim"
  /\ Go(t, IF lock = "spin" THEN "try" ELSE IF exclusive THEN "wait" ELSE "wait shared")
  /\ UNCHANGED <<lock, locked, owner, sharers, units, issued, guards>>
----------------------------------------------------------------------------
(* SpinLock *)

\* m_locked.TrySet(true, false)
TryEnter(t) ==
  /\ at[t] = "try"
  /\ \/ ~locked /\ locked' = TRUE /\ Go(t, "inside") /\ Guarded(t, TRUE)
     \/ locked /\ Go(t, "spin") /\ UNCHANGED <<locked, guards>>
  /\ UNCHANGED <<lock, owner, sharers, units, issued>>

\* mutant: the load that ends the spinning is never made again
Spin_Once(t) ==
  /\ at[t] = "spin" /\ at' = at
  /\ UNCHANGED <<lock, locked, owner, sharers, units, issued, guards>>

\* while (m_locked.Get())
Spin(t) ==
  /\ at[t] = "spin" /\ ~locked /\ Go(t, "try")
  /\ UNCHANGED <<lock, locked, owner, sharers, units, issued, guards>>

\* the caller of TryEnter does not go on
GiveUp(t) ==
  /\ at[t] = "spin" /\ Go(t, "idle")
  /\ UNCHANGED <<lock, locked, owner, sharers, units, issued, guards>>
----------------------------------------------------------------------------
(* What the platform grants: EnterCriticalSection, which its owner may call *)
(* again, AcquireSRWLockExclusive and Shared, WaitForSingleObject           *)

CanTake(t) ==
  \/ at[t] = "wait shared" /\ owner = {}
  \/ at[t] = "wait" /\ lock = "slim" /\ owner = {} /\ sharers = {}
  \/ lock = "mutex" /\ owner \subseteq {t}
  \/ lock = "semaphore" /\ units > 0

Granted(t) ==
  /\ at[t] \in {"wait", "wait shared"} /\ CanTake(t)
  /\ owner' = IF lock \in {"slim", "mutex"} /\ at[t] = "wait" THEN {t} ELSE owner
  /\ sharers' = IF at[t] = "wait shared" THEN sharers \cup {t} ELSE sharers
  /\ units' = IF lock = "semaphore" THEN units - 1 ELSE units
  /\ Go(t, "inside") /\ Guarded(t, at[t] = "wait")
  /\ UNCHANGED <<lock, locked, issued>>

\* Semaphore::Wait times out, or a TryEnter fails
TimeOut(t) ==
  /\ at[t] \in {"wait", "wait shared"} /\ ~CanTake(t) /\ Go(t, "idle")
  /\ UNCHANGED <<lock, locked, owner, sharers, units, issued, guards>>
----------------------------------------------------------------------------
\* the Leave of a guard, in the mode it remembers; what a thread waited for with a
\* semaphore is done, and its unit used up
Leave(t) ==
  /\ at[t] = "inside"
  /\ locked' = IF lock = "spin" THEN FALSE ELSE locked
  /\ owner' = IF guards[t].exclusive /\ guards[t].count = 1 THEN {} ELSE owner
  /\ sharers' = IF guards[t].exclusive THEN sharers ELSE sharers \ {t}
  /\ issued' = IF lock = "semaphore" THEN issued - 1 ELSE issued
  /\ guards' = IF guards[t].count > 1 THEN [guards EXCEPT ![t].count = @ - 1]
               ELSE [guards EXCEPT ![t] = NoGuard]
  /\ Go(t, IF guards[t].count = 1 THEN "idle" ELSE "inside")
  /\ UNCHANGED <<lock, units>>

\* Semaphore::Release, by any thread whether it ever waited or not; a Release of
\* more than the semaphore may have does nothing
Release(n) ==
  /\ lock = "semaphore" /\ units + n <= MaxUnits
  /\ units' = units + n /\ issued' = issued + n
  /\ UNCHANGED <<lock, locked, owner, sharers, at, guards>>

\* Semaphore::Init, which nobody may be waiting for: another semaphore
InitAgain(n) ==
  /\ lock = "semaphore" /\ \A t \in Threads : at[t] # "wait"
  /\ units' = n /\ issued' = (issued - units) + n
  /\ UNCHANGED <<lock, locked, owner, sharers, at, guards>>

IsHeld(t) == t \in owner
----------------------------------------------------------------------------
Init ==
  /\ lock \in LockKinds /\ locked = FALSE /\ owner = {} /\ sharers = {} /\ units = Units /\ issued = Units
  /\ at = [t \in Threads |-> "idle"] /\ guards = [t \in Threads |-> NoGuard]

Step(t) == TryEnter(t) \/ Spin(t) \/ Granted(t) \/ Leave(t)

Next ==
  \/ \E t \in Threads :
       (\E exclusive \in BOOLEAN : Enter(t, exclusive)) \/ Step(t) \/ GiveUp(t) \/ TimeOut(t)
  \/ \E n \in 1 .. MaxUnits : Release(n)
  \/ \E n \in 0 .. MaxUnits : InitAgain(n)

\* every thread runs on, and leaves what it entered; nobody need Release
Fairness == \A t \in Threads : WF_vars(Step(t))
----------------------------------------------------------------------------
Inside(t) == guards[t].count > 0

\* Every value is in its range.
TypeOK ==
  /\ locked \in BOOLEAN /\ owner \subseteq Threads /\ sharers \subseteq Threads
  /\ units \in 0 .. MaxUnits
  /\ \A t \in Threads :
       /\ at[t] \in {"idle", "try", "spin", "wait", "wait shared", "inside"}
       /\ guards[t].count \in 0 .. MaxNested

\* Two threads are inside together only when they share a SlimLock or have units
\* of a Semaphore, of which no Wait takes one that was not given to it; IsHeld of
\* a Mutex is true for the thread inside and for no other.
Exclusion ==
  /\ \A t, u \in Threads :
       t # u /\ Inside(t) /\ Inside(u) =>
         \/ lock = "slim" /\ ~guards[t].exclusive /\ ~guards[u].exclusive
         \/ lock = "semaphore"
  /\ lock = "semaphore" => units + Cardinality({t \in Threads : Inside(t)}) = issued
  /\ lock = "mutex" => \A t \in Threads : IsHeld(t) <=> Inside(t)

\* A lock that threads wait for does not stay free, nor does a Semaphore keep its
\* units from them: one of them gets in.
SomeoneEnters ==
  ((\E t \in Threads : at[t] \in {"try", "spin", "wait", "wait shared"})
     /\ (lock = "semaphore" => units > 0)) ~>
    \E t \in Threads : Inside(t) \/ \A u \in Threads : at[u] = "idle"
=============================================================================
