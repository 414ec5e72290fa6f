----------------------------- MODULE ThreadLocals -----------------------------
(***************************************************************************)
(* Threading/Thread.h and ThreadLocal.h over the thread and TLS calls of   *)
(* Platform/Win.h: a Thread object is started, runs, deletes its           *)
(* thread-local objects under the mutex of the list of slots, and is       *)
(* joined; it may then be started again.                                   *)
(***************************************************************************)
EXTENDS Integers, Sequences, FiniteSets

CONSTANTS
  Threads,   \* the Thread objects
  Slots,     \* the ThreadLocal objects
  Objects,   \* addresses of the T's
  NULL,      \* the null pointer
  MaxStarts  \* bound: times that threads are started

VARIABLES
  run,     \* the thread of the platform: where it is
  handle,  \* whether m_thread is open
  slot,    \* each ThreadLocal: what of it is constructed or destructed
  slots,   \* m_slots
  tls,     \* what each thread has at the index of each slot
  live,    \* the T's that exist
  mutex,   \* the thread in FreeAll with m_mx
  next,    \* i of FreeAll
  starts,  \* how many times a thread was started
  orphans, \* history: the T's of threads whose slot was destroyed under them
  calm     \* history: slots were made and destroyed only while no thread was there

vars == <<run, handle, slot, slots, tls, live, mutex, next, starts, orphans, calm>>

Go(t, place) == run' = [run EXCEPT ![t] = place]
NoTls == [s \in Slots |-> NULL]
InFreeAll == {"freeing", "calling", "lost"}

\* the places in m_slots that the FreeAll of t has still to come to
Ahead(t) ==
  IF run[t] \in {"suspended", "running", "ending"} THEN DOMAIN slots
  ELSE IF run[t] \in InFreeAll THEN next .. Len(slots) ELSE {}
----------------------------------------------------------------------------
(* Who makes and destroys ThreadLocals.  One that is in m_slots before its *)
(* constructor is through, or after its destructor began, has no Free of   *)
(* its own: a call of it is a pure virtual call and ends the program.      *)

Quiet == \A t \in Threads : run[t] \in {"none", "exited"}
Turn(s, state) == slot' = [slot EXCEPT ![s] = state] /\ calm' = (calm /\ Quiet)

\* ThreadLocalBase(): tlsAlloc, and m_slots.Add under the mutex
MakeSlot(s) ==
  /\ slot[s] = "gone" /\ mutex = NULL /\ Turn(s, "made")
  /\ slots' = Append(slots, s)
  /\ UNCHANGED <<run, handle, tls, live, mutex, next, starts, orphans>>

\* ThreadLocal()
FinishSlot(s) ==
  /\ slot[s] = "made" /\ Turn(s, "whole")
  /\ UNCHANGED <<run, handle, slots, tls, live, mutex, next, starts, orphans>>

\* ~ThreadLocal(), and tlsFree: what threads had at the index is out of reach
FreeIndex(s) ==
  /\ slot[s] = "whole" /\ Turn(s, "unmade")
  /\ tls' = [t \in Threads |-> [tls[t] EXCEPT ![s] = NULL]]
  /\ orphans' = orphans \cup
       ({tls[t][s] : t \in {t \in Threads : \E i \in Ahead(t) : slots[i] = s}} \ {NULL})
  /\ UNCHANGED <<run, handle, slots, live, mutex, next, starts>>

\* m_slots.Remove under the mutex
DestroySlot(s) ==
  /\ slot[s] = "unmade" /\ mutex = NULL /\ Turn(s, "gone")
  /\ \E i \in DOMAIN slots :
       /\ slots[i] = s
       /\ slots' = [j \in 1 .. Len(slots) - 1 |-> IF j < i THEN slots[j] ELSE slots[j + 1]]
  /\ UNCHANGED <<run, handle, tls, live, mutex, next, starts, orphans>>
----------------------------------------------------------------------------
(* Who starts threads and waits for them *)

\* Start: threadStart makes a suspended thread, of which the handle is kept; when
\* it makes none, whatever Start returns, the Thread stays as it is
Start(t) ==
  /\ ~handle[t] /\ starts < MaxStarts
  /\ Go(t, "suspended") /\ handle' = [handle EXCEPT ![t] = TRUE]
  /\ starts' = starts + 1
  /\ calm' = (calm /\ \A s \in Slots : slot[s] \in {"gone", "whole"})
  /\ UNCHANGED <<slot, slots, tls, live, mutex, next, orphans>>

\* SetPriority, SetDescription, threadResume
Resume(t) ==
  /\ run[t] = "suspended" /\ Go(t, "running")
  /\ UNCHANGED <<handle, slot, slots, tls, live, mutex, next, starts, orphans, calm>>

\* Join: WaitForSingleObject waits for the end of the thread, and the handle is
\* closed; while it waits, and when it times out, nothing changes
Join(t) ==
  /\ handle[t] /\ run[t] = "exited" /\ handle' = [handle EXCEPT ![t] = FALSE]
  /\ UNCHANGED <<run, slot, slots, tls, live, mutex, next, starts, orphans, calm>>
----------------------------------------------------------------------------
(* The threads *)

\* Get of an existing object, or of a new one that is Set; a call of Set by the
\* program itself leaves the object it replaces to the program (bound: an address
\* is left for the object that a Free makes)
Get(t, s) ==
  /\ run[t] = "running" /\ slot[s] = "whole" /\ tls[t][s] = NULL
  /\ Cardinality(Objects \ live) > 1
  /\ \E p \in Objects \ live :
       /\ live' = live \cup {p}
       /\ tls' = [tls EXCEPT ![t][s] = p]
  /\ UNCHANGED <<run, handle, slot, slots, mutex, next, starts, orphans, calm>>

ThreadProcReturns(t) ==
  /\ run[t] = "running" /\ Go(t, "ending")
  /\ UNCHANGED <<handle, slot, slots, tls, live, mutex, next, starts, orphans, calm>>

\* FreeAll: EnterMutex
EnterFreeAll(t) ==
  /\ run[t] = "ending" /\ mutex = NULL
  /\ mutex' = t /\ next' = 1 /\ Go(t, "freeing")
  /\ UNCHANGED <<handle, slot, slots, tls, live, starts, orphans, calm>>

\* m_slots[i]->Free(), the call: what it calls depends on the slot
CallFree(t) ==
  /\ run[t] = "freeing" /\ next <= Len(slots)
  /\ Go(t, IF slot[slots[next]] = "whole" THEN "calling" ELSE "lost")
  /\ UNCHANGED <<handle, slot, slots, tls, live, mutex, next, starts, orphans, calm>>

\* mutant: Free deletes what the thread holds in the first slot
Free_First(t) ==
  /\ run[t] = "calling" /\ slot[slots[next]] = "whole"
  /\ live' = live \ {tls[t][slots[1]]} /\ next' = next + 1 /\ Go(t, "freeing")
  /\ UNCHANGED <<handle, slot, slots, tls, mutex, starts, orphans, calm>>

\* delete Get(), of an object that Get makes for it when the thread has none; the
\* slot of the thread keeps pointing at it
Free(t) ==
  /\ run[t] = "calling" /\ slot[slots[next]] = "whole"
  /\ LET s == slots[next]
     IN  \E p \in IF tls[t][s] = NULL THEN Objects \ live ELSE {tls[t][s]} :
           live' = live \ {p} /\ tls' = [tls EXCEPT ![t][s] = p]
  /\ next' = next + 1 /\ Go(t, "freeing")
  /\ UNCHANGED <<handle, slot, slots, mutex, starts, orphans, calm>>

\* the slot went while it was called
FreeLost(t) ==
  /\ run[t] = "calling" /\ slot[slots[next]] # "whole" /\ Go(t, "lost")
  /\ UNCHANGED <<handle, slot, slots, tls, live, mutex, next, starts, orphans, calm>>

\* the mutex is left and the thread returns, and with it its TLS
Exit(t) ==
  /\ run[t] = "freeing" /\ next > Len(slots)
  /\ mutex' = NULL /\ next' = 1 /\ Go(t, "exited")
  /\ tls' = [tls EXCEPT ![t] = NoTls]
  /\ UNCHANGED <<handle, slot, slots, live, starts, orphans, calm>>
----------------------------------------------------------------------------
Init ==
  /\ run = [t \in Threads |-> "none"] /\ handle = [t \in Threads |-> FALSE]
  /\ slot = [s \in Slots |-> "gone"] /\ slots = <<>> /\ tls = [t \in Threads |-> NoTls]
  /\ live = {} /\ mutex = NULL /\ next = 1 /\ starts = 0
  /\ orphans = {} /\ calm = TRUE

ThreadStep(t) ==
  ThreadProcReturns(t) \/ EnterFreeAll(t) \/ CallFree(t) \/ Free(t) \/ FreeLost(t) \/ Exit(t)

Lost == \E t \in Threads : run[t] = "lost"

\* the program has ended when a thread is lost
Next ==
  /\ ~Lost
  /\ \/ \E s \in Slots :
          \/ MakeSlot(s) \/ FinishSlot(s) \/ FreeIndex(s) \/ DestroySlot(s)
          \/ \E t \in Threads : Get(t, s)
     \/ \E t \in Threads :
          ThreadStep(t) \/ Start(t) \/ Resume(t) \/ Join(t)

\* the threads run, and come to the end of their ThreadProc
Fairness == \A t \in Threads : WF_vars(ThreadStep(t) /\ ~Lost) /\ WF_vars(Resume(t) /\ ~Lost)
----------------------------------------------------------------------------
\* Every value is in its range.
TypeOK ==
  /\ \A t \in Threads : run[t] \in {"none", "suspended", "running", "ending", "exited"} \cup InFreeAll
  /\ \A s \in Slots : slot[s] \in {"gone", "made", "whole", "unmade"}
  /\ live \subseteq Objects /\ mutex \in Threads \cup {NULL}
  /\ next \in 1 .. Cardinality(Slots) + 1

Held(t) == {tls[t][slots[i]] : i \in Ahead(t)} \ {NULL}

\* A thread never sees an object that was deleted or is another thread's, whenever
\* slots come and go; what exists is some thread's, and FreeAll will still delete
\* it, or was left behind by a slot that was destroyed.  When slots come and go
\* only while there are no threads, nothing is left behind and no FreeAll calls a
\* slot that is not there.
OwnObjects ==
  /\ \A t, u \in Threads : t # u => Held(t) \cap Held(u) = {}
  /\ \A t \in Threads : Held(t) \cap orphans = {}
  /\ live = (UNION {Held(t) : t \in Threads}) \cup orphans
  /\ \A t \in Threads : ~handle[t] => run[t] \in {"none", "exited"}
  /\ calm => orphans = {} /\ ~Lost

\* Every thread that is started comes to its end, FreeAll of the others or not,
\* unless the program ends before.
ThreadsEnd == \A t \in Threads : run[t] = "suspended" ~> run[t] = "exited" \/ Lost
=============================================================================
