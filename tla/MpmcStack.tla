------------------------------ MODULE MpmcStack ------------------------------
(***************************************************************************)
(* Threading/MpmcStack.h: an intrusive stack of nodes, shared by any       *)
(* number of threads, whose head is a pointer and a tag changed together   *)
(* by one 128-bit compare and swap.  The nodes belong to the callers: a    *)
(* thread pushes nodes it holds, and holds the nodes it popped.  Nodes may *)
(* move between several stacks, as in test/TestMpmcStack.cpp:553.          *)
(*                                                                         *)
(* One action is one access to memory that other threads use.              *)
(***************************************************************************)
EXTENDS Integers, Sequences, FiniteSets, Functions

CONSTANTS
  Threads,       \* the callers
  Nodes,         \* the objects of type T
  Stacks,        \* the MpmcStack objects
  NULL,          \* the null pointer
  PopAllStacks,  \* the stacks on which the callers use PopAll
  MaxTag         \* bound: changes of a head since the last Reset

ASSUME StackAssumption ==
  /\ NULL \notin Nodes /\ IsFiniteSet(Nodes) /\ IsFiniteSet(Threads)
  /\ Stacks # {} /\ PopAllStacks \subseteq Stacks /\ MaxTag \in Nat

VARIABLES
  head,   \* m_pHead of each stack, a pointer and a tag
  count,  \* m_count of each stack
  next,   \* the member "next" of each node
  held,   \* the nodes each thread holds and may push
  pc,     \* where each thread is in Push, Pop or PopAll
  stk,    \* the stack its call is on
  old,    \* oldHead of its call
  chain,  \* the nodes it is pushing, from first to last
  nxt     \* item->next, as Pop read it for TrySet

locals == <<stk, old, chain, nxt>>
vars == <<head, count, next, held, pc, locals>>

Null == [ptr |-> NULL, tag |-> 0]
Goto(t, label) == pc' = [pc EXCEPT ![t] = label]

\* the nodes from p on along next; it stops after as many as there are
Walk(p) ==
  LET at[k \in 1 .. Cardinality(Nodes)] ==
        IF k = 1 THEN p ELSE IF at[k - 1] = NULL THEN NULL ELSE next[at[k - 1]]
  IN  [k \in 1 .. Cardinality({j \in DOMAIN at : at[j] # NULL}) |-> at[k]]
Items(s) == Walk(head[s].ptr)

\* the ways to chain nodes of S, each once
Chains(S) ==
  UNION {{c \in [1 .. n -> S] : IsInjective(c)} : n \in 1 .. Cardinality(S)}

\* The changes of a head that may still come from the calls in progress are
\* counted when a call starts.
TagLeft(s) ==
  head[s].tag + Cardinality({t \in Threads : pc[t] # "idle" /\ stk[t] = s}) < MaxTag

Call(t, s, label) ==
  /\ pc[t] = "idle" /\ TagLeft(s)
  /\ Goto(t, label)
  /\ stk' = [stk EXCEPT ![t] = s]

\* mutant: only the pointer is compared, as with a head that has no tag
TrySet_NoTag(t, p) ==
  /\ head[stk[t]].ptr = old[t].ptr
  /\ head' = [head EXCEPT ![stk[t]] = [ptr |-> p, tag |-> old[t].tag + 1]]

\* m_pHead.TrySet(HeadValue{ p, oldHead.tag + 1 }, oldHead) returns true
TrySet(t, p) ==
  /\ head[stk[t]] = old[t]
  /\ head' = [head EXCEPT ![stk[t]] = [ptr |-> p, tag |-> old[t].tag + 1]]

\* m_pHead.Get()
LoadHead(t) == old' = [old EXCEPT ![t] = head[stk[t]]]

\* the locals of a call end with it
Return(t) ==
  /\ Goto(t, "idle")
  /\ old' = [old EXCEPT ![t] = Null]
  /\ chain' = [chain EXCEPT ![t] = <<>>]
  /\ nxt' = [nxt EXCEPT ![t] = NULL]
-----------------------------------------------------------------------------
(* Push(item), Push(first, last) and PushMany(first): chains of one or more *)

\* The caller links nodes it holds and calls; only they are reached by the
\* walk that counts them.
CallPush(t, s) ==
  /\ Call(t, s, "push_load")
  /\ \E c \in Chains(held[t]) :
       /\ chain' = [chain EXCEPT ![t] = c]
       /\ held' = [held EXCEPT ![t] = @ \ Range(c)]
       /\ next' = [n \in Nodes |->
                    IF \E i \in 1 .. Len(c) - 1 : c[i] = n
                    THEN c[1 + CHOOSE i \in 1 .. Len(c) - 1 : c[i] = n]
                    ELSE IF n = c[Len(c)] THEN NULL ELSE next[n]]
  /\ UNCHANGED <<head, count, old, nxt>>

PushLoad(t) ==
  /\ pc[t] = "push_load"
  /\ LoadHead(t)
  /\ Goto(t, "push_link")
  /\ UNCHANGED <<head, count, next, held, stk, chain, nxt>>

\* last->next = oldHead.ptr
PushLink(t) ==
  /\ pc[t] = "push_link"
  /\ next' = [next EXCEPT ![chain[t][Len(chain[t])]] = old[t].ptr]
  /\ Goto(t, "push_cas")
  /\ UNCHANGED <<head, count, held, locals>>

\* mutant: a failed compare and swap is tried again with the same old head
PushCas_NoReload(t) ==
  /\ pc[t] = "push_cas"
  /\ TrySet(t, chain[t][1]) /\ Goto(t, "push_count")
  /\ UNCHANGED <<count, next, held, locals>>

\* mutant: only the first load of the head is linked behind the chain
PushCas_NoRelink(t) ==
  /\ pc[t] = "push_cas"
  /\ head' = [head EXCEPT ![stk[t]] = [ptr |-> chain[t][1], tag |-> @.tag + 1]]
  /\ Goto(t, "push_count")
  /\ UNCHANGED <<count, next, held, locals>>

\* TrySet, or another turn of the loop
PushCas(t) ==
  /\ pc[t] = "push_cas"
  /\ \/ TrySet(t, chain[t][1]) /\ Goto(t, "push_count")
     \/ head[stk[t]] # old[t] /\ Goto(t, "push_load") /\ UNCHANGED head
  /\ UNCHANGED <<count, next, held, locals>>

\* mutant: a pushed chain counts as one node
PushCount_One(t) ==
  /\ pc[t] = "push_count"
  /\ count' = [count EXCEPT ![stk[t]] = @ + 1]
  /\ Return(t)
  /\ UNCHANGED <<head, next, held, stk>>

\* m_count.Inc() or Add(count), and return
PushCount(t) ==
  /\ pc[t] = "push_count"
  /\ count' = [count EXCEPT ![stk[t]] = @ + Len(chain[t])]
  /\ Return(t)
  /\ UNCHANGED <<head, next, held, stk>>
-----------------------------------------------------------------------------
(* Pop *)

CallPop(t, s) ==
  /\ Call(t, s, "pop_load")
  /\ UNCHANGED <<head, count, next, held, old, chain, nxt>>

\* m_pHead.Get(), and the return of an empty stack
PopLoad(t) ==
  /\ pc[t] = "pop_load"
  /\ IF head[stk[t]].ptr = NULL
     THEN Return(t)
     ELSE LoadHead(t) /\ Goto(t, "pop_next") /\ UNCHANGED <<chain, nxt>>
  /\ UNCHANGED <<head, count, next, held, stk>>

\* item->next, which whoever holds the item by now may be changing
PopNext(t) ==
  /\ pc[t] = "pop_next"
  /\ nxt' = [nxt EXCEPT ![t] = next[old[t].ptr]]
  /\ Goto(t, "pop_cas")
  /\ UNCHANGED <<head, count, next, held, stk, old, chain>>

PopCas(t) ==
  /\ pc[t] = "pop_cas"
  /\ \/ TrySet(t, nxt[t]) /\ Goto(t, "pop_unlink")
     \/ head[stk[t]] # old[t] /\ Goto(t, "pop_load") /\ UNCHANGED head
  /\ UNCHANGED <<count, next, held, locals>>

\* nowEmpty = item->next == nullptr, the second thing a Pop gives its caller,
\* asked for when the compare and swap has been made
NowEmpty(t) == next[old[t].ptr] = NULL

\* nowEmpty is read, then item->next = nullptr
PopUnlink(t) ==
  /\ pc[t] = "pop_unlink"
  /\ next' = [next EXCEPT ![old[t].ptr] = NULL]
  /\ Goto(t, "pop_count")
  /\ UNCHANGED <<head, count, held, locals>>

\* m_count.Dec(), and return
PopCount(t) ==
  /\ pc[t] = "pop_count"
  /\ count' = [count EXCEPT ![stk[t]] = @ - 1]
  /\ held' = [held EXCEPT ![t] = @ \union {old[t].ptr}]
  /\ Return(t)
  /\ UNCHANGED <<head, next, stk>>
-----------------------------------------------------------------------------
(* PopAll and Reset *)

CallPopAll(t, s) ==
  /\ s \in PopAllStacks
  /\ Call(t, s, "all_load")
  /\ UNCHANGED <<head, count, next, held, old, chain, nxt>>

AllLoad(t) ==
  /\ pc[t] = "all_load"
  /\ LoadHead(t)
  /\ Goto(t, "all_cas")
  /\ UNCHANGED <<head, count, next, held, stk, chain, nxt>>

AllCas(t) ==
  /\ pc[t] = "all_cas"
  /\ \/ TrySet(t, NULL) /\ Goto(t, "all_count")
     \/ head[stk[t]] # old[t] /\ Goto(t, "all_load") /\ UNCHANGED head
  /\ UNCHANGED <<count, next, held, locals>>

\* m_count.Set(0), and return of the whole chain
AllCount(t) ==
  /\ pc[t] = "all_count"
  /\ count' = [count EXCEPT ![stk[t]] = 0]
  /\ held' = [held EXCEPT ![t] = @ \union Range(Walk(old[t].ptr))]
  /\ Return(t)
  /\ UNCHANGED <<head, next, stk>>

\* Reset forgets the nodes, which are the caller's again, and the tag.  No
\* other thread may be using the stack.
Reset(t, s) ==
  /\ \A u \in Threads : pc[u] = "idle"
  /\ held' = [held EXCEPT ![t] = @ \union Range(Items(s))]
  /\ head' = [head EXCEPT ![s] = Null]
  /\ count' = [count EXCEPT ![s] = 0]
  /\ UNCHANGED <<next, pc, locals>>
-----------------------------------------------------------------------------
\* The nodes start in the hands of some threads, unlinked.
Init ==
  /\ head = [s \in Stacks |-> Null]
  /\ count = [s \in Stacks |-> 0]
  /\ next = [n \in Nodes |-> NULL]
  /\ \E owner \in [Nodes -> Threads] :
       held = [t \in Threads |-> {n \in Nodes : owner[n] = t}]
  /\ pc = [t \in Threads |-> "idle"]
  /\ stk = [t \in Threads |-> CHOOSE s \in Stacks : TRUE]
  /\ old = [t \in Threads |-> Null]
  /\ chain = [t \in Threads |-> <<>>]
  /\ nxt = [t \in Threads |-> NULL]

Step(t) ==
  \/ PushLoad(t) \/ PushLink(t) \/ PushCas(t) \/ PushCount(t)
  \/ PopLoad(t) \/ PopNext(t) \/ PopCas(t) \/ PopUnlink(t) \/ PopCount(t)
  \/ AllLoad(t) \/ AllCas(t) \/ AllCount(t)

Next ==
  \E t \in Threads :
    \/ Step(t)
    \/ \E s \in Stacks :
         CallPush(t, s) \/ CallPop(t, s) \/ CallPopAll(t, s) \/ Reset(t, s)

Spec == Init /\ [][Next]_vars
-----------------------------------------------------------------------------
(* Properties *)

\* Types; Pop never goes through a null pointer to its item.
TypeOK ==
  /\ head \in [Stacks -> [ptr : Nodes \union {NULL}, tag : Nat]]
  /\ count \in [Stacks -> Int]
  /\ next \in [Nodes -> Nodes \union {NULL}]
  /\ held \in [Threads -> SUBSET Nodes]
  /\ pc \in [Threads -> {"idle", "push_load", "push_link", "push_cas", "push_count",
                         "pop_load", "pop_next", "pop_cas", "pop_unlink", "pop_count",
                         "all_load", "all_cas", "all_count"}]
  /\ stk \in [Threads -> Stacks]
  /\ old \in [Threads -> [ptr : Nodes \union {NULL}, tag : Nat]]
  /\ chain \in [Threads -> Seq(Nodes)]
  /\ nxt \in [Threads -> Nodes \union {NULL}]
  /\ \A t \in Threads :
       pc[t] \in {"pop_next", "pop_cas", "pop_unlink", "pop_count"} =>
         old[t].ptr \in Nodes

\* the nodes a thread has: those it holds, the chain it has not yet swung in,
\* and what it swung out and will return
Owned(t) ==
  held[t] \union
    CASE pc[t] \in {"push_load", "push_link", "push_cas"} -> Range(chain[t])
      [] pc[t] \in {"pop_unlink", "pop_count"} -> {old[t].ptr}
      [] pc[t] = "all_count" -> Range(Walk(old[t].ptr))
      [] OTHER -> {}

\* No node is in two places, on two stacks, with two threads or both, and none
\* is lost: what the tag of the head is for ("handing the same node out to two
\* callers at once", MpmcStack.h:18).  And a Pop says that it emptied the stack
\* exactly if the head it swung in was null, though it asks its item only later
\* (MpmcStack.h:149).
OnePlaceEach ==
  /\ \A n \in Nodes :
       Cardinality({t \in Threads : n \in Owned(t)}
                   \union {s \in Stacks : n \in Range(Items(s))}) = 1
  /\ \A t \in Threads : pc[t] = "pop_unlink" => (NowEmpty(t) <=> nxt[t] = NULL)

\* the stacks as sequences of nodes, and who has the others
Atomic ==
  INSTANCE AtomicStack WITH
    items <- [s \in Stacks |-> Items(s)],
    owned <- [t \in Threads |-> Owned(t)]

\* A compare and swap that succeeds sees the stack as it was when the head was
\* loaded: pops take the newest node and leave the ones below it, in order.
ImplementsAtomicStack == Atomic!ASpec

\* When every call has returned, GetLikelyCount is the number of nodes, on a
\* stack whose callers leave PopAll alone: PopAll's Set(0) may come after the
\* increment of a later Push and forget it.
QuiescentCount ==
  (\A t \in Threads : pc[t] = "idle") =>
    \A s \in Stacks \ PopAllStacks : count[s] = Len(Items(s))
=============================================================================
