-------------------------- MODULE AtomicPtrTransfer --------------------------
(***************************************************************************)
(* Threading/AtomicPtrTransfer.h: one sender thread hands objects to one   *)
(* receiver thread through an atomic slot, and gets them back over a stack *)
(* that it empties at once.  Each object travels in a node.                *)
(*                                                                         *)
(* One action is one exchange or compare and swap with the private work    *)
(* around it: all the lists but m_sent and m_returned belong to one thread.*)
(***************************************************************************)
EXTENDS Integers, FiniteSets

CONSTANTS
  Objects,  \* the addresses of objects of type T
  Nodes,    \* the addresses of nodes
  NULL      \* the null pointer

ASSUME TransferAssumption ==
  /\ NULL \notin Nodes /\ NULL \notin Objects
  /\ IsFiniteSet(Nodes) /\ IsFiniteSet(Objects)

VARIABLES
  ptr,            \* Node::ptr
  next,           \* Node::next
  live,           \* the nodes that are allocated
  m_sent, m_returned,                     \* the two channels
  m_reclaimList, m_freeList, m_heldList,  \* the private lists
  spc,            \* where the sender is: "idle", or in Send "drain" or "swap"
  arg,            \* the object Send is sending, or NULL
  returning,      \* the node Return is pushing, or NULL
  head,           \* head of Return
  mine            \* the objects the sender has

lists == <<m_sent, m_returned, m_reclaimList, m_freeList, m_heldList>>
vars == <<ptr, next, live, lists, spc, arg, returning, head, mine>>

\* the nodes from n on along next
Chain(n) ==
  LET at[k \in 1 .. Cardinality(Nodes)] ==
        IF k = 1 THEN n ELSE IF at[k - 1] = NULL THEN NULL ELSE next[at[k - 1]]
  IN  {at[k] : k \in DOMAIN at} \ {NULL}
One(p) == {p} \ {NULL}
Carried(S) == {ptr[n] : n \in S}
InUse == mine \union One(arg) \union Carried(live \ Chain(m_freeList))
-----------------------------------------------------------------------------
(* The sender *)

\* new T
MakeObject(p) ==
  /\ spc = "idle" /\ p \notin InUse
  /\ mine' = mine \union {p}
  /\ UNCHANGED <<ptr, next, live, lists, spc, arg, returning, head>>

\* mutant: the stack is pulled over what was not doled out yet
PullReturned_Always(node) == node = m_returned /\ m_returned' = NULL

\* The node Reclaim doles out next, or NULL; m_returned is exchanged only when
\* what was pulled before is used up.
PullReturned(node) ==
  IF m_reclaimList = NULL
  THEN node = m_returned /\ m_returned' = NULL
  ELSE node = m_reclaimList /\ UNCHANGED m_returned

\* mutant: the node is deleted and still linked into the free list
TakeBack_Delete(node) ==
  /\ PullReturned(node)
  /\ m_reclaimList' = IF node = NULL THEN NULL ELSE next[node]
  /\ IF node = NULL
     THEN UNCHANGED <<next, m_freeList>>
     ELSE next' = [next EXCEPT ![node] = m_freeList] /\ m_freeList' = node
  /\ live' = live \ {node}
  /\ UNCHANGED <<ptr, m_sent, m_heldList>>

\* Reclaim: the node goes to the free list
TakeBack(node) ==
  /\ PullReturned(node)
  /\ m_reclaimList' = IF node = NULL THEN NULL ELSE next[node]
  /\ IF node = NULL
     THEN UNCHANGED <<next, m_freeList>>
     ELSE next' = [next EXCEPT ![node] = m_freeList] /\ m_freeList' = node
  /\ UNCHANGED <<ptr, live, m_sent, m_heldList>>

\* Reclaim called by the sender, who owns the object it returns
Reclaim(node) ==
  /\ spc = "idle"
  /\ TakeBack(node)
  /\ mine' = mine \union Carried(One(node))
  /\ UNCHANGED <<spc, arg, returning, head>>

\* mutant: every send allocates its node
Swap_AlwaysNew(p, node) ==
  /\ node \in Nodes \ live /\ live' = live \union {node}
  /\ ptr' = [ptr EXCEPT ![node] = p]
  /\ next' = [n \in Nodes |->
               IF n = node THEN NULL ELSE IF n = m_sent THEN m_freeList ELSE next[n]]
  /\ m_freeList' = IF m_sent = NULL THEN m_freeList ELSE m_sent
  /\ m_sent' = node
  /\ UNCHANGED <<m_returned, m_reclaimList, m_heldList>>

\* SendNoReclaim up to its return: AllocNode, the exchange of m_sent, FreeNode
\* of a node that bounced
Swap(p, node) ==
  LET rest == IF m_freeList = NULL THEN NULL ELSE next[m_freeList]
  IN  /\ IF m_freeList = NULL
         THEN node \in Nodes \ live /\ live' = live \union {node}
         ELSE node = m_freeList /\ UNCHANGED live
      /\ ptr' = [ptr EXCEPT ![node] = p]
      /\ next' = [n \in Nodes |->
                   IF n = node THEN NULL ELSE IF n = m_sent THEN rest ELSE next[n]]
      /\ m_freeList' = IF m_sent = NULL THEN rest ELSE m_sent
      /\ m_sent' = node
      /\ UNCHANGED <<m_returned, m_reclaimList, m_heldList>>

\* SendNoReclaim(p): an object the receiver never took is the sender's again
SendNoReclaim(p, node) ==
  /\ spc = "idle" /\ p \in mine
  /\ Swap(p, node)
  /\ mine' = (mine \ {p}) \union Carried(One(m_sent))
  /\ UNCHANGED <<spc, arg, returning, head>>

\* Send(p): the call
Send(p) ==
  /\ spc = "idle" /\ p \in mine
  /\ spc' = "drain" /\ arg' = p
  /\ mine' = mine \ {p}
  /\ UNCHANGED <<ptr, next, live, lists, returning, head>>

\* mutant: the loop goes on although there is nothing to reclaim
SendDrain_NoEnd(node) ==
  /\ spc = "drain"
  /\ TakeBack(node)
  /\ UNCHANGED <<spc, arg, returning, head, mine>>

\* one turn of "while (T* r = Reclaim()) TRelease::Release(r)", or its end
SendDrain(node) ==
  /\ spc = "drain"
  /\ TakeBack(node)
  /\ spc' = IF node = NULL THEN "swap" ELSE "drain"
  /\ UNCHANGED <<arg, returning, head, mine>>

\* SendNoReclaim, and TRelease::Release of what it returns
SendSwap(node) ==
  /\ spc = "swap"
  /\ Swap(arg, node)
  /\ spc' = "idle" /\ arg' = NULL
  /\ UNCHANGED <<returning, head, mine>>
-----------------------------------------------------------------------------
(* The receiver *)

Receive ==
  /\ returning = NULL
  /\ m_sent' = NULL
  /\ IF m_sent = NULL
     THEN UNCHANGED <<next, m_heldList>>
     ELSE next' = [next EXCEPT ![m_sent] = m_heldList] /\ m_heldList' = m_sent
  /\ UNCHANGED <<ptr, live, m_returned, m_reclaimList, m_freeList, spc, arg,
                 returning, head, mine>>

\* mutant: the node stays linked in the held list
Return_NoUnlink(node) ==
  /\ returning = NULL /\ node \in Chain(m_heldList)
  /\ returning' = node /\ head' = m_returned
  /\ next' = [next EXCEPT ![node] = m_returned]
  /\ UNCHANGED <<ptr, live, lists, spc, arg, mine>>

\* Return(ptr of the node): unlinks it, m_returned.Get(), node->next = head
Return(node) ==
  /\ returning = NULL /\ node \in Chain(m_heldList)
  /\ returning' = node /\ head' = m_returned
  /\ next' = [n \in Nodes |->
               IF n = node THEN m_returned
               ELSE IF n \in Chain(m_heldList) /\ next[n] = node THEN next[node]
               ELSE next[n]]
  /\ m_heldList' = IF m_heldList = node THEN next[node] ELSE m_heldList
  /\ UNCHANGED <<ptr, live, m_sent, m_returned, m_reclaimList, m_freeList, spc, arg,
                 mine>>

\* m_returned.CompareExchange(node, head), and another turn with what was there
PushReturned ==
  /\ returning # NULL
  /\ IF m_returned = head
     THEN /\ m_returned' = returning
          /\ returning' = NULL /\ head' = NULL
          /\ UNCHANGED next
     ELSE /\ head' = m_returned
          /\ next' = [next EXCEPT ![returning] = m_returned]
          /\ UNCHANGED <<m_returned, returning>>
  /\ UNCHANGED <<ptr, live, m_sent, m_reclaimList, m_freeList, m_heldList, spc, arg,
                 mine>>
-----------------------------------------------------------------------------
\* the nodes the destructor deletes, each with its TRelease or without
Destroyed ==
  Chain(m_sent) \union Chain(m_returned) \union Chain(m_reclaimList)
    \union Chain(m_heldList) \union Chain(m_freeList)

\* The destructor, once both threads have stopped, and a new transfer.  The
\* receiver keeps the objects it holds, out of this system.
Destroy ==
  /\ spc = "idle" /\ returning = NULL
  /\ live' = live \ Destroyed
  /\ m_sent' = NULL /\ m_returned' = NULL /\ m_reclaimList' = NULL
  /\ m_freeList' = NULL /\ m_heldList' = NULL
  /\ ptr' = [n \in Nodes |-> IF n \in live' THEN ptr[n] ELSE NULL]
  /\ next' = [n \in Nodes |-> IF n \in live' THEN next[n] ELSE NULL]
  /\ UNCHANGED <<spc, arg, returning, head, mine>>

Init ==
  /\ ptr = [n \in Nodes |-> NULL] /\ next = [n \in Nodes |-> NULL] /\ live = {}
  /\ m_sent = NULL /\ m_returned = NULL
  /\ m_reclaimList = NULL /\ m_freeList = NULL /\ m_heldList = NULL
  /\ spc = "idle" /\ arg = NULL /\ returning = NULL /\ head = NULL /\ mine = {}

SendStep == \E node \in Nodes \union {NULL} : SendDrain(node) \/ SendSwap(node)

Next ==
  \/ \E p \in Objects : MakeObject(p) \/ Send(p)
  \/ \E p \in Objects, node \in Nodes : SendNoReclaim(p, node)
  \/ \E node \in Nodes \union {NULL} : Reclaim(node)
  \/ SendStep
  \/ Receive
  \/ \E node \in Nodes : Return(node)
  \/ PushReturned
  \/ Destroy

Spec == Init /\ [][Next]_vars

\* both threads run
FairSpec == Spec /\ WF_vars(SendStep) /\ WF_vars(PushReturned)
-----------------------------------------------------------------------------
(* Properties *)

Pointer == Nodes \union {NULL}

\* Types; nothing is on a list that is not allocated.
TypeOK ==
  /\ ptr \in [Nodes -> Objects \union {NULL}] /\ next \in [Nodes -> Pointer]
  /\ live \subseteq Nodes
  /\ {m_sent, m_returned, m_reclaimList, m_freeList, m_heldList, returning, head}
       \subseteq Pointer
  /\ spc \in {"idle", "drain", "swap"} /\ arg \in Objects \union {NULL}
  /\ (spc = "idle") = (arg = NULL)
  /\ mine \subseteq Objects
  /\ Destroyed \subseteq live

\* Every node is on exactly one list, "never more than one at a time"
\* (AtomicPtrTransfer.h:107), and none leaks: the destructor finds them all.
OneListEach ==
  \A n \in live :
    Cardinality({l \in 1 .. 6 :
                   n \in CASE l = 1 -> One(m_sent) [] l = 2 -> Chain(m_returned)
                           [] l = 3 -> Chain(m_reclaimList) [] l = 4 -> Chain(m_freeList)
                           [] l = 5 -> Chain(m_heldList) [] l = 6 -> One(returning)}) = 1

\* A warm transfer does not allocate: there are never more nodes than objects
\* were on their way or with the receiver at once.
FewNodes == Cardinality(live) <= Cardinality(Objects)

\* the slot holds what m_sent points to, the set what is on its way back
Transfer ==
  INSTANCE PtrTransfer WITH
    slot <- IF m_sent = NULL THEN NULL ELSE ptr[m_sent],
    back <- Carried(Chain(m_returned) \union Chain(m_reclaimList) \union One(returning)),
    mine <- mine \union One(arg),
    theirs <- Carried(Chain(m_heldList))

\* The transfer is a slot and a set: the newest object wins, what is handed
\* back is never lost, and an object has one owner whatever the threads race.
ImplementsTransfer == Transfer!ASpec

\* Send returns although the receiver hands objects back while it drains, and
\* Return does although Reclaim empties the stack under its compare and swap.
CallsReturn ==
  /\ spc # "idle" ~> spc = "idle"
  /\ returning # NULL ~> returning = NULL
=============================================================================
