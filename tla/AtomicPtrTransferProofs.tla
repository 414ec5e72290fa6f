----------------------- MODULE AtomicPtrTransferProofs -----------------------
(***************************************************************************)
(* Proofs about AtomicPtrTransfer, for any finite sets of objects and of   *)
(* nodes.                                                                  *)
(***************************************************************************)
EXTENDS AtomicPtrTransfer, LinkedLists

-----------------------------------------------------------------------------
(* The inductive invariant *)

\* where a node can be
Sent == One(m_sent)
Returned == Chain(m_returned)
Pulled == Chain(m_reclaimList)
Free == Chain(m_freeList)
Held == Chain(m_heldList)
Returning == One(returning)

\* the nodes that carry an object
Lent == live \ Free

\* p heads the list of the nodes of S.
IsList(p, S) == ListOf(Nodes, NULL, next, p, S)

\* What the variables hold, whatever the lists are.
Types ==
  /\ ptr \in [Nodes -> Objects \union {NULL}] /\ next \in [Nodes -> Pointer]
  /\ live \subseteq Nodes
  /\ m_sent \in Pointer /\ m_returned \in Pointer /\ m_reclaimList \in Pointer
  /\ m_freeList \in Pointer /\ m_heldList \in Pointer
  /\ returning \in Pointer /\ head \in Pointer
  /\ spc \in {"idle", "drain", "swap"} /\ arg \in Objects \union {NULL}
  /\ spc = "idle" <=> arg = NULL
  /\ mine \subseteq Objects

\* The lists end at a null pointer; the slot holds a node that is linked to
\* nothing, and Return has linked its node to the head it has read.
Linked ==
  /\ IsList(m_returned, Returned) /\ IsList(m_reclaimList, Pulled)
  /\ IsList(m_freeList, Free) /\ IsList(m_heldList, Held)
  /\ m_sent # NULL => next[m_sent] = NULL
  /\ returning # NULL => next[returning] = head

\* No node is in two places, and none that is allocated is nowhere.
Apart ==
  /\ Sent \cap Returned = {} /\ Sent \cap Pulled = {} /\ Sent \cap Free = {}
  /\ Sent \cap Held = {} /\ Sent \cap Returning = {}
  /\ Returned \cap Pulled = {} /\ Returned \cap Free = {} /\ Returned \cap Held = {}
  /\ Returned \cap Returning = {}
  /\ Pulled \cap Free = {} /\ Pulled \cap Held = {} /\ Pulled \cap Returning = {}
  /\ Free \cap Held = {} /\ Free \cap Returning = {} /\ Held \cap Returning = {}
NoneLost == live = Sent \union Returned \union Pulled \union Free \union Held \union Returning

\* An object is the sender's, or travels in one node.
Owned ==
  /\ \A n \in Lent : ptr[n] \in Objects /\ ptr[n] \notin mine /\ ptr[n] # arg
  /\ \A m, n \in Lent : ptr[m] = ptr[n] => m = n
  /\ arg \notin mine

TransferInv == Types /\ Linked /\ Apart /\ NoneLost /\ Owned /\ FewNodes
-----------------------------------------------------------------------------
(* Lists *)

\* Chain is the walk of LinkedLists.
LEMMA ChainFollow ==
  /\ \A p : Chain(p) = LET f == Follow(Nodes, NULL, next, p)
                       IN  {f[k] : k \in DOMAIN f} \ {NULL}
  /\ Returned' = LET f == Follow(Nodes, NULL, next', m_returned')
                 IN  {f[k] : k \in DOMAIN f} \ {NULL}
  /\ Pulled' = LET f == Follow(Nodes, NULL, next', m_reclaimList')
               IN  {f[k] : k \in DOMAIN f} \ {NULL}
  /\ Free' = LET f == Follow(Nodes, NULL, next', m_freeList')
             IN  {f[k] : k \in DOMAIN f} \ {NULL}
  /\ Held' = LET f == Follow(Nodes, NULL, next', m_heldList')
             IN  {f[k] : k \in DOMAIN f} \ {NULL}
BY DEF Returned, Pulled, Free, Held, Chain, Follow

\* A null pointer is no node.
LEMMA OneIs ==
  ASSUME NEW p
  PROVE  (p = NULL => One(p) = {}) /\ (p # NULL => One(p) = {p})
  BY DEF One

\* The nodes met from the head of a list are those of the list.
LEMMA ChainIs ==
  ASSUME NEW p, NEW S, ListOf(Nodes, NULL, next, p, S)
  PROVE  Chain(p) = S
<1>1. PICK f : f = Follow(Nodes, NULL, next, p)
  OBVIOUS
<1>2. {f[k] : k \in DOMAIN f} \ {NULL} = S
  BY <1>1, TransferAssumption, ListWalk
<1> QED BY <1>1, <1>2, ChainFollow

\* The lists after a step.
LEMMA ReturnedNext ==
  ASSUME NEW S, ListOf(Nodes, NULL, next', m_returned', S)
  PROVE  Returned' = S
<1>1. PICK f : f = Follow(Nodes, NULL, next', m_returned')
  OBVIOUS
<1>2. {f[k] : k \in DOMAIN f} \ {NULL} = S
  BY <1>1, TransferAssumption, ListWalk
<1> QED BY <1>1, <1>2, ChainFollow

LEMMA PulledNext ==
  ASSUME NEW S, ListOf(Nodes, NULL, next', m_reclaimList', S)
  PROVE  Pulled' = S
<1>1. PICK f : f = Follow(Nodes, NULL, next', m_reclaimList')
  OBVIOUS
<1>2. {f[k] : k \in DOMAIN f} \ {NULL} = S
  BY <1>1, TransferAssumption, ListWalk
<1> QED BY <1>1, <1>2, ChainFollow

LEMMA FreeNext ==
  ASSUME NEW S, ListOf(Nodes, NULL, next', m_freeList', S)
  PROVE  Free' = S
<1>1. PICK f : f = Follow(Nodes, NULL, next', m_freeList')
  OBVIOUS
<1>2. {f[k] : k \in DOMAIN f} \ {NULL} = S
  BY <1>1, TransferAssumption, ListWalk
<1> QED BY <1>1, <1>2, ChainFollow

LEMMA HeldNext ==
  ASSUME NEW S, ListOf(Nodes, NULL, next', m_heldList', S)
  PROVE  Held' = S
<1>1. PICK f : f = Follow(Nodes, NULL, next', m_heldList')
  OBVIOUS
<1>2. {f[k] : k \in DOMAIN f} \ {NULL} = S
  BY <1>1, TransferAssumption, ListWalk
<1> QED BY <1>1, <1>2, ChainFollow

LEMMA ListsNext ==
  ASSUME NEW R, ListOf(Nodes, NULL, next', m_returned', R),
         NEW P, ListOf(Nodes, NULL, next', m_reclaimList', P),
         NEW F, ListOf(Nodes, NULL, next', m_freeList', F),
         NEW H, ListOf(Nodes, NULL, next', m_heldList', H),
         m_sent' # NULL => next'[m_sent'] = NULL,
         returning' # NULL => next'[returning'] = head'
  PROVE  Linked' /\ Returned' = R /\ Pulled' = P /\ Free' = F /\ Held' = H
<1>1. Returned' = R /\ Pulled' = P /\ Free' = F /\ Held' = H
  BY ReturnedNext, PulledNext, FreeNext, HeldNext
<1> QED BY <1>1 DEF Linked, IsList

\* The list of the slot.
LEMMA SentIs ==
  ASSUME TransferInv
  PROVE  Chain(m_sent) = Sent
<1>1. CASE m_sent = NULL
  <2>1. ListOf(Nodes, NULL, next, m_sent, {})
    BY <1>1, ListNone
  <2> QED BY <1>1, <2>1, ChainIs DEF Sent, One
<1>2. CASE m_sent # NULL
  <2>1. m_sent \in Nodes /\ next[m_sent] = NULL
    BY <1>2 DEF TransferInv, Types, Linked, Pointer
  <2>2. ListOf(Nodes, NULL, next, NULL, {})
    BY ListNone
  <2>3. ListOf(Nodes, NULL, next, m_sent, {} \union {m_sent})
    BY <2>1, <2>2, TransferAssumption, ListAdd
  <2> QED BY <1>2, <2>3, ChainIs DEF Sent, One
<1> QED BY <1>1, <1>2

\* What the lists are made of.
LEMMA Places ==
  ASSUME TransferInv
  PROVE  /\ Sent \subseteq Nodes /\ Returned \subseteq Nodes /\ Pulled \subseteq Nodes
         /\ Free \subseteq Nodes /\ Held \subseteq Nodes /\ Returning \subseteq Nodes
         /\ m_sent # NULL => m_sent \in Nodes /\ Sent = {m_sent}
         /\ m_sent = NULL => Sent = {}
         /\ returning # NULL => returning \in Nodes /\ Returning = {returning}
         /\ returning = NULL => Returning = {}
         /\ m_returned = NULL <=> Returned = {}
         /\ m_returned # NULL => m_returned \in Returned
         /\ m_reclaimList = NULL <=> Pulled = {}
         /\ m_reclaimList # NULL => m_reclaimList \in Pulled
         /\ m_freeList = NULL <=> Free = {}
         /\ m_freeList # NULL => m_freeList \in Free
         /\ m_heldList = NULL <=> Held = {}
         /\ m_heldList # NULL => m_heldList \in Held
<1>1. /\ ListOf(Nodes, NULL, next, m_returned, Returned)
      /\ ListOf(Nodes, NULL, next, m_reclaimList, Pulled)
      /\ ListOf(Nodes, NULL, next, m_freeList, Free)
      /\ ListOf(Nodes, NULL, next, m_heldList, Held)
  BY DEF TransferInv, Linked, IsList
<1>2. NULL \notin Nodes
  BY TransferAssumption
<1>3. \A p \in Pointer : p # NULL => p \in Nodes
  BY DEF Pointer
<1>4. Returned \subseteq Nodes /\ (m_returned = NULL <=> Returned = {})
      /\ (m_returned # NULL => m_returned \in Returned)
  BY <1>1, <1>2, ListHas
<1>5. Pulled \subseteq Nodes /\ (m_reclaimList = NULL <=> Pulled = {})
      /\ (m_reclaimList # NULL => m_reclaimList \in Pulled)
  BY <1>1, <1>2, ListHas
<1>6. Free \subseteq Nodes /\ (m_freeList = NULL <=> Free = {})
      /\ (m_freeList # NULL => m_freeList \in Free)
  BY <1>1, <1>2, ListHas
<1>7. Held \subseteq Nodes /\ (m_heldList = NULL <=> Held = {})
      /\ (m_heldList # NULL => m_heldList \in Held)
  BY <1>1, <1>2, ListHas
<1>8. /\ m_sent # NULL => m_sent \in Nodes /\ Sent = {m_sent}
      /\ m_sent = NULL => Sent = {}
      /\ returning # NULL => returning \in Nodes /\ Returning = {returning}
      /\ returning = NULL => Returning = {}
  BY <1>3 DEF TransferInv, Types, Sent, Returning, One
<1>9. Sent \subseteq Nodes /\ Returning \subseteq Nodes
  BY <1>8
<1> QED BY <1>4, <1>5, <1>6, <1>7, <1>8, <1>9
-----------------------------------------------------------------------------
(* The steps and the lists *)

\* Reclaim moves the node it doles out to the free list.
LEMMA TakeBackMoves ==
  ASSUME TransferInv, NEW node \in Pointer, TakeBack(node), UNCHANGED <<returning, head>>
  PROVE  /\ Linked' /\ Apart' /\ NoneLost'
         /\ Free' = Free \union One(node)
         /\ Returned' \union Pulled' = (Returned \union Pulled) \ One(node)
         /\ One(node) \subseteq Returned \union Pulled
         /\ Sent' = Sent /\ Held' = Held /\ Returning' = Returning
         /\ next' \in [Nodes -> Pointer] /\ m_reclaimList' \in Pointer
         /\ m_freeList' \in Pointer /\ m_returned' \in Pointer
<1>1. /\ IsList(m_returned, Returned) /\ IsList(m_reclaimList, Pulled)
      /\ IsList(m_freeList, Free) /\ IsList(m_heldList, Held)
      /\ m_sent # NULL => next[m_sent] = NULL
      /\ returning # NULL => next[returning] = head
      /\ next \in [Nodes -> Pointer] /\ NULL \in Pointer /\ Nodes \subseteq Pointer
  BY DEF TransferInv, Types, Linked, Pointer
<1>2. Sent' = Sent /\ Returning' = Returning
  BY DEF TakeBack, Sent, Returning, One
<1>3. Apart /\ NoneLost /\ live' = live
  BY DEF TransferInv, TakeBack
<1>4. m_sent' = m_sent /\ m_heldList' = m_heldList
  BY DEF TakeBack
<1>5. CASE node = NULL
  <2>1. /\ m_returned' = m_returned /\ m_reclaimList' = m_reclaimList
        /\ m_freeList' = m_freeList /\ next' = next
    BY <1>5 DEF TakeBack, PullReturned
  <2>2. /\ Linked' /\ Returned' = Returned /\ Pulled' = Pulled
        /\ Free' = Free /\ Held' = Held
    BY <1>1, <1>4, <2>1, ListsNext DEF IsList
  <2>3. Returned = {} /\ Pulled = {} /\ One(node) = {}
    BY <1>5, <2>1, Places, OneIs DEF TakeBack, PullReturned
  <2>4. Apart' /\ NoneLost'
    BY <1>2, <1>3, <2>2 DEF Apart, NoneLost
  <2> QED BY <1>1, <1>2, <2>1, <2>2, <2>3, <2>4, Places DEF TransferInv, Types
<1>6. CASE node # NULL
  <2>1. /\ node \in Nodes /\ One(node) = {node}
        /\ next' = [next EXCEPT ![node] = m_freeList] /\ m_freeList' = node
        /\ m_reclaimList' = next[node]
    BY <1>6, OneIs DEF TakeBack, Pointer
  <2>2. PICK P \in {Returned, Pulled} :
          /\ IsList(node, P) /\ node \in P
          /\ P = Returned => Pulled = {} /\ m_returned' = NULL
          /\ P # Returned => m_returned' = m_returned
    <3>1. CASE m_reclaimList = NULL
      <4>1. node = m_returned /\ m_returned' = NULL
        BY <3>1 DEF TakeBack, PullReturned
      <4>2. Pulled = {} /\ node \in Returned
        BY <1>6, <3>1, <4>1, Places
      <4> QED BY <1>1, <4>1, <4>2
    <3>2. CASE m_reclaimList # NULL
      <4>1. node = m_reclaimList /\ m_returned' = m_returned
        BY <3>2 DEF TakeBack, PullReturned
      <4>2. node \in Pulled /\ Returned # Pulled
        BY <1>3, <1>6, <4>1, Places DEF Apart
      <4> QED BY <1>1, <4>1, <4>2
    <3> QED BY <3>1, <3>2
  <2>3. /\ node \notin Sent /\ node \notin Free /\ node \notin Held /\ node \notin Returning
        /\ P # Returned => node \notin Returned
    BY <1>3, <2>2 DEF Apart
  <2>4. \A n : n # node => next'[n] = next[n]
    BY <1>1, <2>1
  <2>5. next'[node] = m_freeList
    BY <1>1, <2>1
  <2>6. ListOf(Nodes, NULL, next, next[node], P \ {node})
    BY <1>6, <2>2, TransferAssumption, ListRest DEF IsList
  <2>7. ListOf(Nodes, NULL, next', m_reclaimList', P \ {node})
    BY <2>1, <2>4, <2>6, ListKept
  <2>8. ListOf(Nodes, NULL, next', m_freeList', Free \union {node})
    <3>1. \A n \in Free : next'[n] = next[n]
      BY <2>3, <2>4
    <3>2. ListOf(Nodes, NULL, next, m_freeList, Free)
      BY <1>1 DEF IsList
    <3> QED BY <2>1, <2>3, <2>5, <3>1, <3>2, TransferAssumption, ListAdd
  <2>9. ListOf(Nodes, NULL, next', m_heldList', Held)
    <3>1. \A n \in Held : next'[n] = next[n]
      BY <2>3, <2>4
    <3> QED BY <1>1, <1>4, <3>1, ListKept DEF IsList
  <2>10. PICK R : /\ R = (IF P = Returned THEN {} ELSE Returned)
                  /\ ListOf(Nodes, NULL, next', m_returned', R)
    <3>1. CASE P = Returned
      BY <2>2, <3>1, ListNone
    <3>2. CASE P # Returned
      <4>1. \A n \in Returned : next'[n] = next[n]
        BY <2>3, <2>4, <3>2
      <4> QED BY <1>1, <2>2, <3>2, <4>1, ListKept DEF IsList
    <3> QED BY <3>1, <3>2
  <2>11. /\ m_sent' # NULL => next'[m_sent'] = NULL
         /\ returning' # NULL => next'[returning'] = head'
    <3>1. (m_sent # NULL => m_sent # node) /\ (returning # NULL => returning # node)
      BY <2>3, Places
    <3> QED BY <1>1, <1>4, <2>4, <3>1
  <2>12. /\ Linked' /\ Returned' = R /\ Pulled' = P \ {node}
         /\ Free' = Free \union {node} /\ Held' = Held
    BY <2>7, <2>8, <2>9, <2>10, <2>11, ListsNext
  <2>13. Returned' \union Pulled' = (Returned \union Pulled) \ {node}
    <3>1. CASE P = Returned
      BY <2>2, <2>10, <2>12, <3>1
    <3>2. CASE P # Returned
      BY <2>2, <2>3, <2>10, <2>12, <3>2
    <3> QED BY <3>1, <3>2
  <2>14. Returned' \cap Pulled' = {} /\ node \in Returned \union Pulled
    BY <1>3, <2>2, <2>10, <2>12 DEF Apart
  <2>15. Apart'
    BY <1>2, <1>3, <2>3, <2>12, <2>13, <2>14 DEF Apart
  <2>16. NoneLost'
    BY <1>2, <1>3, <2>12, <2>13, <2>14 DEF NoneLost
  <2>17. /\ next' \in [Nodes -> Pointer] /\ m_reclaimList' \in Pointer
         /\ m_freeList' \in Pointer /\ m_returned' \in Pointer
    BY <1>1, <2>1, <2>2 DEF TransferInv, Types
  <2> QED BY <1>2, <2>1, <2>12, <2>13, <2>14, <2>15, <2>16, <2>17
<1> QED BY <1>5, <1>6

\* SendNoReclaim puts its node into the slot and the one it finds there onto
\* the free list.
LEMMA SwapMoves ==
  ASSUME TransferInv, NEW p \in Objects, NEW node \in Nodes, Swap(p, node),
         UNCHANGED <<returning, head>>
  PROVE  /\ Linked' /\ Apart' /\ NoneLost'
         /\ Sent' = {node} /\ Free' = (Free \ {node}) \union Sent
         /\ Returned' = Returned /\ Pulled' = Pulled /\ Held' = Held
         /\ Returning' = Returning
         /\ node \in Free \/ (node \notin live /\ Free = {})
         /\ live' = live \union {node}
         /\ next' \in [Nodes -> Pointer] /\ m_freeList' \in Pointer
<1> DEFINE rest == IF m_freeList = NULL THEN NULL ELSE next[m_freeList]
<1>1. /\ IsList(m_returned, Returned) /\ IsList(m_reclaimList, Pulled)
      /\ IsList(m_freeList, Free) /\ IsList(m_heldList, Held)
      /\ m_sent # NULL => next[m_sent] = NULL
      /\ returning # NULL => next[returning] = head
      /\ next \in [Nodes -> Pointer] /\ NULL \in Pointer /\ Nodes \subseteq Pointer
      /\ m_sent \in Pointer
  BY DEF TransferInv, Types, Linked, Pointer
<1>2. Apart /\ NoneLost
  BY DEF TransferInv
<1>3. /\ m_sent' = node /\ m_freeList' = (IF m_sent = NULL THEN rest ELSE m_sent)
      /\ m_returned' = m_returned /\ m_reclaimList' = m_reclaimList
      /\ m_heldList' = m_heldList
      /\ next' = [n \in Nodes |->
                   IF n = node THEN NULL ELSE IF n = m_sent THEN rest ELSE next[n]]
  BY DEF Swap
<1>4. /\ node \in Free \/ (node \notin live /\ Free = {})
      /\ live' = live \union {node}
      /\ m_freeList # NULL => node = m_freeList
  <2>1. CASE m_freeList = NULL
    BY <2>1, Places DEF Swap
  <2>2. CASE m_freeList # NULL
    <3>1. node = m_freeList /\ live' = live /\ node \in Free
      BY <2>2, Places DEF Swap
    <3> QED BY <1>2, <3>1 DEF NoneLost
  <2> QED BY <2>1, <2>2
<1>5. rest \in Pointer
  BY <1>1, Places
<1>6. ListOf(Nodes, NULL, next, rest, Free \ {node})
  <2>1. CASE m_freeList = NULL
    <3>1. Free \ {node} = {}
      BY <2>1, Places
    <3> QED BY <2>1, <3>1, ListNone
  <2>2. CASE m_freeList # NULL
    <3>1. ListOf(Nodes, NULL, next, next[m_freeList], Free \ {m_freeList})
      BY <1>1, <2>2, TransferAssumption, ListRest DEF IsList
    <3> QED BY <1>4, <2>2, <3>1
  <2> QED BY <2>1, <2>2
<1> HIDE DEF rest
<1>7. /\ node \notin Sent /\ node \notin Returned /\ node \notin Pulled
      /\ node \notin Held /\ node \notin Returning
  BY <1>2, <1>4 DEF Apart, NoneLost
<1>8. /\ \A n \in Nodes : n # node /\ n # m_sent => next'[n] = next[n]
      /\ next'[node] = NULL
      /\ m_sent # NULL => next'[m_sent] = rest
  <2>1. m_sent # NULL => m_sent \in Nodes /\ m_sent # node
    BY <1>7, Places
  <2> QED BY <1>3, <2>1
<1>9. next' \in [Nodes -> Pointer]
  BY <1>1, <1>3, <1>5
<1>10. /\ m_sent \notin Returned /\ m_sent \notin Pulled /\ m_sent \notin Held
       /\ m_sent \notin Free
  <2>1. CASE m_sent = NULL
    BY <2>1, Places, TransferAssumption
  <2>2. CASE m_sent # NULL
    BY <1>2, <2>2, Places DEF Apart
  <2> QED BY <2>1, <2>2
<1>11. ListOf(Nodes, NULL, next', m_returned', Returned)
  <2>1. \A n \in Returned : next'[n] = next[n]
    BY <1>7, <1>8, <1>10, Places
  <2> QED BY <1>1, <1>3, <2>1, ListKept DEF IsList
<1>12. ListOf(Nodes, NULL, next', m_reclaimList', Pulled)
  <2>1. \A n \in Pulled : next'[n] = next[n]
    BY <1>7, <1>8, <1>10, Places
  <2> QED BY <1>1, <1>3, <2>1, ListKept DEF IsList
<1>13. ListOf(Nodes, NULL, next', m_heldList', Held)
  <2>1. \A n \in Held : next'[n] = next[n]
    BY <1>7, <1>8, <1>10, Places
  <2> QED BY <1>1, <1>3, <2>1, ListKept DEF IsList
<1>14. ListOf(Nodes, NULL, next', m_freeList', (Free \ {node}) \union Sent)
  <2>1. \A n \in Free \ {node} : next'[n] = next[n]
    BY <1>8, <1>10, Places
  <2>2. CASE m_sent = NULL
    <3>1. m_freeList' = rest /\ (Free \ {node}) \union Sent = Free \ {node}
      BY <1>3, <2>2, Places
    <3> QED BY <1>6, <2>1, <3>1, ListKept
  <2>3. CASE m_sent # NULL
    <3>1. /\ m_freeList' = m_sent /\ Sent = {m_sent} /\ m_sent \in Nodes
          /\ m_sent \notin Free \ {node} /\ next'[m_sent] = rest
      BY <1>3, <1>8, <1>10, <2>3, Places
    <3>2. ListOf(Nodes, NULL, next', m_sent, (Free \ {node}) \union {m_sent})
      BY <1>6, <2>1, <3>1, TransferAssumption, ListAdd
    <3> QED BY <3>1, <3>2
  <2> QED BY <2>2, <2>3
<1>15. /\ m_sent' # NULL => next'[m_sent'] = NULL
       /\ returning' # NULL => next'[returning'] = head'
  <2>1. returning # NULL => /\ returning \in Nodes /\ returning # node
                            /\ returning # m_sent
    <3> SUFFICES ASSUME returning # NULL
                 PROVE  returning \in Nodes /\ returning # node /\ returning # m_sent
      OBVIOUS
    <3>1. returning \in Nodes /\ returning \in Returning
      BY Places
    <3>2. returning \notin Sent
      BY <1>2, <3>1 DEF Apart
    <3> QED BY <1>7, <3>1, <3>2, Places
  <2> QED BY <1>1, <1>3, <1>8, <2>1
<1>16. /\ Linked' /\ Returned' = Returned /\ Pulled' = Pulled
       /\ Free' = (Free \ {node}) \union Sent /\ Held' = Held
  BY <1>11, <1>12, <1>13, <1>14, <1>15, ListsNext
<1>17. Sent' = {node} /\ Returning' = Returning
  <2>1. node # NULL
    BY TransferAssumption
  <2> QED BY <1>3, <2>1 DEF Sent, Returning, One
<1>18. Apart'
  BY <1>2, <1>7, <1>16, <1>17 DEF Apart
<1>19. NoneLost'
  BY <1>2, <1>4, <1>16, <1>17 DEF NoneLost
<1>20. m_freeList' \in Pointer
  BY <1>1, <1>3, <1>5
<1> QED BY <1>4, <1>9, <1>16, <1>17, <1>18, <1>19, <1>20

\* Receive moves the node of the slot to the held list.
LEMMA ReceiveMoves ==
  ASSUME TransferInv, Receive
  PROVE  /\ Linked' /\ Apart' /\ NoneLost'
         /\ Sent' = {} /\ Held' = Held \union Sent
         /\ Returned' = Returned /\ Pulled' = Pulled /\ Free' = Free
         /\ Returning' = Returning
         /\ next' \in [Nodes -> Pointer] /\ m_heldList' \in Pointer
<1>1. /\ IsList(m_returned, Returned) /\ IsList(m_reclaimList, Pulled)
      /\ IsList(m_freeList, Free) /\ IsList(m_heldList, Held)
      /\ next \in [Nodes -> Pointer] /\ Nodes \subseteq Pointer
      /\ m_heldList \in Pointer
      /\ returning = NULL /\ returning' = returning /\ live' = live
  BY DEF TransferInv, Types, Linked, Pointer, Receive
<1>2. Apart /\ NoneLost
  BY DEF TransferInv
<1>3. /\ m_sent' = NULL /\ m_returned' = m_returned
      /\ m_reclaimList' = m_reclaimList /\ m_freeList' = m_freeList
  BY DEF Receive
<1>4. Sent' = {} /\ Returning' = Returning
  BY <1>1, <1>3 DEF Sent, Returning, One
<1>5. CASE m_sent = NULL
  <2>1. next' = next /\ m_heldList' = m_heldList
    BY <1>5 DEF Receive
  <2>2. /\ Linked' /\ Returned' = Returned /\ Pulled' = Pulled
        /\ Free' = Free /\ Held' = Held
    BY <1>1, <1>3, <2>1, ListsNext DEF IsList
  <2>3. Sent = {}
    BY <1>5, Places
  <2>4. Apart' /\ NoneLost'
    BY <1>1, <1>2, <1>4, <2>2, <2>3 DEF Apart, NoneLost
  <2> QED BY <1>1, <1>4, <2>1, <2>2, <2>3, <2>4
<1>6. CASE m_sent # NULL
  <2>1. /\ m_sent \in Nodes /\ Sent = {m_sent} /\ m_heldList' = m_sent
        /\ next' = [next EXCEPT ![m_sent] = m_heldList]
    BY <1>6, Places DEF Receive
  <2>2. /\ m_sent \notin Returned /\ m_sent \notin Pulled /\ m_sent \notin Free
        /\ m_sent \notin Held
    BY <1>2, <2>1 DEF Apart
  <2>3. next'[m_sent] = m_heldList /\ \A n : n # m_sent => next'[n] = next[n]
    BY <1>1, <2>1
  <2>4. ListOf(Nodes, NULL, next', m_returned', Returned)
    <3>1. \A n \in Returned : next'[n] = next[n]
      BY <2>2, <2>3
    <3> QED BY <1>1, <1>3, <3>1, ListKept DEF IsList
  <2>5. ListOf(Nodes, NULL, next', m_reclaimList', Pulled)
    <3>1. \A n \in Pulled : next'[n] = next[n]
      BY <2>2, <2>3
    <3> QED BY <1>1, <1>3, <3>1, ListKept DEF IsList
  <2>6. ListOf(Nodes, NULL, next', m_freeList', Free)
    <3>1. \A n \in Free : next'[n] = next[n]
      BY <2>2, <2>3
    <3> QED BY <1>1, <1>3, <3>1, ListKept DEF IsList
  <2>7. ListOf(Nodes, NULL, next', m_heldList', Held \union {m_sent})
    <3>1. \A n \in Held : next'[n] = next[n]
      BY <2>2, <2>3
    <3>2. ListOf(Nodes, NULL, next, m_heldList, Held)
      BY <1>1 DEF IsList
    <3> QED BY <2>1, <2>2, <2>3, <3>1, <3>2, TransferAssumption, ListAdd
  <2>8. /\ Linked' /\ Returned' = Returned /\ Pulled' = Pulled
        /\ Free' = Free /\ Held' = Held \union {m_sent}
    BY <1>1, <1>3, <2>4, <2>5, <2>6, <2>7, ListsNext
  <2>9. Apart' /\ NoneLost'
    BY <1>1, <1>2, <1>4, <2>1, <2>8 DEF Apart, NoneLost
  <2>10. next' \in [Nodes -> Pointer]
    BY <1>1, <2>1
  <2> QED BY <1>1, <1>4, <2>1, <2>8, <2>9, <2>10
<1> QED BY <1>5, <1>6

\* Return takes its node out of the held list.
LEMMA ReturnMoves ==
  ASSUME TransferInv, NEW node \in Nodes, Return(node)
  PROVE  /\ Linked' /\ Apart' /\ NoneLost'
         /\ Returning = {} /\ Returning' = {node} /\ node \in Held
         /\ Held' = Held \ {node}
         /\ Sent' = Sent /\ Returned' = Returned /\ Pulled' = Pulled /\ Free' = Free
         /\ next' \in [Nodes -> Pointer] /\ m_heldList' \in Pointer
<1>1. /\ IsList(m_returned, Returned) /\ IsList(m_reclaimList, Pulled)
      /\ IsList(m_freeList, Free) /\ IsList(m_heldList, Held)
      /\ m_sent # NULL => next[m_sent] = NULL
      /\ next \in [Nodes -> Pointer] /\ Nodes \subseteq Pointer
      /\ m_heldList \in Pointer /\ m_returned \in Pointer
  BY DEF TransferInv, Types, Linked, Pointer
<1>2. Apart /\ NoneLost
  BY DEF TransferInv
<1>3. /\ returning = NULL /\ node \in Held /\ returning' = node /\ head' = m_returned
      /\ next' = [n \in Nodes |->
                   IF n = node THEN m_returned
                   ELSE IF n \in Held /\ next[n] = node THEN next[node]
                   ELSE next[n]]
      /\ m_heldList' = (IF m_heldList = node THEN next[node] ELSE m_heldList)
      /\ m_sent' = m_sent /\ m_returned' = m_returned /\ live' = live
      /\ m_reclaimList' = m_reclaimList /\ m_freeList' = m_freeList
  BY DEF Return, Held
<1>4. Sent' = Sent /\ Returning = {} /\ Returning' = {node}
  <2>1. node # NULL
    BY TransferAssumption
  <2> QED BY <1>3, <2>1 DEF Sent, Returning, One
<1>5. /\ \A n \in Nodes : n \notin Held => next'[n] = next[n]
      /\ next'[node] = m_returned
      /\ \A n \in Held \ {node} :
           next'[n] = IF next[n] = node THEN next[node] ELSE next[n]
  BY <1>3, Places
<1>6. next' \in [Nodes -> Pointer] /\ m_heldList' \in Pointer
  <2>1. \A n \in Nodes : next[n] \in Pointer
    BY <1>1
  <2>2. next[node] \in Pointer
    BY <2>1
  <2>3. \A n \in Nodes : next'[n] \in Pointer
    BY <1>1, <1>3, <2>1, <2>2
  <2>4. m_heldList' \in Pointer
    BY <1>1, <1>3, <2>2
  <2> QED BY <1>3, <2>3, <2>4
<1>7. ListOf(Nodes, NULL, next', m_returned', Returned)
  <2>1. \A n \in Returned : next'[n] = next[n]
    BY <1>2, <1>5, Places DEF Apart
  <2> QED BY <1>1, <1>3, <2>1, ListKept DEF IsList
<1>8. ListOf(Nodes, NULL, next', m_reclaimList', Pulled)
  <2>1. \A n \in Pulled : next'[n] = next[n]
    BY <1>2, <1>5, Places DEF Apart
  <2> QED BY <1>1, <1>3, <2>1, ListKept DEF IsList
<1>9. ListOf(Nodes, NULL, next', m_freeList', Free)
  <2>1. \A n \in Free : next'[n] = next[n]
    BY <1>2, <1>5, Places DEF Apart
  <2> QED BY <1>1, <1>3, <2>1, ListKept DEF IsList
<1>10. ListOf(Nodes, NULL, next', m_heldList', Held \ {node})
  <2>1. ListOf(Nodes, NULL, next', IF m_heldList = node THEN next[node] ELSE m_heldList,
               Held \ {node})
    BY <1>1, <1>3, <1>5, TransferAssumption, ListRemove DEF IsList
  <2> QED BY <1>3, <2>1
<1>11. /\ m_sent' # NULL => next'[m_sent'] = NULL
       /\ returning' # NULL => next'[returning'] = head'
  <2>1. m_sent # NULL => m_sent \in Nodes /\ m_sent \notin Held
    BY <1>2, Places DEF Apart
  <2> QED BY <1>1, <1>3, <1>5, <2>1
<1>12. /\ Linked' /\ Returned' = Returned /\ Pulled' = Pulled
       /\ Free' = Free /\ Held' = Held \ {node}
  BY <1>7, <1>8, <1>9, <1>10, <1>11, ListsNext
<1>13. Apart' /\ NoneLost'
  BY <1>2, <1>3, <1>4, <1>12 DEF Apart, NoneLost
<1> QED BY <1>3, <1>4, <1>6, <1>12, <1>13

\* The compare and swap of Return puts its node in front of the stack, or
\* moves nothing.
LEMMA PushReturnedMoves ==
  ASSUME TransferInv, PushReturned
  PROVE  /\ Linked' /\ Apart' /\ NoneLost'
         /\ Returned' \union Returning' = Returned \union Returning
         /\ Sent' = Sent /\ Pulled' = Pulled /\ Free' = Free /\ Held' = Held
         /\ next' \in [Nodes -> Pointer] /\ m_returned' \in Pointer
         /\ returning' \in Pointer /\ head' \in Pointer
<1>1. /\ IsList(m_returned, Returned) /\ IsList(m_reclaimList, Pulled)
      /\ IsList(m_freeList, Free) /\ IsList(m_heldList, Held)
      /\ m_sent # NULL => next[m_sent] = NULL
      /\ next[returning] = head
      /\ next \in [Nodes -> Pointer] /\ m_returned \in Pointer /\ NULL \in Pointer
      /\ returning \in Pointer
      /\ m_sent' = m_sent /\ m_reclaimList' = m_reclaimList /\ live' = live
      /\ m_freeList' = m_freeList /\ m_heldList' = m_heldList
  BY DEF TransferInv, Types, Linked, Pointer, PushReturned
<1>2. Apart /\ NoneLost
  BY DEF TransferInv
<1>3. returning # NULL /\ returning \in Nodes /\ Returning = {returning}
  BY Places DEF PushReturned
<1>4. /\ returning \notin Sent /\ returning \notin Returned /\ returning \notin Pulled
      /\ returning \notin Free /\ returning \notin Held
  BY <1>2, <1>3 DEF Apart
<1>5. Sent' = Sent
  BY <1>1 DEF Sent, One
<1>6. CASE m_returned = head
  <2>1. m_returned' = returning /\ returning' = NULL /\ head' = NULL /\ next' = next
    BY <1>6 DEF PushReturned
  <2>2. ListOf(Nodes, NULL, next', m_returned', Returned \union {returning})
    <3>1. ListOf(Nodes, NULL, next, m_returned, Returned)
      BY <1>1 DEF IsList
    <3>2. next'[returning] = m_returned /\ \A n \in Returned : next'[n] = next[n]
      BY <1>1, <1>6, <2>1
    <3> QED BY <1>3, <1>4, <2>1, <3>1, <3>2, TransferAssumption, ListAdd
  <2>3. /\ Linked' /\ Returned' = Returned \union {returning} /\ Pulled' = Pulled
        /\ Free' = Free /\ Held' = Held
    BY <1>1, <2>1, <2>2, ListsNext DEF IsList
  <2>4. Returning' = {}
    BY <2>1 DEF Returning, One
  <2>5. Apart' /\ NoneLost'
    BY <1>1, <1>2, <1>3, <1>5, <2>3, <2>4 DEF Apart, NoneLost
  <2> QED BY <1>1, <1>3, <1>5, <2>1, <2>3, <2>4, <2>5
<1>7. CASE m_returned # head
  <2>1. /\ m_returned' = m_returned /\ returning' = returning /\ head' = m_returned
        /\ next' = [next EXCEPT ![returning] = m_returned]
    BY <1>7 DEF PushReturned
  <2>2. next'[returning] = m_returned /\ \A n : n # returning => next'[n] = next[n]
    BY <1>1, <1>3, <2>1
  <2>3. /\ ListOf(Nodes, NULL, next', m_returned', Returned)
        /\ ListOf(Nodes, NULL, next', m_reclaimList', Pulled)
        /\ ListOf(Nodes, NULL, next', m_freeList', Free)
        /\ ListOf(Nodes, NULL, next', m_heldList', Held)
    <3>1. /\ \A n \in Returned : next'[n] = next[n]
          /\ \A n \in Pulled : next'[n] = next[n]
          /\ \A n \in Free : next'[n] = next[n]
          /\ \A n \in Held : next'[n] = next[n]
      BY <1>4, <2>2
    <3> QED BY <1>1, <2>1, <3>1, ListKept DEF IsList
  <2>4. /\ m_sent' # NULL => next'[m_sent'] = NULL
        /\ returning' # NULL => next'[returning'] = head'
    <3>1. m_sent # NULL => m_sent # returning
      BY <1>4, Places
    <3> QED BY <1>1, <2>1, <2>2, <3>1
  <2>5. /\ Linked' /\ Returned' = Returned /\ Pulled' = Pulled
        /\ Free' = Free /\ Held' = Held
    BY <2>3, <2>4, ListsNext
  <2>6. Returning' = Returning
    BY <2>1 DEF Returning
  <2>7. Apart' /\ NoneLost'
    BY <1>1, <1>2, <1>5, <2>5, <2>6 DEF Apart, NoneLost
  <2>8. next' \in [Nodes -> Pointer]
    BY <1>1, <2>1
  <2> QED BY <1>1, <1>5, <2>1, <2>5, <2>6, <2>7, <2>8
<1> QED BY <1>6, <1>7

\* The destructor finds every node.
LEMMA DestroyMoves ==
  ASSUME TransferInv, Destroy
  PROVE  /\ Linked' /\ Apart' /\ NoneLost' /\ live' = {}
         /\ Sent' = {} /\ Returned' = {} /\ Pulled' = {} /\ Free' = {} /\ Held' = {}
         /\ Returning' = {}
         /\ next' \in [Nodes -> Pointer] /\ ptr' \in [Nodes -> Objects \union {NULL}]
<1>1. NoneLost /\ returning = NULL /\ returning' = NULL
  BY DEF TransferInv, Destroy
<1>2. live' = {}
  <2>1. Destroyed = Sent \union Returned \union Pulled \union Held \union Free
    BY SentIs DEF Destroyed, Returned, Pulled, Held, Free
  <2>2. Returning = {}
    BY <1>1, Places
  <2> QED BY <1>1, <2>1, <2>2 DEF NoneLost, Destroy
<1>3. /\ m_sent' = NULL /\ m_returned' = NULL /\ m_reclaimList' = NULL
      /\ m_freeList' = NULL /\ m_heldList' = NULL
  BY DEF Destroy
<1>4. ListOf(Nodes, NULL, next', NULL, {})
  BY ListNone
<1>5. /\ Linked' /\ Returned' = {} /\ Pulled' = {} /\ Free' = {} /\ Held' = {}
  BY <1>1, <1>3, <1>4, ListsNext
<1>6. Sent' = {} /\ Returning' = {}
  BY <1>1, <1>3 DEF Sent, Returning, One
<1>7. Apart' /\ NoneLost'
  BY <1>2, <1>5, <1>6 DEF Apart, NoneLost
<1>8. next' \in [Nodes -> Pointer] /\ ptr' \in [Nodes -> Objects \union {NULL}]
  <2>1. /\ next' = [n \in Nodes |-> IF n \in live' THEN next[n] ELSE NULL]
        /\ ptr' = [n \in Nodes |-> IF n \in live' THEN ptr[n] ELSE NULL]
    BY DEF Destroy
  <2>2. \A n \in Nodes : next'[n] = NULL /\ ptr'[n] = NULL
    BY <1>2, <2>1
  <2> QED BY <2>1, <2>2 DEF Pointer
<1> QED BY <1>2, <1>5, <1>6, <1>7, <1>8
-----------------------------------------------------------------------------
(* The steps and the objects *)

\* The nodes that carry an object are those that are not on the free list.
LEMMA LentIs ==
  ASSUME TransferInv
  PROVE  Lent = Sent \union Returned \union Pulled \union Held \union Returning
<1>1. Apart /\ NoneLost
  BY DEF TransferInv
<1> QED BY <1>1 DEF Apart, NoneLost, Lent

\* The nodes that were or are lent after a step of the sender that takes back a
\* node, and after one that sends.
LEMMA TakeBackLent ==
  ASSUME TransferInv, NEW node \in Pointer, TakeBack(node), UNCHANGED <<returning, head>>
  PROVE  Lent' = Lent \ One(node) /\ One(node) \subseteq Lent /\ ptr' = ptr /\ live' = live
<1>1. Free' = Free \union One(node) /\ One(node) \subseteq Returned \union Pulled
  BY TakeBackMoves
<1>2. live' = live /\ ptr' = ptr
  BY DEF TakeBack
<1>3. One(node) \subseteq Lent
  BY <1>1, LentIs
<1> QED BY <1>1, <1>2, <1>3 DEF Lent

LEMMA SwapLent ==
  ASSUME TransferInv, NEW p \in Objects, NEW node \in Nodes, Swap(p, node),
         UNCHANGED <<returning, head>>
  PROVE  /\ Lent' = (Lent \ Sent) \union {node} /\ node \notin Lent /\ Sent \subseteq Lent
         /\ \A n \in Lent : ptr'[n] = ptr[n]
         /\ ptr'[node] = p /\ ptr' \in [Nodes -> Objects \union {NULL}]
<1>1. /\ Sent' = {node} /\ Free' = (Free \ {node}) \union Sent
      /\ node \in Free \/ (node \notin live /\ Free = {})
      /\ live' = live \union {node}
  BY SwapMoves
<1>2. Sent \subseteq Lent /\ live \subseteq Nodes
  BY LentIs DEF TransferInv, Types
<1>3. node \notin Lent /\ Lent \subseteq Nodes
  BY <1>1, <1>2 DEF Lent
<1>4. Lent' = (Lent \ Sent) \union {node}
  <2>1. node \notin Sent
    BY <1>2, <1>3
  <2> QED BY <1>1, <2>1 DEF Lent
<1>5. ptr' = [ptr EXCEPT ![node] = p] /\ ptr \in [Nodes -> Objects \union {NULL}]
  BY DEF Swap, TransferInv, Types
<1> QED BY <1>2, <1>3, <1>4, <1>5

\* A send leaves every object with one owner, and allocates a node only when
\* every node there is carries another object.
LEMMA SwapOwned ==
  ASSUME TransferInv, NEW p \in Objects, NEW node \in Nodes, Swap(p, node),
         UNCHANGED <<returning, head>>,
         p \in mine \/ p = arg, arg' \in {arg, NULL}, p = arg => arg' = NULL,
         p \in mine => arg' = NULL,
         mine' \subseteq (mine \ {p}) \union Carried(Sent)
  PROVE  Owned' /\ FewNodes' /\ mine' \subseteq Objects
<1>1. /\ Lent' = (Lent \ Sent) \union {node} /\ node \notin Lent /\ Sent \subseteq Lent
      /\ \A n \in Lent : ptr'[n] = ptr[n]
      /\ ptr'[node] = p
  BY SwapLent
<1>2. /\ \A n \in Lent : ptr[n] \in Objects /\ ptr[n] \notin mine /\ ptr[n] # arg
      /\ \A m, n \in Lent : ptr[m] = ptr[n] => m = n
      /\ arg \notin mine /\ mine \subseteq Objects /\ NULL \notin Objects
  BY TransferAssumption DEF TransferInv, Owned, Types
<1>3. \A n \in Lent : ptr[n] # p
  BY <1>2
<1>4. Owned'
  <2>0. arg' = NULL
    OBVIOUS
  <2>1. \A n \in Lent' : ptr'[n] \in Objects /\ ptr'[n] \notin mine' /\ ptr'[n] # arg'
    <3> SUFFICES ASSUME NEW n \in Lent'
                 PROVE  ptr'[n] \in Objects /\ ptr'[n] \notin mine' /\ ptr'[n] # arg'
      OBVIOUS
    <3>1. CASE n = node
      <4>1. p \notin Carried(Sent)
        BY <1>1, <1>3 DEF Carried
      <4> QED BY <1>1, <1>2, <2>0, <3>1, <4>1
    <3>2. CASE n # node
      <4>1. n \in Lent /\ n \notin Sent
        BY <1>1, <3>2
      <4>2. ptr[n] \notin Carried(Sent)
        BY <1>1, <1>2, <4>1 DEF Carried
      <4> QED BY <1>1, <1>2, <2>0, <4>1, <4>2
    <3> QED BY <3>1, <3>2
  <2>2. \A m, n \in Lent' : ptr'[m] = ptr'[n] => m = n
    BY <1>1, <1>2, <1>3
  <2>3. arg' \notin mine'
    <3>1. Carried(Sent) \subseteq Objects
      BY <1>1, <1>2 DEF Carried
    <3> QED BY <1>2, <2>0, <3>1
  <2> QED BY <2>1, <2>2, <2>3 DEF Owned
<1>5. FewNodes'
  <2>1. /\ node \in Free \/ (node \notin live /\ Free = {})
        /\ live' = live \union {node}
    BY SwapMoves
  <2>2. CASE node \in Free
    <3>1. live' = live
      BY <2>1, <2>2 DEF TransferInv, NoneLost
    <3> QED BY <3>1 DEF TransferInv, FewNodes
  <2>3. CASE node \notin live /\ Free = {}
    <3>1. Lent = live
      BY <2>3 DEF Lent
    <3>2. PICK L : L = live \union {node}
      OBVIOUS
    <3> DEFINE f == [n \in L |-> IF n = node THEN p ELSE ptr[n]]
    <3>3. f \in [L -> Objects]
      BY <1>2, <3>1, <3>2
    <3>4. \A m, n \in L : f[m] = f[n] => m = n
      BY <1>2, <1>3, <3>1, <3>2
    <3>5. f \in Injection(L, Objects)
      BY <3>3, <3>4 DEF Injection, IsInjective
    <3>6. Cardinality(L) <= Cardinality(Objects)
      BY <3>5, TransferAssumption, FS_Injection
    <3> QED BY <2>1, <3>2, <3>6 DEF FewNodes
  <2> QED BY <2>1, <2>2, <2>3
<1>6. mine' \subseteq Objects
  <2>1. Carried(Sent) \subseteq Objects
    BY <1>1, <1>2 DEF Carried
  <2> QED BY <1>2, <2>1
<1> QED BY <1>4, <1>5, <1>6
-----------------------------------------------------------------------------
(* The invariant is inductive *)

LEMMA TransferInit == Init => TransferInv
<1> SUFFICES ASSUME Init PROVE TransferInv
  OBVIOUS
<1>1. ListOf(Nodes, NULL, next, NULL, {})
  BY ListNone
<1>2. Chain(NULL) = {}
  BY <1>1, ChainIs
<1>3. /\ Returned = {} /\ Pulled = {} /\ Free = {} /\ Held = {}
      /\ Sent = {} /\ Returning = {}
  BY <1>2 DEF Init, Returned, Pulled, Free, Held, Sent, Returning, One
<1>4. Linked
  BY <1>1, <1>3 DEF Init, Linked, IsList
<1>5. Apart /\ NoneLost /\ Owned
  BY <1>3 DEF Init, Apart, NoneLost, Owned, Lent
<1>6. Types
  BY DEF Init, Types, Pointer
<1>7. FewNodes
  BY TransferAssumption, FS_EmptySet, FS_CardinalityType DEF Init, FewNodes
<1> QED BY <1>4, <1>5, <1>6, <1>7 DEF TransferInv

\* A call of Reclaim of the sender, and one turn of the loop of Send.
LEMMA TakeBackInv ==
  ASSUME TransferInv, NEW node \in Pointer, TakeBack(node), UNCHANGED <<returning, head, arg>>,
         spc' \in {"idle", "drain", "swap"}, spc' = "idle" <=> arg' = NULL,
         mine' \in {mine, mine \union Carried(One(node))}
  PROVE  TransferInv'
<1>1. /\ Linked' /\ Apart' /\ NoneLost'
      /\ next' \in [Nodes -> Pointer] /\ m_reclaimList' \in Pointer
      /\ m_freeList' \in Pointer /\ m_returned' \in Pointer
  BY TakeBackMoves
<1>2. Lent' = Lent \ One(node) /\ One(node) \subseteq Lent /\ ptr' = ptr /\ live' = live
  BY TakeBackLent
<1>3. Carried(One(node)) \subseteq Objects /\ Owned
  BY <1>2 DEF Carried, Owned, TransferInv
<1>4. Owned'
  <2>1. \A n \in Lent' : ptr[n] \notin Carried(One(node))
    BY <1>2, <1>3 DEF Owned, Carried
  <2>2. arg \notin Carried(One(node))
    BY <1>2, <1>3 DEF Owned, Carried
  <2> QED BY <1>2, <1>3, <2>1, <2>2 DEF Owned
<1>5. Types'
  BY <1>1, <1>2, <1>3 DEF TransferInv, Types, TakeBack
<1>6. FewNodes'
  BY <1>2 DEF TransferInv, FewNodes
<1> QED BY <1>1, <1>4, <1>5, <1>6 DEF TransferInv

\* A call of SendNoReclaim, and the end of Send.
LEMMA SwapInv ==
  ASSUME TransferInv, NEW p \in Objects, NEW node \in Nodes, Swap(p, node),
         UNCHANGED <<returning, head>>, spc' = "idle", arg' = NULL,
         \/ p = arg /\ mine' = mine
         \/ p \in mine /\ arg = NULL /\ mine' = (mine \ {p}) \union Carried(One(m_sent))
  PROVE  TransferInv'
<1>1. /\ Linked' /\ Apart' /\ NoneLost' /\ live' = live \union {node}
      /\ next' \in [Nodes -> Pointer] /\ m_freeList' \in Pointer
  BY SwapMoves
<1>2. ptr' \in [Nodes -> Objects \union {NULL}]
  BY SwapLent
<1>3. mine' \subseteq (mine \ {p}) \union Carried(Sent)
  BY DEF Sent, TransferInv, Owned
<1>4. Owned' /\ FewNodes' /\ mine' \subseteq Objects
  BY <1>3, SwapOwned
<1>5. Types'
  BY <1>1, <1>2, <1>4 DEF TransferInv, Types, Swap, Pointer
<1> QED BY <1>1, <1>4, <1>5 DEF TransferInv

\* The steps of the receiver and the others keep who has what.
LEMMA SameLent ==
  ASSUME TransferInv, Types', Linked', Apart', NoneLost', Lent' = Lent, live' = live,
         UNCHANGED <<ptr, arg, mine>>
  PROVE  TransferInv'
  BY DEF TransferInv, Owned, FewNodes

LEMMA TransferNext == TransferInv /\ [Next]_vars => TransferInv'
<1> SUFFICES ASSUME TransferInv, [Next]_vars PROVE TransferInv'
  OBVIOUS
<1>1. ASSUME NEW p \in Objects, MakeObject(p) PROVE TransferInv'
  <2>1. UNCHANGED <<ptr, next, live, lists, spc, arg, returning, head>>
        /\ mine' = mine \union {p} /\ p \notin InUse
    BY <1>1 DEF MakeObject
  <2>2. /\ Sent' = Sent /\ Returned' = Returned /\ Pulled' = Pulled /\ Free' = Free
        /\ Held' = Held /\ Returning' = Returning
    BY <2>1 DEF lists, Sent, Returned, Pulled, Free, Held, Returning, Chain
  <2>3. Linked' /\ Apart' /\ NoneLost' /\ Lent' = Lent
    BY <2>1, <2>2 DEF TransferInv, Linked, IsList, Apart, NoneLost, Lent, lists
  <2>4. Owned'
    <3>1. \A n \in Lent : ptr[n] # p
      BY <2>1 DEF InUse, Carried, Lent, Free
    <3>2. arg # p
      BY <2>1, TransferAssumption DEF InUse, One
    <3> QED BY <2>1, <2>3, <3>1, <3>2 DEF TransferInv, Owned
  <2>5. Types' /\ FewNodes'
    BY <2>1 DEF TransferInv, Types, FewNodes, lists
  <2> QED BY <2>3, <2>4, <2>5 DEF TransferInv
<1>2. ASSUME NEW p \in Objects, Send(p) PROVE TransferInv'
  <2>1. UNCHANGED <<ptr, next, live, lists, returning, head>>
        /\ mine' = mine \ {p} /\ p \in mine /\ arg' = p /\ spc' = "drain"
    BY <1>2 DEF Send
  <2>2. /\ Sent' = Sent /\ Returned' = Returned /\ Pulled' = Pulled /\ Free' = Free
        /\ Held' = Held /\ Returning' = Returning
    BY <2>1 DEF lists, Sent, Returned, Pulled, Free, Held, Returning, Chain
  <2>3. Linked' /\ Apart' /\ NoneLost' /\ Lent' = Lent
    BY <2>1, <2>2 DEF TransferInv, Linked, IsList, Apart, NoneLost, Lent, lists
  <2>4. Owned'
    BY <2>1, <2>3 DEF TransferInv, Owned
  <2>5. Types' /\ FewNodes'
    <3>1. p # NULL
      BY TransferAssumption
    <3> QED BY <2>1, <3>1 DEF TransferInv, Types, FewNodes, lists
  <2> QED BY <2>3, <2>4, <2>5 DEF TransferInv
<1>3. ASSUME NEW p \in Objects, NEW node \in Nodes, SendNoReclaim(p, node)
      PROVE  TransferInv'
  <2>1. /\ Swap(p, node) /\ UNCHANGED <<returning, head>> /\ spc' = "idle" /\ arg' = NULL
        /\ p \in mine /\ arg = NULL /\ mine' = (mine \ {p}) \union Carried(One(m_sent))
    BY <1>3 DEF SendNoReclaim, TransferInv, Types
  <2> QED BY <2>1, SwapInv
<1>4. ASSUME NEW node \in Pointer, Reclaim(node) PROVE TransferInv'
  <2>1. /\ TakeBack(node) /\ UNCHANGED <<returning, head, arg>>
        /\ spc' \in {"idle", "drain", "swap"} /\ (spc' = "idle" <=> arg' = NULL)
        /\ mine' \in {mine, mine \union Carried(One(node))}
    BY <1>4 DEF Reclaim, TransferInv, Types
  <2> QED BY <2>1, TakeBackInv
<1>5. ASSUME NEW node \in Pointer, SendDrain(node) PROVE TransferInv'
  <2>1. /\ TakeBack(node) /\ UNCHANGED <<returning, head, arg>>
        /\ spc' \in {"idle", "drain", "swap"} /\ (spc' = "idle" <=> arg' = NULL)
        /\ mine' \in {mine, mine \union Carried(One(node))}
    BY <1>5 DEF SendDrain, TransferInv, Types
  <2> QED BY <2>1, TakeBackInv
<1>6. ASSUME NEW node \in Pointer, SendSwap(node) PROVE TransferInv'
  <2>1. /\ Swap(arg, node) /\ UNCHANGED <<returning, head>> /\ spc' = "idle"
        /\ arg' = NULL /\ arg \in Objects /\ mine' = mine
    BY <1>6 DEF SendSwap, TransferInv, Types
  <2>2. node \in Nodes
    <3>1. m_freeList # NULL => m_freeList \in Nodes
      BY Places
    <3> QED BY <2>1, <3>1 DEF Swap
  <2> QED BY <2>1, <2>2, SwapInv
<1>7. CASE Receive
  <2>1. /\ Linked' /\ Apart' /\ NoneLost'
        /\ Sent' = {} /\ Held' = Held \union Sent
        /\ Returned' = Returned /\ Pulled' = Pulled /\ Free' = Free
        /\ next' \in [Nodes -> Pointer] /\ m_heldList' \in Pointer
    BY <1>7, ReceiveMoves
  <2>2. live' = live /\ UNCHANGED <<ptr, arg, mine>> /\ Lent' = Lent
    BY <1>7, <2>1 DEF Receive, Lent
  <2>3. Types'
    BY <1>7, <2>1, <2>2 DEF TransferInv, Types, Receive, Pointer
  <2> QED BY <2>1, <2>2, <2>3, SameLent
<1>8. ASSUME NEW node \in Nodes, Return(node) PROVE TransferInv'
  <2>1. /\ Linked' /\ Apart' /\ NoneLost' /\ Free' = Free
        /\ next' \in [Nodes -> Pointer] /\ m_heldList' \in Pointer
    BY <1>8, ReturnMoves
  <2>2. live' = live /\ UNCHANGED <<ptr, arg, mine>> /\ Lent' = Lent
    BY <1>8, <2>1 DEF Return, Lent
  <2>3. Types'
    BY <1>8, <2>1, <2>2 DEF TransferInv, Types, Return, Pointer
  <2> QED BY <2>1, <2>2, <2>3, SameLent
<1>9. CASE PushReturned
  <2>1. /\ Linked' /\ Apart' /\ NoneLost' /\ Free' = Free
        /\ next' \in [Nodes -> Pointer] /\ m_returned' \in Pointer
        /\ returning' \in Pointer /\ head' \in Pointer
    BY <1>9, PushReturnedMoves
  <2>2. live' = live /\ UNCHANGED <<ptr, arg, mine>> /\ Lent' = Lent
    BY <1>9, <2>1 DEF PushReturned, Lent
  <2>3. Types'
    BY <1>9, <2>1, <2>2 DEF TransferInv, Types, PushReturned
  <2> QED BY <2>1, <2>2, <2>3, SameLent
<1>10. CASE Destroy
  <2>1. /\ Linked' /\ Apart' /\ NoneLost' /\ live' = {}
        /\ next' \in [Nodes -> Pointer] /\ ptr' \in [Nodes -> Objects \union {NULL}]
    BY <1>10, DestroyMoves
  <2>2. Owned'
    BY <1>10, <2>1 DEF Destroy, TransferInv, Owned, Lent
  <2>3. Types'
    BY <1>10, <2>1 DEF Destroy, TransferInv, Types, Pointer
  <2>4. FewNodes'
    BY <2>1, TransferAssumption, FS_EmptySet, FS_CardinalityType DEF FewNodes
  <2> QED BY <2>1, <2>2, <2>3, <2>4 DEF TransferInv
<1>11. CASE UNCHANGED vars
  <2>1. UNCHANGED <<ptr, next, live, m_sent, m_returned, m_reclaimList, m_freeList,
                    m_heldList, spc, arg, returning, head, mine>>
    BY <1>11 DEF vars, lists
  <2>2. /\ Sent' = Sent /\ Returned' = Returned /\ Pulled' = Pulled /\ Free' = Free
        /\ Held' = Held /\ Returning' = Returning
    BY <2>1 DEF Sent, Returned, Pulled, Free, Held, Returning, Chain
  <2>3. Linked' /\ Apart' /\ NoneLost' /\ Lent' = Lent
    BY <2>1, <2>2 DEF TransferInv, Linked, IsList, Apart, NoneLost, Lent
  <2>4. Types'
    BY <2>1 DEF TransferInv, Types
  <2> QED BY <2>1, <2>3, <2>4, SameLent
<1> QED
  BY <1>1, <1>2, <1>3, <1>4, <1>5, <1>6, <1>7, <1>8, <1>9, <1>10, <1>11
  DEF Next, SendStep, Pointer

LEMMA TransferAlways == Spec => []TransferInv
BY TransferInit, TransferNext, PTL DEF Spec

\* The types are right, and every list holds allocated nodes only: a node that
\* Reclaim, the receiver or the destructor reads has not been freed.
THEOREM TypesCorrect == Spec => []TypeOK
<1>1. TransferInv => TypeOK
  <2> SUFFICES ASSUME TransferInv PROVE TypeOK
    OBVIOUS
  <2>1. Types /\ NoneLost
    BY DEF TransferInv
  <2>2. Destroyed = Sent \union Returned \union Pulled \union Held \union Free
    BY SentIs DEF Destroyed, Returned, Pulled, Held, Free
  <2>3. Destroyed \subseteq live
    BY <2>1, <2>2 DEF NoneLost
  <2>4. {m_sent, m_returned, m_reclaimList, m_freeList, m_heldList, returning, head}
          \subseteq Pointer
    BY <2>1 DEF Types
  <2> QED BY <2>1, <2>3, <2>4 DEF Types, TypeOK
<1> QED BY <1>1, TransferAlways, PTL

\* Every allocated node is on exactly one of the lists of the two threads, on
\* its way between them, or with Return: the comment at AtomicPtrTransfer.h:107
\* holds under every interleaving, and the destructor leaks nothing.
THEOREM NodesOnOneList == Spec => []OneListEach
<1>1. TransferInv => OneListEach
  <2> SUFFICES ASSUME TransferInv, NEW n \in live
               PROVE  Cardinality({l \in 1 .. 6 :
                        n \in CASE l = 1 -> Sent [] l = 2 -> Returned [] l = 3 -> Pulled
                                [] l = 4 -> Free [] l = 5 -> Held [] l = 6 -> Returning}) = 1
    BY DEF OneListEach, Sent, Returned, Pulled, Free, Held, Returning
  <2> DEFINE places == {l \in 1 .. 6 :
                          n \in CASE l = 1 -> Sent [] l = 2 -> Returned [] l = 3 -> Pulled
                                  [] l = 4 -> Free [] l = 5 -> Held [] l = 6 -> Returning}
  <2>1. \A l : l \in places <=> \/ l = 1 /\ n \in Sent
                                \/ l = 2 /\ n \in Returned
                                \/ l = 3 /\ n \in Pulled
                                \/ l = 4 /\ n \in Free
                                \/ l = 5 /\ n \in Held
                                \/ l = 6 /\ n \in Returning
    OBVIOUS
  <2> HIDE DEF places
  <2>2. \/ n \in Sent \/ n \in Returned \/ n \in Pulled \/ n \in Free
        \/ n \in Held \/ n \in Returning
    BY DEF TransferInv, NoneLost
  <2>3. \E k : places = {k}
    <3>1. CASE n \in Sent
      <4>1. places = {1}
        BY <2>1, <3>1 DEF TransferInv, Apart
      <4> QED BY <4>1
    <3>2. CASE n \in Returned
      <4>1. places = {2}
        BY <2>1, <3>2 DEF TransferInv, Apart
      <4> QED BY <4>1
    <3>3. CASE n \in Pulled
      <4>1. places = {3}
        BY <2>1, <3>3 DEF TransferInv, Apart
      <4> QED BY <4>1
    <3>4. CASE n \in Free
      <4>1. places = {4}
        BY <2>1, <3>4 DEF TransferInv, Apart
      <4> QED BY <4>1
    <3>5. CASE n \in Held
      <4>1. places = {5}
        BY <2>1, <3>5 DEF TransferInv, Apart
      <4> QED BY <4>1
    <3>6. CASE n \in Returning
      <4>1. places = {6}
        BY <2>1, <3>6 DEF TransferInv, Apart
      <4> QED BY <4>1
    <3> QED BY <2>2, <3>1, <3>2, <3>3, <3>4, <3>5, <3>6
  <2>4. Cardinality(places) = 1
    BY <2>3, FS_Singleton
  <2> QED BY <2>4 DEF places
<1> QED BY <1>1, TransferAlways, PTL

\* However many objects are sent, replaced, returned and reclaimed, there are
\* never more nodes than objects: AllocNode takes a node from the free list
\* whenever one is there, so a warm transfer does not allocate.
THEOREM WarmTransferAllocatesNothing == Spec => []FewNodes
<1>1. TransferInv => FewNodes
  BY DEF TransferInv
<1> QED BY <1>1, TransferAlways, PTL
-----------------------------------------------------------------------------
(* The transfer is a slot and a set *)

slot == IF m_sent = NULL THEN NULL ELSE ptr[m_sent]
back == Carried(Returned \union Pulled \union Returning)
theirs == Carried(Held)

\* What the abstract variables are, over the nodes that carry an object.
LEMMA OwnersIs ==
  /\ back = {ptr[n] : n \in Returned \union Pulled \union Returning}
  /\ theirs = {ptr[n] : n \in Held}
  BY DEF back, theirs, Carried

\* The variables of PtrTransfer are these.
LEMMA MappedIs ==
  /\ Transfer!AInit <=> slot = NULL /\ back = {} /\ mine \union One(arg) = {} /\ theirs = {}
  /\ \A p : Transfer!AMake(p) <=>
       /\ p \notin (mine \union One(arg)) \union theirs \union back /\ p # slot
       /\ mine' \union One(arg)' = (mine \union One(arg)) \union {p}
       /\ slot' = slot /\ back' = back /\ theirs' = theirs
  /\ \A p : Transfer!ASend(p) <=>
       /\ p \in mine \union One(arg)
       /\ slot' = p
       /\ mine' \union One(arg)' \in
            {(mine \union One(arg)) \ {p},
             ((mine \union One(arg)) \ {p}) \union ({slot} \ {NULL})}
       /\ back' = back /\ theirs' = theirs
  /\ Transfer!AReceive <=>
       /\ slot # NULL
       /\ theirs' = theirs \union {slot}
       /\ slot' = NULL
       /\ back' = back /\ mine' \union One(arg)' = mine \union One(arg)
  /\ \A p : Transfer!AReturn(p) <=>
       /\ p \in theirs
       /\ theirs' = theirs \ {p}
       /\ back' = back \union {p}
       /\ slot' = slot /\ mine' \union One(arg)' = mine \union One(arg)
  /\ \A p : Transfer!AReclaim(p) <=>
       /\ p \in back
       /\ back' = back \ {p}
       /\ mine' \union One(arg)' \in {mine \union One(arg), (mine \union One(arg)) \union {p}}
       /\ slot' = slot /\ theirs' = theirs
  /\ Transfer!ADestroy <=>
       /\ slot' = NULL /\ back' = {} /\ theirs' = {}
       /\ mine' \union One(arg)' = mine \union One(arg)
  /\ UNCHANGED <<slot, back, mine, arg, theirs>> => UNCHANGED Transfer!avars
  BY DEF Transfer!AInit, Transfer!AMake, Transfer!ASend, Transfer!AReceive, Transfer!AReturn,
         Transfer!AReclaim, Transfer!ADestroy, Transfer!avars,
         slot, back, theirs, Returned, Pulled, Returning, Held

\* The transfer starts empty.
LEMMA SlotInit == Init => Transfer!AInit
<1> SUFFICES ASSUME Init PROVE Transfer!AInit
  OBVIOUS
<1>1. TransferInv
  BY TransferInit
<1>2. slot = NULL /\ mine = {} /\ One(arg) = {} /\ live = {}
  BY DEF Init, slot, One
<1>3. Returned = {} /\ Pulled = {} /\ Returning = {} /\ Held = {}
  BY <1>1, <1>2 DEF TransferInv, NoneLost
<1>4. back = {} /\ theirs = {}
  BY <1>3 DEF back, theirs, Carried
<1> QED BY <1>2, <1>4, MappedIs

\* Reclaim takes one object off the way back, or finds nothing.
LEMMA TakeBackMapped ==
  ASSUME TransferInv, NEW node \in Pointer, TakeBack(node), UNCHANGED <<returning, head, arg>>,
         mine' \in {mine, mine \union Carried(One(node))}
  PROVE  Transfer!ANext \/ UNCHANGED Transfer!avars
<1>1. /\ Returned' \union Pulled' = (Returned \union Pulled) \ One(node)
      /\ One(node) \subseteq Returned \union Pulled
      /\ Sent' = Sent /\ Held' = Held /\ Returning' = Returning
      /\ ptr' = ptr /\ m_sent' = m_sent
  BY TakeBackMoves DEF TakeBack
<1>2. slot' = slot /\ theirs' = theirs
  BY <1>1 DEF slot, theirs, Carried
<1>3. PICK W : W = Returned \union Pulled \union Returning
  OBVIOUS
<1>4. /\ back = Carried(W) /\ W \subseteq Lent /\ One(node) \subseteq W
      /\ Returned' \union Pulled' \union Returning' = W \ One(node)
  <2>1. Apart
    BY DEF TransferInv
  <2>2. One(node) \cap Returning = {}
    BY <1>1, <2>1 DEF Apart
  <2>3. Returned' \union Pulled' \union Returning' = W \ One(node)
    BY <1>1, <1>3, <2>2
  <2> QED BY <1>1, <1>3, <2>3, LentIs DEF back
<1>5. back' = Carried(W \ One(node))
  BY <1>1, <1>4 DEF back, Carried
<1>6. CASE node = NULL
  <2>1. One(node) = {}
    BY <1>6, OneIs
  <2>2. back' = back /\ mine' = mine
    BY <1>4, <1>5, <2>1 DEF Carried
  <2> QED BY <1>2, <2>2, MappedIs
<1>7. CASE node # NULL
  <2>1. One(node) = {node} /\ node \in W
    BY <1>4, <1>7, OneIs
  <2>2. PICK p : p = ptr[node]
    OBVIOUS
  <2>3. Carried(One(node)) = {p} /\ p \in Objects
    BY <1>4, <2>1, <2>2 DEF Carried, TransferInv, Owned
  <2>4. p \in back /\ back' = back \ {p}
    <3>1. \A n \in W : ptr[n] = p => n = node
      BY <1>4, <2>1, <2>2 DEF TransferInv, Owned
    <3> QED BY <1>4, <1>5, <2>1, <2>2, <3>1 DEF Carried
  <2>5. mine' \union One(arg)' \in {mine \union One(arg), (mine \union One(arg)) \union {p}}
    <3>1. One(arg)' = One(arg)
      BY DEF One
    <3> QED BY <2>3, <3>1
  <2>6. Transfer!AReclaim(p)
    BY <1>2, <2>4, <2>5, MappedIs
  <2> QED BY <2>3, <2>6 DEF Transfer!ANext
<1> QED BY <1>6, <1>7

\* The exchange of m_sent puts the object into the slot.
LEMMA SwapMapped ==
  ASSUME TransferInv, NEW p \in Objects, NEW node \in Nodes, Swap(p, node),
         UNCHANGED <<returning, head>>, arg' = NULL,
         \/ p = arg /\ mine' = mine
         \/ p \in mine /\ arg = NULL /\ mine' = (mine \ {p}) \union Carried(One(m_sent))
  PROVE  Transfer!ANext
<1>1. /\ Returned' = Returned /\ Pulled' = Pulled /\ Held' = Held
      /\ Returning' = Returning /\ m_sent' = node
  BY SwapMoves DEF Swap
<1>2. /\ node \notin Lent /\ ptr'[node] = p /\ \A n \in Lent : ptr'[n] = ptr[n]
      /\ Sent \subseteq Lent
  BY SwapLent
<1>3. slot' = p
  BY <1>1, <1>2, TransferAssumption DEF slot
<1>4. back' = back /\ theirs' = theirs
  <2>1. \A n \in Returned \union Pulled \union Returning \union Held : ptr'[n] = ptr[n]
    BY <1>2, LentIs
  <2>2. Returned' \union Pulled' \union Returning' = Returned \union Pulled \union Returning
    BY <1>1
  <2>3. back' = back
    BY <2>1, <2>2 DEF back, Carried
  <2>4. theirs' = theirs
    BY <1>1, <2>1 DEF theirs, Carried
  <2> QED BY <2>3, <2>4
<1>5. p \in mine \union One(arg) /\ One(arg)' = {}
  BY TransferAssumption DEF One
<1>6. Carried(One(m_sent)) = {slot} \ {NULL}
  <2>1. CASE m_sent = NULL
    <3>1. One(m_sent) = {} /\ slot = NULL
      BY <2>1, OneIs DEF slot
    <3> QED BY <3>1 DEF Carried
  <2>2. CASE m_sent # NULL
    <3>1. One(m_sent) = {m_sent} /\ slot = ptr[m_sent] /\ m_sent \in Lent
      BY <1>2, <2>2, OneIs, Places DEF slot
    <3>2. slot \in Objects
      BY <3>1 DEF TransferInv, Owned
    <3> QED BY <3>1, <3>2, TransferAssumption DEF Carried
  <2> QED BY <2>1, <2>2
<1>7. mine' \union One(arg)' \in
        {(mine \union One(arg)) \ {p},
         ((mine \union One(arg)) \ {p}) \union ({slot} \ {NULL})}
  <2>1. CASE p = arg /\ mine' = mine
    <3>1. One(arg) = {p} /\ p \notin mine
      BY <2>1, TransferAssumption DEF One, TransferInv, Owned
    <3> QED BY <1>5, <2>1, <3>1
  <2>2. CASE p \in mine /\ arg = NULL /\ mine' = (mine \ {p}) \union Carried(One(m_sent))
    <3>1. One(arg) = {}
      BY <2>2, OneIs
    <3> QED BY <1>5, <1>6, <2>2, <3>1
  <2> QED BY <2>1, <2>2
<1>8. Transfer!ASend(p)
  BY <1>3, <1>4, <1>5, <1>7, MappedIs
<1> QED BY <1>8 DEF Transfer!ANext

\* Every step of the transfer is a step of the slot and the set, or none.
LEMMA TransferMapped ==
  ASSUME TransferInv, [Next]_vars
  PROVE  Transfer!ANext \/ UNCHANGED Transfer!avars
<1>0. /\ Lent = Sent \union Returned \union Pulled \union Held \union Returning
      /\ \A n \in Lent : ptr[n] \in Objects
      /\ \A m, n \in Lent : ptr[m] = ptr[n] => m = n
  BY LentIs DEF TransferInv, Owned
<1>1. ASSUME NEW p \in Objects, MakeObject(p) PROVE Transfer!ANext
  <2>1. /\ UNCHANGED <<ptr, next, m_sent, m_returned, m_reclaimList, m_heldList, returning, arg>>
        /\ mine' = mine \union {p} /\ p \notin InUse
    BY <1>1 DEF MakeObject, lists
  <2>2. slot' = slot /\ back' = back /\ theirs' = theirs /\ One(arg)' = One(arg)
    BY <2>1 DEF slot, back, theirs, Returned, Pulled, Returning, Held, Carried, Chain, One
  <2>3. p \notin mine /\ p \notin One(arg) /\ \A n \in Lent : ptr[n] # p
    BY <2>1 DEF InUse, Carried, Lent, Free
  <2>4. p \notin back /\ p \notin theirs
    BY <1>0, <2>3, OwnersIs
  <2>5. p # slot
    <3>1. m_sent # NULL => m_sent \in Lent
      BY <1>0, Places
    <3> QED BY <2>3, <3>1, TransferAssumption DEF slot
  <2>6. Transfer!AMake(p)
    BY <2>1, <2>2, <2>3, <2>4, <2>5, MappedIs
  <2> QED BY <2>6 DEF Transfer!ANext
<1>2. ASSUME NEW p \in Objects, Send(p) PROVE UNCHANGED Transfer!avars
  <2>1. /\ UNCHANGED <<ptr, next, m_sent, m_returned, m_reclaimList, m_heldList, returning>>
        /\ mine' = mine \ {p} /\ p \in mine /\ arg = NULL /\ arg' = p
    BY <1>2 DEF Send, lists, TransferInv, Types
  <2>2. slot' = slot /\ back' = back /\ theirs' = theirs
    BY <2>1 DEF slot, back, theirs, Returned, Pulled, Returning, Held, Carried, Chain, One
  <2>3. mine' \union One(arg)' = mine \union One(arg)
    <3>1. One(arg) = {} /\ One(arg)' = {p}
      BY <2>1, TransferAssumption DEF One
    <3> QED BY <2>1, <3>1
  <2> QED BY <2>2, <2>3 DEF Transfer!avars, slot, back, theirs, Returned, Pulled,
                            Returning, Held
<1>3. ASSUME NEW p \in Objects, NEW node \in Nodes, SendNoReclaim(p, node)
      PROVE  Transfer!ANext
  <2>1. /\ Swap(p, node) /\ UNCHANGED <<returning, head>> /\ arg' = NULL
        /\ p \in mine /\ arg = NULL /\ mine' = (mine \ {p}) \union Carried(One(m_sent))
    BY <1>3 DEF SendNoReclaim, TransferInv, Types
  <2> QED BY <2>1, SwapMapped
<1>4. ASSUME NEW node \in Pointer, Reclaim(node)
      PROVE  Transfer!ANext \/ UNCHANGED Transfer!avars
  <2>1. /\ TakeBack(node) /\ UNCHANGED <<returning, head, arg>>
        /\ mine' \in {mine, mine \union Carried(One(node))}
    BY <1>4 DEF Reclaim
  <2> QED BY <2>1, TakeBackMapped
<1>5. ASSUME NEW node \in Pointer, SendDrain(node)
      PROVE  Transfer!ANext \/ UNCHANGED Transfer!avars
  <2>1. /\ TakeBack(node) /\ UNCHANGED <<returning, head, arg>>
        /\ mine' \in {mine, mine \union Carried(One(node))}
    BY <1>5 DEF SendDrain
  <2> QED BY <2>1, TakeBackMapped
<1>6. ASSUME NEW node \in Pointer, SendSwap(node) PROVE Transfer!ANext
  <2>1. /\ Swap(arg, node) /\ UNCHANGED <<returning, head>>
        /\ arg' = NULL /\ arg \in Objects /\ mine' = mine
    BY <1>6 DEF SendSwap, TransferInv, Types
  <2>2. node \in Nodes
    <3>1. m_freeList # NULL => m_freeList \in Nodes
      BY Places
    <3> QED BY <2>1, <3>1 DEF Swap
  <2> QED BY <2>1, <2>2, SwapMapped
<1>7. ASSUME Receive PROVE Transfer!ANext \/ UNCHANGED Transfer!avars
  <2>1. /\ Held' = Held \union Sent /\ Returned' = Returned /\ Pulled' = Pulled
        /\ Returning' = Returning
    BY <1>7, ReceiveMoves
  <2>2. ptr' = ptr /\ m_sent' = NULL /\ UNCHANGED <<mine, arg>>
    BY <1>7 DEF Receive
  <2>3. back' = back /\ slot' = NULL /\ mine' \union One(arg)' = mine \union One(arg)
    BY <2>1, <2>2 DEF back, slot, Carried, One
  <2>4. CASE m_sent = NULL
    <3>1. slot' = slot /\ Held' = Held
      BY <2>1, <2>3, <2>4, Places DEF slot
    <3>2. theirs' = theirs
      BY <2>2, <3>1 DEF theirs, Carried
    <3> QED BY <2>2, <2>3, <3>1, <3>2, MappedIs
  <2>5. CASE m_sent # NULL
    <3>1. Sent = {m_sent} /\ m_sent \in Lent /\ slot = ptr[m_sent]
      BY <1>0, <2>5, Places DEF slot
    <3>2. theirs' = theirs \union {slot}
      BY <2>1, <2>2, <3>1 DEF theirs, Carried
    <3>3. slot # NULL
      BY <1>0, <3>1, TransferAssumption
    <3>4. Transfer!AReceive
      BY <2>3, <3>2, <3>3, MappedIs
    <3> QED BY <3>4 DEF Transfer!ANext
  <2> QED BY <2>4, <2>5
<1>8. ASSUME NEW node \in Nodes, Return(node) PROVE Transfer!ANext
  <2>1. /\ Returning = {} /\ Returning' = {node} /\ node \in Held
        /\ Held' = Held \ {node} /\ Returned' = Returned /\ Pulled' = Pulled
    BY <1>8, ReturnMoves
  <2>2. ptr' = ptr /\ m_sent' = m_sent /\ UNCHANGED <<mine, arg>>
    BY <1>8 DEF Return
  <2>3. slot' = slot /\ mine' \union One(arg)' = mine \union One(arg)
    BY <2>2 DEF slot, One
  <2>4. PICK p : p = ptr[node]
    OBVIOUS
  <2>5. p \in theirs /\ p \in Objects
    BY <1>0, <2>1, <2>4 DEF theirs, Carried
  <2>6. theirs' = theirs \ {p}
    <3>1. \A n \in Held : ptr[n] = p => n = node
      BY <1>0, <2>1, <2>4
    <3> QED BY <2>1, <2>2, <2>4, <3>1 DEF theirs, Carried
  <2>7. back' = back \union {p}
    BY <2>1, <2>2, <2>4 DEF back, Carried
  <2>8. Transfer!AReturn(p)
    BY <2>3, <2>5, <2>6, <2>7, MappedIs
  <2> QED BY <2>5, <2>8 DEF Transfer!ANext
<1>9. ASSUME PushReturned PROVE UNCHANGED Transfer!avars
  <2>1. /\ Returned' \union Returning' = Returned \union Returning
        /\ Pulled' = Pulled /\ Held' = Held
    BY <1>9, PushReturnedMoves
  <2>2. ptr' = ptr /\ m_sent' = m_sent /\ UNCHANGED <<mine, arg>>
    BY <1>9 DEF PushReturned
  <2>3. Returned' \union Pulled' \union Returning' = Returned \union Pulled \union Returning
    BY <2>1
  <2>4. slot' = slot /\ back' = back /\ theirs' = theirs
    BY <2>1, <2>2, <2>3 DEF slot, back, theirs, Carried
  <2> QED BY <2>2, <2>4, MappedIs
<1>10. ASSUME Destroy PROVE Transfer!ANext
  <2>1. /\ Returned' = {} /\ Pulled' = {} /\ Held' = {} /\ Returning' = {}
        /\ m_sent' = NULL /\ UNCHANGED <<mine, arg>>
    BY <1>10, DestroyMoves DEF Destroy
  <2>2. slot' = NULL /\ back' = {} /\ theirs' = {} /\ mine' \union One(arg)' = mine \union One(arg)
    BY <2>1 DEF slot, back, theirs, Carried, One
  <2>3. Transfer!ADestroy
    BY <2>2, MappedIs
  <2> QED BY <2>3 DEF Transfer!ANext
<1>11. ASSUME UNCHANGED vars PROVE UNCHANGED Transfer!avars
  <2>1. /\ UNCHANGED <<ptr, next, m_sent, m_returned, m_reclaimList, m_heldList, returning,
                       mine, arg>>
    BY <1>11 DEF vars, lists
  <2>2. slot' = slot /\ back' = back /\ theirs' = theirs
    BY <2>1 DEF slot, back, theirs, Returned, Pulled, Returning, Held, Carried, Chain, One
  <2> QED BY <2>1, <2>2, MappedIs
<1> QED
  BY <1>1, <1>2, <1>3, <1>4, <1>5, <1>6, <1>7, <1>8, <1>9, <1>10, <1>11
  DEF Next, SendStep, Pointer

\* Whatever the two threads race, the transfer is a slot that keeps the newest
\* object and a set of objects on their way back: no object is lost or reaches
\* both threads, and none of them comes back twice.
THEOREM TransferIsSlotAndSet == Spec => ImplementsTransfer
<1>1. TransferInv /\ [Next]_vars => [Transfer!ANext]_(Transfer!avars)
  BY TransferMapped
<1> QED BY <1>1, SlotInit, TransferAlways, PTL DEF Spec, ImplementsTransfer, Transfer!ASpec
=============================================================================
