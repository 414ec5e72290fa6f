------------------------ MODULE MpmcLinkedQueueProofs ------------------------
(***************************************************************************)
(* Proofs about MpmcStack, for any finite sets of threads and nodes and    *)
(* any stacks, and then about MpmcLinkedQueue, which is made of one.  What *)
(* is known of the stack holds of the queue's: turning a chain round       *)
(* relinks nodes of the thread that read it.                               *)
(***************************************************************************)
EXTENDS MpmcLinkedQueue, LinkedLists

-----------------------------------------------------------------------------
(* The inductive invariant *)

\* The walk from p ends at a null pointer and meets no node twice.
Good(p) == Path(Nodes, NULL, next, Walk(p), p)

Linking(t) == pc[t] \in {"push_load", "push_link", "push_cas"}
Loaded(t) == pc[t] \in {"push_link", "push_cas", "pop_next", "pop_cas", "all_cas"}

\* The stacks, and the chain a PopAll has detached, are linked up to a null
\* pointer.
Lists ==
  /\ \A s \in Stacks : Good(head[s].ptr)
  /\ \A t \in Threads : pc[t] = "all_count" => Good(old[t].ptr)

\* A chain being pushed is linked, and before TrySet linked to the old head.
ChainOK(t) ==
  Linking(t) =>
    /\ Distinct(Nodes, chain[t]) /\ chain[t] # <<>> /\ Links(next, chain[t])
    /\ Range(chain[t]) \cap held[t] = {}
    /\ pc[t] = "push_cas" => next[chain[t][Len(chain[t])]] = old[t].ptr

\* What the tag is for: no head is older than what a thread has loaded, so a
\* head that is equal to it has not changed in between, and item->next as Pop
\* read it is still what is behind the item, also when it has been swung out.
HeadOK(t) ==
  /\ Loaded(t) => old[t].tag <= head[stk[t]].tag
  /\ pc[t] = "pop_unlink" => nxt[t] = next[old[t].ptr]
  /\ pc[t] = "pop_cas" /\ old[t] = head[stk[t]] => nxt[t] = next[old[t].ptr]

\* No node is in two places.
Apart ==
  /\ \A t, u \in Threads : t # u => Owned(t) \cap Owned(u) = {}
  /\ \A r, s \in Stacks : r # s => Range(Items(r)) \cap Range(Items(s)) = {}
  /\ \A t \in Threads, s \in Stacks : Owned(t) \cap Range(Items(s)) = {}

\* No node is lost.
NoneLost ==
  \A n \in Nodes : \/ \E t \in Threads : n \in Owned(t)
                   \/ \E s \in Stacks : n \in Range(Items(s))

StackInv ==
  /\ TypeOK /\ Lists
  /\ \A t \in Threads : ChainOK(t) /\ HeadOK(t)
  /\ Apart /\ NoneLost

\* the nodes a Push has swung in and not counted yet, and the Pops likewise
Uncounted(s) ==
  {node \in Threads \X Nodes :
     /\ pc[node[1]] = "push_count" /\ stk[node[1]] = s
     /\ node[2] \in Range(chain[node[1]])}
Overcounted(s) ==
  {t \in Threads : pc[t] \in {"pop_unlink", "pop_count"} /\ stk[t] = s}

\* m_count lags behind the calls in progress and nothing else.
Counts ==
  /\ \A t \in Threads :
       /\ pc[t] \in {"all_load", "all_cas", "all_count"} => stk[t] \in PopAllStacks
       /\ pc[t] = "push_count" => Distinct(Nodes, chain[t])
  /\ \A s \in Stacks \ PopAllStacks :
       count[s] + Cardinality(Uncounted(s)) - Cardinality(Overcounted(s)) = Len(Items(s))
-----------------------------------------------------------------------------
(* Walks along next *)

\* A walk along a path gives the path.
LEMMA WalkIs ==
  ASSUME NEW c, NEW p, Path(Nodes, NULL, next, c, p)
  PROVE  Walk(p) = c
<1>1. PICK f : f = Follow(Nodes, NULL, next, p)
  OBVIOUS
<1>2. [k \in 1 .. Cardinality({j \in DOMAIN f : f[j] # NULL}) |-> f[k]] = c
  BY <1>1, StackAssumption, WalkPath
<1>3. /\ f = [k \in 1 .. Cardinality(Nodes) |->
                IF k = 1 THEN p
                ELSE IF f[k - 1] = NULL THEN NULL ELSE next[f[k - 1]]]
      /\ \A g : g = [k \in 1 .. Cardinality(Nodes) |->
                       IF k = 1 THEN p
                       ELSE IF g[k - 1] = NULL THEN NULL ELSE next[g[k - 1]]]
                => g = f
  BY <1>1, StackAssumption, FollowPath
<1>4. (CHOOSE at : at = [k \in 1 .. Cardinality(Nodes) |->
                           IF k = 1 THEN p
                           ELSE IF at[k - 1] = NULL THEN NULL ELSE next[at[k - 1]]]) = f
  BY <1>1 DEF Follow
<1>5. Walk(p) = [k \in 1 .. Cardinality({j \in DOMAIN f : f[j] # NULL}) |-> f[k]]
  BY <1>3, <1>4 DEF Walk
<1> QED BY <1>2, <1>5

\* The same of the state after a step.
LEMMA WalkIsNext ==
  ASSUME NEW c, NEW p, Path(Nodes, NULL, next', c, p)
  PROVE  Walk(p)' = c
<1>1. PICK f : f = Follow(Nodes, NULL, next', p)
  OBVIOUS
<1>2. [k \in 1 .. Cardinality({j \in DOMAIN f : f[j] # NULL}) |-> f[k]] = c
  BY <1>1, StackAssumption, WalkPath
<1>3. /\ f = [k \in 1 .. Cardinality(Nodes) |->
                IF k = 1 THEN p
                ELSE IF f[k - 1] = NULL THEN NULL ELSE next'[f[k - 1]]]
      /\ \A g : g = [k \in 1 .. Cardinality(Nodes) |->
                       IF k = 1 THEN p
                       ELSE IF g[k - 1] = NULL THEN NULL ELSE next'[g[k - 1]]]
                => g = f
  BY <1>1, StackAssumption, FollowPath
<1>4. (CHOOSE at : at = [k \in 1 .. Cardinality(Nodes) |->
                           IF k = 1 THEN p
                           ELSE IF at[k - 1] = NULL THEN NULL ELSE next'[at[k - 1]]]) = f
  BY <1>1 DEF Follow
<1>5. Walk(p)' = [k \in 1 .. Cardinality({j \in DOMAIN f : f[j] # NULL}) |-> f[k]]
  BY <1>3, <1>4 DEF Walk
<1> QED BY <1>2, <1>5

\* A walk is left alone by a step that relinks other nodes.
LEMMA WalkKept ==
  ASSUME NEW p, Good(p), \A n \in Range(Walk(p)) : next'[n] = next[n]
  PROVE  Walk(p)' = Walk(p) /\ Path(Nodes, NULL, next', Walk(p), p)
<1>1. Path(Nodes, NULL, next', Walk(p), p)
  BY PathKept DEF Good
<1> QED BY <1>1, WalkIsNext

\* The nodes of a stack are nodes.
LEMMA ItemsAre ==
  ASSUME StackInv, NEW s \in Stacks
  PROVE  /\ Distinct(Nodes, Items(s)) /\ Range(Items(s)) \subseteq Nodes
         /\ Items(s) # <<>> => head[s].ptr \in Range(Items(s))
         /\ head[s].ptr \in Nodes => head[s].ptr \in Range(Items(s))
<1>1. Path(Nodes, NULL, next, Items(s), head[s].ptr)
  BY DEF StackInv, Lists, Good, Items
<1>2. Distinct(Nodes, Items(s))
  BY <1>1 DEF Path
<1> QED BY <1>1, <1>2, PathNull, PathRange, StackAssumption
-----------------------------------------------------------------------------
(* What a step of one thread leaves alone *)

\* A thread's locals and its nodes.
Same(u) ==
  /\ pc'[u] = pc[u] /\ stk'[u] = stk[u] /\ old'[u] = old[u]
  /\ chain'[u] = chain[u] /\ nxt'[u] = nxt[u] /\ held'[u] = held[u]

\* No node moves.
Unmoved ==
  /\ \A s \in Stacks : Items(s)' = Items(s)
  /\ \A u \in Threads : Owned(u)' = Owned(u)

\* A step of a thread that relinks only nodes of its own, and swings a head only
\* with its tag, does not disturb the other threads.
LEMMA OthersKept ==
  ASSUME StackInv, NEW t \in Threads, NEW u \in Threads, u # t, Same(u),
         NEW S, S \subseteq Owned(t), \A n \in Nodes \ S : next'[n] = next[n],
         \A s \in Stacks : head'[s] = head[s] \/ head'[s].tag = head[s].tag + 1
  PROVE  /\ ChainOK(u)' /\ HeadOK(u)' /\ Owned(u)' = Owned(u)
         /\ pc'[u] = "all_count" =>
              Good(old[u].ptr)' /\ Walk(old[u].ptr)' = Walk(old[u].ptr)
<1>0. Owned(u) \cap S = {} /\ \A s \in Stacks : Range(Items(s)) \cap S = {}
  BY DEF StackInv, Apart
<1>1. ASSUME Linking(u)
      PROVE  /\ Distinct(Nodes, chain[u]) /\ Range(chain[u]) \subseteq Nodes
             /\ Range(chain[u]) = {chain[u][i] : i \in 1 .. Len(chain[u])}
             /\ Range(chain[u]) \subseteq Owned(u) /\ Len(chain[u]) \in Nat \ {0}
  BY <1>1, PathRange DEF StackInv, ChainOK, Owned, Linking
<1>2. Linking(u) => \A i \in 1 .. Len(chain[u]) : next'[chain[u][i]] = next[chain[u][i]]
  BY <1>0, <1>1
<1>3. ChainOK(u)'
  <2> SUFFICES ASSUME Linking(u) PROVE ChainOK(u)'
    BY DEF ChainOK, Linking, Same
  <2>1. /\ Distinct(Nodes, chain[u]) /\ chain[u] # <<>> /\ Links(next, chain[u])
        /\ Range(chain[u]) \cap held[u] = {}
        /\ pc[u] = "push_cas" => next[chain[u][Len(chain[u])]] = old[u].ptr
    BY DEF StackInv, ChainOK
  <2>2. Links(next', chain[u])
    BY <1>1, <1>2, <2>1 DEF Links
  <2>3. next'[chain[u][Len(chain[u])]] = next[chain[u][Len(chain[u])]]
    BY <1>1, <1>2
  <2> QED BY <2>1, <2>2, <2>3 DEF ChainOK, Same
<1>4. HeadOK(u)'
  <2>1. /\ HeadOK(u) /\ stk[u] \in Stacks /\ old[u].tag \in Nat
        /\ head[stk[u]].tag \in Nat
        /\ pc[u] \in {"pop_cas", "pop_unlink"} => old[u].ptr \in Nodes
    BY DEF StackInv, TypeOK
  <2>4. pc[u] = "pop_unlink" => next'[old[u].ptr] = next[old[u].ptr]
    BY <1>0, <2>1 DEF Owned
  <2>2. CASE head'[stk[u]] = head[stk[u]]
    <3>1. pc[u] = "pop_cas" /\ old[u] = head[stk[u]] =>
            next'[old[u].ptr] = next[old[u].ptr]
      <4>1. pc[u] = "pop_cas" /\ old[u] = head[stk[u]] =>
              old[u].ptr \in Range(Items(stk[u]))
        BY <2>1, ItemsAre
      <4> QED BY <1>0, <2>1, <4>1
    <3> QED BY <2>1, <2>2, <2>4, <3>1 DEF HeadOK, Loaded, Same
  <2>3. CASE head'[stk[u]].tag = head[stk[u]].tag + 1
    BY <2>1, <2>3, <2>4 DEF HeadOK, Loaded, Same
  <2> QED BY <2>1, <2>2, <2>3
<1>5. pc[u] = "all_count" =>
        Walk(old[u].ptr)' = Walk(old[u].ptr) /\ Good(old[u].ptr)'
  <2> SUFFICES ASSUME pc[u] = "all_count"
      PROVE  Walk(old[u].ptr)' = Walk(old[u].ptr) /\ Good(old[u].ptr)'
    OBVIOUS
  <2>1. Good(old[u].ptr) /\ Range(Walk(old[u].ptr)) \subseteq Owned(u)
    BY DEF StackInv, Lists, Owned
  <2>2. Range(Walk(old[u].ptr)) \subseteq Nodes
    BY <2>1, PathRange DEF Good, Path
  <2>3. /\ Walk(old[u].ptr)' = Walk(old[u].ptr)
        /\ Path(Nodes, NULL, next', Walk(old[u].ptr), old[u].ptr)
    BY <1>0, <2>1, <2>2, WalkKept DEF Same
  <2> QED BY <2>3 DEF Good, Same
<1>6. Owned(u)' = Owned(u)
  BY <1>5 DEF Owned, Same
<1> QED BY <1>3, <1>4, <1>5, <1>6 DEF Same

\* Nor does it disturb the stacks whose head it does not move.
LEMMA StackKept ==
  ASSUME StackInv, NEW t \in Threads, NEW s \in Stacks, head'[s].ptr = head[s].ptr,
         NEW S, S \subseteq Owned(t), \A n \in Nodes \ S : next'[n] = next[n]
  PROVE  Items(s)' = Items(s) /\ Good(head[s].ptr)'
<1>1. /\ Range(Items(s)) \cap S = {} /\ Range(Items(s)) \subseteq Nodes
      /\ Good(head[s].ptr)
  BY ItemsAre DEF StackInv, Apart, Lists
<1>2. \A n \in Range(Walk(head[s].ptr)) : next'[n] = next[n]
  BY <1>1 DEF Items
<1>3. /\ Walk(head[s].ptr)' = Walk(head[s].ptr)
      /\ Path(Nodes, NULL, next', Walk(head[s].ptr), head[s].ptr)
  BY <1>1, <1>2, WalkKept
<1> QED BY <1>3 DEF Items, Good

\* If no node moves, each is still in one place.
LEMMA NothingMoves ==
  ASSUME StackInv, \A t \in Threads : Owned(t)' = Owned(t),
         \A s \in Stacks : Items(s)' = Items(s)
  PROVE  Apart' /\ NoneLost'
  BY DEF StackInv, Apart, NoneLost

\* If nodes of one thread move to a stack, each is still in one place.
LEMMA MovesIn ==
  ASSUME StackInv, NEW t \in Threads, NEW s \in Stacks, NEW S, S \subseteq Owned(t),
         Owned(t)' = Owned(t) \ S, \A u \in Threads \ {t} : Owned(u)' = Owned(u),
         Range(Items(s))' = Range(Items(s)) \union S,
         \A r \in Stacks \ {s} : Items(r)' = Items(r)
  PROVE  Apart' /\ NoneLost'
<1>1. Apart /\ NoneLost
  BY DEF StackInv
<1>2. Apart'
  <2>1. \A u, v \in Threads : u # v => Owned(u)' \cap Owned(v)' = {}
    BY <1>1 DEF Apart
  <2>2. \A q, r \in Stacks : q # r => Range(Items(q))' \cap Range(Items(r))' = {}
    BY <1>1 DEF Apart
  <2>3. \A u \in Threads, r \in Stacks : Owned(u)' \cap Range(Items(r))' = {}
    BY <1>1 DEF Apart
  <2> QED BY <2>1, <2>2, <2>3 DEF Apart
<1>3. NoneLost'
  BY <1>1 DEF NoneLost
<1> QED BY <1>2, <1>3

\* If nodes of a stack move to one thread, each is still in one place.
LEMMA MovesOut ==
  ASSUME StackInv, NEW t \in Threads, NEW s \in Stacks,
         NEW S, S \subseteq Range(Items(s)),
         Owned(t)' = Owned(t) \union S, \A u \in Threads \ {t} : Owned(u)' = Owned(u),
         Range(Items(s))' = Range(Items(s)) \ S,
         \A r \in Stacks \ {s} : Items(r)' = Items(r)
  PROVE  Apart' /\ NoneLost'
<1>1. Apart /\ NoneLost
  BY DEF StackInv
<1>2. Apart'
  <2>1. \A u, v \in Threads : u # v => Owned(u)' \cap Owned(v)' = {}
    BY <1>1 DEF Apart
  <2>2. \A q, r \in Stacks : q # r => Range(Items(q))' \cap Range(Items(r))' = {}
    BY <1>1 DEF Apart
  <2>3. \A u \in Threads, r \in Stacks : Owned(u)' \cap Range(Items(r))' = {}
    BY <1>1 DEF Apart
  <2> QED BY <2>1, <2>2, <2>3 DEF Apart
<1>3. NoneLost'
  BY <1>1 DEF NoneLost
<1> QED BY <1>2, <1>3
-----------------------------------------------------------------------------
(* One step *)

\* A chain of nodes is what its name says.
LEMMA ChainIs ==
  ASSUME NEW S, S \subseteq Nodes, NEW c, c \in Chains(S)
  PROVE  /\ Distinct(Nodes, c) /\ c # <<>> /\ Len(c) \in Nat \ {0}
         /\ c \in [1 .. Len(c) -> S] /\ Range(c) \subseteq S
<1>1. PICK n \in 1 .. Cardinality(S) : c \in [1 .. n -> S] /\ IsInjective(c)
  BY DEF Chains
<1>2. n \in Nat /\ n # 0
  OBVIOUS
<1>3. c \in Seq(Nodes) /\ Len(c) = n
  BY <1>1, <1>2
<1>4. \A i, j \in 1 .. Len(c) : c[i] = c[j] => i = j
  BY <1>1, <1>2, <1>3 DEF IsInjective
<1>5. c # <<>>
  BY <1>2, <1>3
<1> QED BY <1>1, <1>2, <1>3, <1>4, <1>5 DEF Distinct, Range

\* The end of a call.
LEMMA ReturnTypes ==
  ASSUME TypeOK, NEW t \in Threads, Return(t)
  PROVE  /\ old' \in [Threads -> [ptr : Nodes \union {NULL}, tag : Nat]]
         /\ chain' \in [Threads -> Seq(Nodes)]
         /\ nxt' \in [Threads -> Nodes \union {NULL}]
         /\ pc' = [pc EXCEPT ![t] = "idle"]
         /\ \A u \in Threads : u # t => old'[u] = old[u]
<1>1. Null \in [ptr : Nodes \union {NULL}, tag : Nat] /\ <<>> \in Seq(Nodes)
  BY DEF Null
<1> QED BY <1>1 DEF TypeOK, Return, Goto

\* A successful compare and swap.
LEMMA TrySetTypes ==
  ASSUME TypeOK, NEW t \in Threads, NEW p \in Nodes \union {NULL}, TrySet(t, p)
  PROVE  /\ head' \in [Stacks -> [ptr : Nodes \union {NULL}, tag : Nat]]
         /\ head[stk[t]] = old[t] /\ stk[t] \in Stacks
         /\ head'[stk[t]] = [ptr |-> p, tag |-> head[stk[t]].tag + 1]
         /\ \A s \in Stacks \ {stk[t]} : head'[s] = head[s]
         /\ \A s \in Stacks : head'[s] = head[s] \/ head'[s].tag = head[s].tag + 1
<1>1. stk[t] \in Stacks /\ old[t] \in [ptr : Nodes \union {NULL}, tag : Nat]
  BY DEF TypeOK
<1>2. [ptr |-> p, tag |-> old[t].tag + 1] \in [ptr : Nodes \union {NULL}, tag : Nat]
  BY <1>1
<1> QED BY <1>1, <1>2 DEF TypeOK, TrySet

\* What the locals of a thread hold keeps its type.
LEMMA StackTypes ==
  ASSUME StackInv, [Next]_vars
  PROVE  TypeOK'
<1> USE DEF StackInv, locals, Goto
<1>1. CASE UNCHANGED vars
  BY <1>1 DEF vars, TypeOK
<1>2. ASSUME NEW t \in Threads, Step(t) PROVE TypeOK'
  <2>1. CASE PushLoad(t)
    BY <2>1 DEF PushLoad, LoadHead, TypeOK
  <2>2. CASE PushLink(t)
    <3>1. chain[t] \in Seq(Nodes) /\ chain[t] # <<>> /\ old[t].ptr \in Nodes \union {NULL}
      BY <2>2 DEF PushLink, ChainOK, Linking, TypeOK
    <3> QED BY <2>2, <3>1 DEF PushLink, TypeOK
  <2>3. CASE PushCas(t)
    <3>1. chain[t][1] \in Nodes
      BY <2>3, EmptySeq DEF PushCas, ChainOK, Linking, TypeOK
    <3>2. head' \in [Stacks -> [ptr : Nodes \union {NULL}, tag : Nat]]
      BY <2>3, <3>1, TrySetTypes DEF PushCas, TypeOK
    <3> QED BY <2>3, <3>2 DEF PushCas, TypeOK
  <2>4. CASE PushCount(t)
    <3>1. count' \in [Stacks -> Int]
      BY <2>4 DEF PushCount, TypeOK
    <3> QED BY <2>4, <3>1, ReturnTypes DEF PushCount, TypeOK
  <2>5. CASE PopLoad(t)
    <3>1. CASE head[stk[t]].ptr = NULL
      BY <2>5, <3>1, ReturnTypes DEF PopLoad, TypeOK
    <3>2. CASE head[stk[t]].ptr # NULL
      BY <2>5, <3>2 DEF PopLoad, LoadHead, TypeOK
    <3> QED BY <3>1, <3>2
  <2>6. CASE PopNext(t)
    BY <2>6 DEF PopNext, TypeOK
  <2>7. CASE PopCas(t)
    <3>1. head' \in [Stacks -> [ptr : Nodes \union {NULL}, tag : Nat]]
      BY <2>7, TrySetTypes DEF PopCas, TypeOK
    <3> QED BY <2>7, <3>1 DEF PopCas, TypeOK
  <2>8. CASE PopUnlink(t)
    BY <2>8 DEF PopUnlink, TypeOK
  <2>9. CASE PopCount(t)
    <3>1. count' \in [Stacks -> Int] /\ held' \in [Threads -> SUBSET Nodes]
      BY <2>9 DEF PopCount, TypeOK
    <3> QED BY <2>9, <3>1, ReturnTypes DEF PopCount, TypeOK
  <2>10. CASE AllLoad(t)
    BY <2>10 DEF AllLoad, LoadHead, TypeOK
  <2>11. CASE AllCas(t)
    <3>1. head' \in [Stacks -> [ptr : Nodes \union {NULL}, tag : Nat]]
      BY <2>11, TrySetTypes DEF AllCas, TypeOK
    <3> QED BY <2>11, <3>1 DEF AllCas, TypeOK
  <2>12. CASE AllCount(t)
    <3>0. Range(Walk(old[t].ptr)) \subseteq Nodes
      BY <2>12, PathRange DEF AllCount, Lists, Good, Path
    <3>1. count' \in [Stacks -> Int] /\ held' \in [Threads -> SUBSET Nodes]
      BY <2>12, <3>0 DEF AllCount, TypeOK
    <3>2. Return(t) /\ UNCHANGED <<head, next, stk>>
      BY <2>12 DEF AllCount, Return
    <3> QED BY <3>1, <3>2, ReturnTypes DEF TypeOK, Return
  <2> QED BY <1>2, <2>1, <2>2, <2>3, <2>4, <2>5, <2>6, <2>7, <2>8, <2>9, <2>10,
             <2>11, <2>12 DEF Step
<1>3. ASSUME NEW t \in Threads, NEW s \in Stacks, CallPush(t, s) PROVE TypeOK'
  <2>1. PICK c \in Chains(held[t]) :
          /\ chain' = [chain EXCEPT ![t] = c]
          /\ held' = [held EXCEPT ![t] = @ \ Range(c)]
          /\ next' = [n \in Nodes |->
                       IF \E i \in 1 .. Len(c) - 1 : c[i] = n
                       THEN c[1 + CHOOSE i \in 1 .. Len(c) - 1 : c[i] = n]
                       ELSE IF n = c[Len(c)] THEN NULL ELSE next[n]]
    BY <1>3 DEF CallPush
  <2>2. held[t] \subseteq Nodes
    BY DEF TypeOK
  <2>3. c \in Seq(Nodes) /\ c \in [1 .. Len(c) -> Nodes] /\ Len(c) \in Nat
    BY <2>1, <2>2, ChainIs DEF Distinct
  <2>4. \A i \in 1 .. Len(c) - 1 : c[1 + i] \in Nodes
    BY <2>3
  <2>5. next' \in [Nodes -> Nodes \union {NULL}]
    BY <2>1, <2>4 DEF TypeOK
  <2>6. chain' \in [Threads -> Seq(Nodes)] /\ held' \in [Threads -> SUBSET Nodes]
    BY <2>1, <2>3 DEF TypeOK
  <2> QED BY <1>3, <2>5, <2>6 DEF CallPush, Call, TypeOK
<1>4. ASSUME NEW t \in Threads, NEW s \in Stacks, CallPop(t, s) \/ CallPopAll(t, s)
      PROVE  TypeOK'
  BY <1>4 DEF CallPop, CallPopAll, Call, TypeOK
<1>5. ASSUME NEW t \in Threads, NEW s \in Stacks, Reset(t, s) PROVE TypeOK'
  <2>1. Range(Items(s)) \subseteq Nodes
    BY ItemsAre
  <2>2. Null \in [ptr : Nodes \union {NULL}, tag : Nat]
    BY DEF Null
  <2> QED BY <1>5, <2>1, <2>2 DEF Reset, TypeOK
<1> QED BY <1>1, <1>2, <1>3, <1>4, <1>5 DEF Next

\* What is left to show of a step of one thread.
LEMMA StackStep ==
  ASSUME StackInv, TypeOK', NEW t \in Threads, \A u \in Threads \ {t} : Same(u),
         NEW S, S \subseteq Owned(t), \A n \in Nodes \ S : next'[n] = next[n],
         \A s \in Stacks : head'[s] = head[s] \/ head'[s].tag = head[s].tag + 1,
         ChainOK(t)', HeadOK(t)', pc'[t] = "all_count" => Good(old[t].ptr)',
         \A s \in Stacks : Good(head[s].ptr)',
         Apart', NoneLost'
  PROVE  StackInv'
<1>1. \A u \in Threads \ {t} :
        /\ ChainOK(u)' /\ HeadOK(u)'
        /\ pc'[u] = "all_count" => Good(old[u].ptr)'
  BY OthersKept
<1>2. Lists'
  BY <1>1 DEF Lists
<1> QED BY <1>1, <1>2 DEF StackInv

\* A step of one thread that moves no head and no node.
LEMMA HeadsKept ==
  ASSUME StackInv, TypeOK', NEW t \in Threads, \A u \in Threads \ {t} : Same(u),
         head' = head, Owned(t)' = Owned(t),
         NEW S, S \subseteq Owned(t), \A n \in Nodes \ S : next'[n] = next[n],
         ChainOK(t)', HeadOK(t)', pc'[t] # "all_count"
  PROVE  StackInv' /\ Unmoved
<1>1. \A s \in Stacks : Items(s)' = Items(s) /\ Good(head[s].ptr)'
  BY StackKept
<1>2. \A u \in Threads : Owned(u)' = Owned(u)
  BY OthersKept
<1>3. Apart' /\ NoneLost'
  BY <1>1, <1>2, NothingMoves
<1>4. StackInv'
  BY <1>1, <1>3, StackStep
<1> QED BY <1>1, <1>2, <1>4 DEF Unmoved

\* A step that changes only where a call is and what it has loaded.
LEMMA QuietStep ==
  ASSUME StackInv, TypeOK', NEW t \in Threads, \A u \in Threads \ {t} : Same(u),
         UNCHANGED <<head, next>>, Owned(t)' = Owned(t),
         ChainOK(t)', HeadOK(t)', pc'[t] # "all_count"
  PROVE  StackInv' /\ Unmoved
  BY HeadsKept, {} \subseteq Owned(t)
-----------------------------------------------------------------------------
(* The steps *)

\* The caller's links do not reach a node that another thread or a stack has.
LEMMA CallPushKeeps ==
  ASSUME StackInv, TypeOK', NEW t \in Threads, NEW r \in Stacks, CallPush(t, r)
  PROVE  StackInv' /\ Unmoved
<1>1. PICK c \in Chains(held[t]) :
        /\ chain' = [chain EXCEPT ![t] = c]
        /\ held' = [held EXCEPT ![t] = @ \ Range(c)]
        /\ next' = [n \in Nodes |->
                     IF \E i \in 1 .. Len(c) - 1 : c[i] = n
                     THEN c[1 + CHOOSE i \in 1 .. Len(c) - 1 : c[i] = n]
                     ELSE IF n = c[Len(c)] THEN NULL ELSE next[n]]
  BY DEF CallPush
<1>2. /\ pc[t] = "idle" /\ pc' = [pc EXCEPT ![t] = "push_load"]
      /\ stk' = [stk EXCEPT ![t] = r] /\ UNCHANGED <<head, old, nxt>>
  BY DEF CallPush, Call, Goto
<1>3. /\ held[t] \subseteq Nodes /\ Threads = DOMAIN pc /\ Threads = DOMAIN stk
      /\ Threads = DOMAIN chain /\ Threads = DOMAIN held
  BY DEF StackInv, TypeOK
<1>4. /\ Distinct(Nodes, c) /\ c # <<>> /\ Len(c) \in Nat \ {0}
      /\ c \in [1 .. Len(c) -> held[t]] /\ Range(c) \subseteq held[t]
      /\ Range(c) = {c[i] : i \in 1 .. Len(c)}
  BY <1>1, <1>3, ChainIs, PathRange
<1>5. Links(next', c)
  <2> SUFFICES ASSUME NEW i \in 1 .. Len(c) - 1 PROVE next'[c[i]] = c[i + 1]
    BY DEF Links
  <2>1. i \in 1 .. Len(c) /\ c[i] \in Nodes
    BY <1>3, <1>4
  <2>2. \A j \in 1 .. Len(c) - 1 : c[j] = c[i] => j = i
    BY <1>4, <2>1 DEF Distinct
  <2>3. (CHOOSE j \in 1 .. Len(c) - 1 : c[j] = c[i]) = i
    BY <2>2
  <2>4. next'[c[i]] = c[1 + CHOOSE j \in 1 .. Len(c) - 1 : c[j] = c[i]]
    BY <1>1, <2>1
  <2>5. 1 + i = i + 1
    OBVIOUS
  <2> QED BY <2>3, <2>4, <2>5
<1>6. \A n \in Nodes \ Range(c) : next'[n] = next[n]
  <2> SUFFICES ASSUME NEW n \in Nodes \ Range(c) PROVE next'[n] = next[n]
    OBVIOUS
  <2>1. (\A i \in 1 .. Len(c) - 1 : c[i] # n) /\ c[Len(c)] # n
    BY <1>4
  <2> QED BY <1>1, <2>1
<1>7. chain'[t] = c /\ held'[t] = held[t] \ Range(c) /\ pc'[t] = "push_load"
  BY <1>1, <1>2, <1>3
<1>8. Owned(t)' = Owned(t) /\ Range(c) \subseteq Owned(t)
  <2>1. Owned(t) = held[t] /\ Owned(t)' = held'[t] \union Range(c)
    BY <1>2, <1>7 DEF Owned
  <2> QED BY <1>4, <1>7, <2>1
<1>9. ChainOK(t)' /\ HeadOK(t)'
  BY <1>4, <1>5, <1>7 DEF ChainOK, HeadOK, Loaded
<1>10. \A u \in Threads \ {t} : Same(u)
  BY <1>1, <1>2, <1>3 DEF Same
<1> QED BY <1>2, <1>4, <1>6, <1>7, <1>8, <1>9, <1>10, HeadsKept

\* The last node of the chain is linked to the head that was loaded.
LEMMA PushLinkKeeps ==
  ASSUME StackInv, TypeOK', NEW t \in Threads, PushLink(t)
  PROVE  StackInv' /\ Unmoved
<1>1. /\ pc[t] = "push_link" /\ pc' = [pc EXCEPT ![t] = "push_cas"]
      /\ next' = [next EXCEPT ![chain[t][Len(chain[t])]] = old[t].ptr]
      /\ UNCHANGED <<head, held, stk, old, chain, nxt>>
  BY DEF PushLink, Goto, locals
<1>2. /\ Distinct(Nodes, chain[t]) /\ chain[t] # <<>> /\ Links(next, chain[t])
      /\ Range(chain[t]) \cap held[t] = {}
  BY <1>1 DEF StackInv, ChainOK, Linking
<1> DEFINE c == chain[t]
           n == Len(c)
<1>3. /\ n \in Nat \ {0} /\ Range(c) = {c[i] : i \in 1 .. n} /\ Range(c) \subseteq Nodes
      /\ DOMAIN next = Nodes /\ DOMAIN pc = Threads
      /\ \A i, j \in 1 .. n : c[i] = c[j] => i = j
  BY <1>2, PathRange DEF StackInv, TypeOK, Distinct
<1> HIDE DEF c
<1>4. n \in 1 .. n /\ c[n] \in Range(c) /\ c[n] \in Nodes
  BY <1>3
<1>5. next'[c[n]] = old[t].ptr /\ \A m \in Nodes \ {c[n]} : next'[m] = next[m]
  BY <1>1, <1>3, <1>4 DEF c
<1>6. Links(next', c)
  <2>1. \A i \in 1 .. n - 1 : c[i] # c[n] /\ c[i] \in Nodes
    BY <1>3
  <2> QED BY <1>2, <1>5, <2>1 DEF Links, c
<1>7. chain'[t] = c /\ held'[t] = held[t] /\ pc'[t] = "push_cas" /\ old'[t] = old[t]
  BY <1>1, <1>3 DEF c
<1>8. ChainOK(t)'
  BY <1>2, <1>5, <1>6, <1>7 DEF ChainOK, c
<1>9. HeadOK(t)'
  BY <1>1, <1>7 DEF StackInv, HeadOK, Loaded
<1>10. Owned(t)' = Owned(t) /\ {c[n]} \subseteq Owned(t)
  BY <1>1, <1>4, <1>7 DEF Owned, c
<1>11. \A u \in Threads \ {t} : Same(u)
  BY <1>1, <1>3 DEF Same
<1> QED BY <1>1, <1>5, <1>7, <1>8, <1>9, <1>10, <1>11, HeadsKept

\* The head is loaded, or found different and loaded again.
LEMMA LoadsKeep ==
  ASSUME StackInv, TypeOK', NEW t \in Threads,
         \/ PushLoad(t) \/ PopLoad(t) \/ PopNext(t) \/ AllLoad(t)
         \/ head[stk[t]] # old[t] /\ (PushCas(t) \/ PopCas(t) \/ AllCas(t))
  PROVE  StackInv' /\ Unmoved
<1>0. /\ DOMAIN pc = Threads /\ DOMAIN old = Threads /\ DOMAIN nxt = Threads
      /\ DOMAIN chain = Threads /\ stk[t] \in Stacks /\ head[stk[t]].tag \in Nat
  BY DEF StackInv, TypeOK
<1>1. UNCHANGED <<head, next>> /\ \A u \in Threads \ {t} : Same(u)
  BY <1>0 DEF PushLoad, PopLoad, PopNext, AllLoad, PushCas, PopCas, AllCas, TrySet,
              Return, LoadHead, Goto, locals, Same
<1>2. /\ held' = held
      /\ Linking(t)' = Linking(t) /\ (Linking(t) => chain'[t] = chain[t])
      /\ pc[t] \notin {"pop_unlink", "pop_count", "all_count"}
      /\ pc'[t] \notin {"push_cas", "pop_unlink", "pop_count", "all_count"}
  BY <1>0 DEF PushLoad, PopLoad, PopNext, AllLoad, PushCas, PopCas, AllCas, TrySet,
              Return, LoadHead, Goto, locals, Linking
<1>3. Owned(t)' = Owned(t)
  BY <1>2 DEF Owned, Linking
<1>4. ChainOK(t)'
  BY <1>1, <1>2 DEF StackInv, ChainOK
<1>5. HeadOK(t)'
  <2>1. pc'[t] \in {"push_link", "pop_next", "all_cas"} =>
          old'[t] = head[stk[t]] /\ stk' = stk
    BY <1>0 DEF PushLoad, PopLoad, PopNext, AllLoad, PushCas, PopCas, AllCas, TrySet,
                Return, LoadHead, Goto, locals
  <2>2. pc'[t] = "pop_cas" =>
          /\ nxt'[t] = next[old[t].ptr] /\ old'[t] = old[t] /\ stk' = stk
          /\ pc[t] = "pop_next"
    BY <1>0 DEF PushLoad, PopLoad, PopNext, AllLoad, PushCas, PopCas, AllCas, TrySet,
                Return, LoadHead, Goto, locals
  <2> QED BY <1>0, <1>1, <1>2, <2>1, <2>2 DEF StackInv, HeadOK, Loaded
<1> QED BY <1>1, <1>2, <1>3, <1>4, <1>5, QuietStep

\* A call starts that loads the head first.
LEMMA CallsKeep ==
  ASSUME StackInv, TypeOK', NEW t \in Threads, NEW s \in Stacks,
         CallPop(t, s) \/ CallPopAll(t, s)
  PROVE  StackInv' /\ Unmoved
<1>1. /\ pc[t] = "idle" /\ pc'[t] \in {"pop_load", "all_load"} /\ held' = held
      /\ UNCHANGED <<head, next>> /\ \A u \in Threads \ {t} : Same(u)
  BY DEF CallPop, CallPopAll, Call, Goto, Same, StackInv, TypeOK
<1>2. Owned(t)' = Owned(t) /\ ChainOK(t)' /\ HeadOK(t)'
  BY <1>1 DEF Owned, ChainOK, Linking, HeadOK, Loaded
<1> QED BY <1>1, <1>2, QuietStep

\* A call ends; what it returns is the caller's.
LEMMA CountsKeep ==
  ASSUME StackInv, TypeOK', NEW t \in Threads,
         PushCount(t) \/ PopCount(t) \/ AllCount(t)
  PROVE  StackInv' /\ Unmoved
<1>0. DOMAIN pc = Threads /\ DOMAIN held = Threads /\ DOMAIN old = Threads
      /\ DOMAIN chain = Threads /\ DOMAIN nxt = Threads
  BY DEF StackInv, TypeOK
<1>1. /\ pc'[t] = "idle" /\ UNCHANGED <<head, next>>
      /\ \A u \in Threads \ {t} : Same(u)
  BY <1>0 DEF PushCount, PopCount, AllCount, Return, Goto, Same
<1>2. Owned(t)' = held'[t]
  BY <1>1 DEF Owned
<1>3. Owned(t) = held'[t]
  <2>1. CASE PushCount(t)
    BY <2>1 DEF PushCount, Owned
  <2>2. CASE PopCount(t)
    BY <1>0, <2>2 DEF PopCount, Owned
  <2>3. CASE AllCount(t)
    BY <1>0, <2>3 DEF AllCount, Owned
  <2> QED BY <2>1, <2>2, <2>3
<1>4. ChainOK(t)' /\ HeadOK(t)'
  BY <1>1 DEF ChainOK, Linking, HeadOK, Loaded
<1> QED BY <1>1, <1>2, <1>3, <1>4, QuietStep

\* The node that was popped is unlinked.
LEMMA PopUnlinkKeeps ==
  ASSUME StackInv, TypeOK', NEW t \in Threads, PopUnlink(t)
  PROVE  StackInv' /\ Unmoved
<1>1. /\ pc[t] = "pop_unlink" /\ pc'[t] = "pop_count" /\ old' = old /\ held' = held
      /\ head' = head /\ \A n \in Nodes \ {old[t].ptr} : next'[n] = next[n]
      /\ \A u \in Threads \ {t} : Same(u)
  BY DEF PopUnlink, Goto, locals, Same, StackInv, TypeOK
<1>2. Owned(t)' = Owned(t) /\ {old[t].ptr} \subseteq Owned(t)
  BY <1>1 DEF Owned
<1>3. ChainOK(t)' /\ HeadOK(t)'
  BY <1>1 DEF ChainOK, Linking, HeadOK, Loaded
<1> QED BY <1>1, <1>2, <1>3, HeadsKept

\* The nodes of a stack after a step, by the links after it.
LEMMA NewItems ==
  ASSUME NEW s \in Stacks, NEW c, NEW p, p = head'[s].ptr,
         Path(Nodes, NULL, next', c, p)
  PROVE  Items(s)' = c /\ Good(head[s].ptr)'
<1>1. Walk(p)' = c
  BY WalkIsNext
<1> QED BY <1>1 DEF Items, Good

\* one list in front of another
Joined(c, d) == c \o d

\* A chain is swung in: its nodes, in order, are the top of the stack.
LEMMA PushCasMoves ==
  ASSUME StackInv, NEW t \in Threads, PushCas(t), head' # head,
         NEW r, r = stk[t], NEW c, c = chain[t]
  PROVE  /\ r \in Stacks /\ Range(c) \subseteq Owned(t) /\ Owned(t)' = Owned(t) \ Range(c)
         /\ Items(r)' = Joined(c, Items(r)) /\ Good(head[r].ptr)'
         /\ Range(Items(r))' = Range(Items(r)) \union Range(c)
         /\ Distinct(Nodes, c) /\ c # <<>> /\ head[r] = old[t]
         /\ pc[t] = "push_cas" /\ pc'[t] = "push_count"
         /\ UNCHANGED <<count, next, held, stk, old, chain, nxt>>
         /\ \A u \in Threads \ {t} : Same(u) /\ Owned(u)' = Owned(u)
         /\ \A s \in Stacks \ {r} : Items(s)' = Items(s) /\ Good(head[s].ptr)'
         /\ \A s \in Stacks : head'[s] = head[s] \/ head'[s].tag = head[s].tag + 1
<1>1. /\ pc[t] = "push_cas" /\ UNCHANGED <<count, next, held, stk, old, chain, nxt>>
      /\ pc'[t] = "push_count" /\ TrySet(t, c[1])
      /\ \A u \in Threads \ {t} : Same(u)
  BY DEF PushCas, locals, StackInv, TypeOK, Goto, Same
<1>2. /\ Distinct(Nodes, c) /\ c # <<>> /\ Links(next, c) /\ Range(c) \cap held[t] = {}
      /\ next[c[Len(c)]] = old[t].ptr
  BY <1>1 DEF StackInv, ChainOK, Linking
<1>3. c[1] \in Nodes
  BY <1>2, EmptySeq DEF Distinct
<1>4. /\ r \in Stacks /\ head[r] = old[t] /\ head'[r].ptr = c[1]
      /\ \A s \in Stacks \ {r} : head'[s] = head[s]
      /\ \A s \in Stacks : head'[s] = head[s] \/ head'[s].tag = head[s].tag + 1
  <2>1. /\ head[stk[t]] = old[t] /\ stk[t] \in Stacks
        /\ head'[stk[t]] = [ptr |-> c[1], tag |-> head[stk[t]].tag + 1]
        /\ \A s \in Stacks \ {stk[t]} : head'[s] = head[s]
        /\ \A s \in Stacks : head'[s] = head[s] \/ head'[s].tag = head[s].tag + 1
    BY <1>1, <1>3, TrySetTypes DEF StackInv
  <2> QED BY <2>1
<1>5. Owned(t) = held[t] \union Range(c) /\ Owned(t)' = held[t]
  BY <1>1 DEF Owned
<1>6. Range(Items(r)) \cap Range(c) = {}
  BY <1>4, <1>5 DEF StackInv, Apart
<1>7. Path(Nodes, NULL, next, Items(r), old[t].ptr)
  BY <1>4 DEF StackInv, Lists, Good, Items
<1>8. Path(Nodes, NULL, next, c \o Items(r), c[1])
  BY <1>2, <1>6, <1>7, PathConcat
<1>9. Items(r)' = c \o Items(r) /\ Good(head[r].ptr)'
  BY <1>1, <1>4, <1>8, NewItems
<1>10. \A u \in Threads \ {t} : Owned(u)' = Owned(u)
  BY <1>1, <1>4, OthersKept, {} \subseteq Owned(t)
<1>11. \A s \in Stacks \ {r} : Items(s)' = Items(s) /\ Good(head[s].ptr)'
  BY <1>1, <1>4, StackKept, {} \subseteq Owned(t)
<1>12. Range(c \o Items(r)) = Range(c) \union Range(Items(r))
  BY <1>2, <1>4, ItemsAre, RangeConcat
<1>13. Range(c) \subseteq Owned(t) /\ Owned(t)' = Owned(t) \ Range(c)
  BY <1>2, <1>5
<1>14. Range(Items(r))' = Range(Items(r)) \union Range(c)
  BY <1>9, <1>12
<1> QED BY <1>1, <1>2, <1>4, <1>9, <1>10, <1>11, <1>13, <1>14 DEF Joined

\* The stacks after a chain was swung in.
LEMMA PushCasKeeps ==
  ASSUME StackInv, TypeOK', NEW t \in Threads, PushCas(t), head' # head
  PROVE  StackInv'
<1>1. PICK r, c : r = stk[t] /\ c = chain[t]
  OBVIOUS
<1>2. /\ r \in Stacks /\ Range(c) \subseteq Owned(t) /\ Owned(t)' = Owned(t) \ Range(c)
      /\ Range(Items(r))' = Range(Items(r)) \union Range(c) /\ Good(head[r].ptr)'
      /\ pc'[t] = "push_count" /\ next' = next
      /\ \A u \in Threads \ {t} : Same(u) /\ Owned(u)' = Owned(u)
      /\ \A s \in Stacks \ {r} : Items(s)' = Items(s) /\ Good(head[s].ptr)'
      /\ \A s \in Stacks : head'[s] = head[s] \/ head'[s].tag = head[s].tag + 1
  BY <1>1, PushCasMoves
<1>3. Apart' /\ NoneLost'
  BY <1>2, MovesIn
<1>4. ChainOK(t)' /\ HeadOK(t)' /\ pc'[t] # "all_count"
  BY <1>2 DEF ChainOK, Linking, HeadOK, Loaded
<1>5. \A s \in Stacks : Good(head[s].ptr)'
  BY <1>2
<1> QED BY <1>2, <1>3, <1>4, <1>5, StackStep, {} \subseteq Owned(t)

\* A node is swung out: it was the top of the stack, and what is below it stays,
\* in order.
LEMMA PopCasMoves ==
  ASSUME StackInv, NEW t \in Threads, PopCas(t), head' # head,
         NEW r, r = stk[t], NEW n, n = old[t].ptr
  PROVE  /\ r \in Stacks /\ n \in Range(Items(r)) /\ Owned(t)' = Owned(t) \union {n}
         /\ Items(r) # <<>> /\ n = Head(Items(r))
         /\ Items(r)' = Tail(Items(r)) /\ Good(head[r].ptr)'
         /\ Range(Items(r))' = Range(Items(r)) \ {n}
         /\ Len(Items(r)') = Len(Items(r)) - 1 /\ nxt[t] = next[n]
         /\ pc[t] = "pop_cas" /\ pc'[t] = "pop_unlink"
         /\ UNCHANGED <<count, next, held, stk, old, chain, nxt>>
         /\ \A u \in Threads \ {t} : Same(u) /\ Owned(u)' = Owned(u)
         /\ \A s \in Stacks \ {r} : Items(s)' = Items(s) /\ Good(head[s].ptr)'
         /\ \A s \in Stacks : head'[s] = head[s] \/ head'[s].tag = head[s].tag + 1
<1>1. /\ pc[t] = "pop_cas" /\ UNCHANGED <<count, next, held, stk, old, chain, nxt>>
      /\ pc'[t] = "pop_unlink" /\ TrySet(t, nxt[t])
      /\ \A u \in Threads \ {t} : Same(u)
  BY DEF PopCas, locals, StackInv, TypeOK, Goto, Same
<1>2. n \in Nodes /\ nxt[t] \in Nodes \union {NULL}
  BY <1>1 DEF StackInv, TypeOK
<1>3. /\ r \in Stacks /\ head[r] = old[t] /\ head'[r].ptr = nxt[t]
      /\ \A s \in Stacks \ {r} : head'[s] = head[s]
      /\ \A s \in Stacks : head'[s] = head[s] \/ head'[s].tag = head[s].tag + 1
  <2>1. /\ head[stk[t]] = old[t] /\ stk[t] \in Stacks
        /\ head'[stk[t]] = [ptr |-> nxt[t], tag |-> head[stk[t]].tag + 1]
        /\ \A s \in Stacks \ {stk[t]} : head'[s] = head[s]
        /\ \A s \in Stacks : head'[s] = head[s] \/ head'[s].tag = head[s].tag + 1
    BY <1>1, <1>2, TrySetTypes DEF StackInv
  <2> QED BY <2>1
<1>4. nxt[t] = next[n]
  BY <1>1, <1>3 DEF StackInv, HeadOK
<1>5. Path(Nodes, NULL, next, Items(r), n)
  BY <1>3 DEF StackInv, Lists, Good, Items
<1>6. Items(r) # <<>>
  BY <1>2, <1>5, PathNull, StackAssumption
<1>7. /\ Path(Nodes, NULL, next, Tail(Items(r)), next[n])
      /\ n = Head(Items(r)) /\ n \in Range(Items(r)) /\ n \notin Range(Tail(Items(r)))
      /\ Range(Items(r)) = Range(Tail(Items(r))) \union {n}
      /\ Len(Tail(Items(r))) = Len(Items(r)) - 1
  BY <1>5, <1>6, PathTail
<1>8. Items(r)' = Tail(Items(r)) /\ Good(head[r].ptr)'
  BY <1>1, <1>3, <1>4, <1>7, NewItems
<1>9. \A u \in Threads \ {t} : Owned(u)' = Owned(u)
  BY <1>1, <1>3, OthersKept, {} \subseteq Owned(t)
<1>10. \A s \in Stacks \ {r} : Items(s)' = Items(s) /\ Good(head[s].ptr)'
  BY <1>1, <1>3, StackKept, {} \subseteq Owned(t)
<1>11. Range(Items(r))' = Range(Items(r)) \ {n} /\ Len(Items(r)') = Len(Items(r)) - 1
  <2>1. Range(Items(r))' = Range(Tail(Items(r)))
    BY <1>8
  <2> QED BY <1>7, <1>8, <2>1
<1>12. Owned(t)' = Owned(t) \union {n}
  BY <1>1 DEF Owned
<1> QED BY <1>1, <1>3, <1>4, <1>6, <1>7, <1>8, <1>9, <1>10, <1>11, <1>12

\* The stacks after a node was swung out.
LEMMA PopCasKeeps ==
  ASSUME StackInv, TypeOK', NEW t \in Threads, PopCas(t), head' # head
  PROVE  StackInv'
<1>1. PICK r, n : r = stk[t] /\ n = old[t].ptr
  OBVIOUS
<1>2. /\ r \in Stacks /\ n \in Range(Items(r)) /\ Owned(t)' = Owned(t) \union {n}
      /\ Range(Items(r))' = Range(Items(r)) \ {n} /\ Good(head[r].ptr)'
      /\ pc'[t] = "pop_unlink" /\ next' = next /\ nxt[t] = next[n]
      /\ old' = old /\ nxt' = nxt
      /\ \A u \in Threads \ {t} : Same(u) /\ Owned(u)' = Owned(u)
      /\ \A s \in Stacks \ {r} : Items(s)' = Items(s) /\ Good(head[s].ptr)'
      /\ \A s \in Stacks : head'[s] = head[s] \/ head'[s].tag = head[s].tag + 1
  BY <1>1, PopCasMoves
<1>3. Apart' /\ NoneLost'
  <2>1. {n} \subseteq Range(Items(r))
    BY <1>2
  <2> QED BY <1>2, <2>1, MovesOut
<1>4. ChainOK(t)' /\ HeadOK(t)' /\ pc'[t] # "all_count"
  BY <1>1, <1>2 DEF ChainOK, Linking, HeadOK, Loaded
<1>5. \A s \in Stacks : Good(head[s].ptr)'
  BY <1>2
<1> QED BY <1>2, <1>3, <1>4, <1>5, StackStep, {} \subseteq Owned(t)

\* All nodes are swung out: what the thread has is the stack as it was.
LEMMA AllCasMoves ==
  ASSUME StackInv, NEW t \in Threads, AllCas(t), head' # head, NEW r, r = stk[t]
  PROVE  /\ r \in Stacks /\ Owned(t)' = Owned(t) \union Range(Items(r))
         /\ Walk(old[t].ptr)' = Items(r) /\ Good(old[t].ptr)'
         /\ Items(r)' = <<>> /\ Good(head[r].ptr)'
         /\ pc[t] = "all_cas" /\ pc'[t] = "all_count"
         /\ UNCHANGED <<count, next, held, stk, old, chain, nxt>>
         /\ \A u \in Threads \ {t} : Same(u) /\ Owned(u)' = Owned(u)
         /\ \A s \in Stacks \ {r} : Items(s)' = Items(s) /\ Good(head[s].ptr)'
         /\ \A s \in Stacks : head'[s] = head[s] \/ head'[s].tag = head[s].tag + 1
<1>1. /\ pc[t] = "all_cas" /\ UNCHANGED <<count, next, held, stk, old, chain, nxt>>
      /\ pc'[t] = "all_count" /\ TrySet(t, NULL)
      /\ \A u \in Threads \ {t} : Same(u)
  BY DEF AllCas, locals, StackInv, TypeOK, Goto, Same
<1>2. /\ r \in Stacks /\ head[r] = old[t] /\ head'[r].ptr = NULL
      /\ \A s \in Stacks \ {r} : head'[s] = head[s]
      /\ \A s \in Stacks : head'[s] = head[s] \/ head'[s].tag = head[s].tag + 1
  <2>1. /\ head[stk[t]] = old[t] /\ stk[t] \in Stacks
        /\ head'[stk[t]] = [ptr |-> NULL, tag |-> head[stk[t]].tag + 1]
        /\ \A s \in Stacks \ {stk[t]} : head'[s] = head[s]
        /\ \A s \in Stacks : head'[s] = head[s] \/ head'[s].tag = head[s].tag + 1
    BY <1>1, TrySetTypes DEF StackInv
  <2> QED BY <2>1
<1>3. Path(Nodes, NULL, next', Items(r), old[t].ptr)
  BY <1>1, <1>2 DEF StackInv, Lists, Good, Items
<1>4. ASSUME NEW p, p = old[t].ptr PROVE Walk(p)' = Items(r)
  BY <1>3, <1>4, WalkIsNext
<1>5. Walk(old[t].ptr)' = Items(r) /\ Good(old[t].ptr)'
  <2>1. old'[t].ptr = old[t].ptr
    BY <1>1
  <2>2. Walk(old[t].ptr)' = Items(r)
    BY <1>4, <2>1
  <2> QED BY <1>3, <2>1, <2>2 DEF Good
<1>6. Items(r)' = <<>> /\ Good(head[r].ptr)'
  BY <1>2, PathEmpty, NewItems
<1>7. Owned(t)' = Owned(t) \union Range(Items(r))
  BY <1>1, <1>5 DEF Owned
<1>8. \A u \in Threads \ {t} : Owned(u)' = Owned(u)
  BY <1>1, <1>2, OthersKept, {} \subseteq Owned(t)
<1>9. \A s \in Stacks \ {r} : Items(s)' = Items(s) /\ Good(head[s].ptr)'
  BY <1>1, <1>2, StackKept, {} \subseteq Owned(t)
<1> QED BY <1>1, <1>2, <1>5, <1>6, <1>7, <1>8, <1>9

\* The stacks after all nodes were swung out.
LEMMA AllCasKeeps ==
  ASSUME StackInv, TypeOK', NEW t \in Threads, AllCas(t), head' # head
  PROVE  StackInv'
<1>1. PICK r : r = stk[t]
  OBVIOUS
<1>2. /\ r \in Stacks /\ Owned(t)' = Owned(t) \union Range(Items(r))
      /\ Items(r)' = <<>> /\ Good(head[r].ptr)' /\ Good(old[t].ptr)'
      /\ pc'[t] = "all_count" /\ next' = next
      /\ \A u \in Threads \ {t} : Same(u) /\ Owned(u)' = Owned(u)
      /\ \A s \in Stacks \ {r} : Items(s)' = Items(s) /\ Good(head[s].ptr)'
      /\ \A s \in Stacks : head'[s] = head[s] \/ head'[s].tag = head[s].tag + 1
  BY <1>1, AllCasMoves
<1>3. Apart' /\ NoneLost'
  <2>1. Range(Items(r))' = Range(Items(r)) \ Range(Items(r))
    <3>1. Range(Items(r))' = Range(<<>>)
      BY <1>2
    <3> QED BY <3>1, PathEmpty
  <2> QED BY <1>2, <2>1, MovesOut
<1>4. ChainOK(t)' /\ HeadOK(t)'
  BY <1>2 DEF ChainOK, Linking, HeadOK, Loaded
<1>5. \A s \in Stacks : Good(head[s].ptr)'
  BY <1>2
<1> QED BY <1>2, <1>3, <1>4, <1>5, StackStep, {} \subseteq Owned(t)

\* The nodes of a stack that is reset are the caller's.
LEMMA ResetMoves ==
  ASSUME StackInv, NEW t \in Threads, NEW r \in Stacks, Reset(t, r)
  PROVE  /\ Owned(t)' = Owned(t) \union Range(Items(r))
         /\ Items(r)' = <<>> /\ Good(head[r].ptr)'
         /\ UNCHANGED <<next, pc, locals>> /\ \A u \in Threads : pc[u] = "idle"
         /\ \A u \in Threads \ {t} : Owned(u)' = Owned(u)
         /\ \A s \in Stacks \ {r} : Items(s)' = Items(s) /\ Good(head[s].ptr)'
<1>1. /\ \A u \in Threads : pc[u] = "idle" /\ pc'[u] = "idle"
      /\ held'[t] = held[t] \union Range(Items(r)) /\ head'[r].ptr = NULL
      /\ \A u \in Threads \ {t} : held'[u] = held[u]
      /\ \A s \in Stacks \ {r} : head'[s] = head[s]
      /\ UNCHANGED <<next, pc, locals>>
  BY DEF Reset, Null, StackInv, TypeOK
<1>2. \A u \in Threads : Owned(u) = held[u] /\ Owned(u)' = held'[u]
  BY <1>1 DEF Owned
<1>3. Items(r)' = <<>> /\ Good(head[r].ptr)'
  BY <1>1, PathEmpty, NewItems
<1>4. \A s \in Stacks \ {r} : Items(s)' = Items(s) /\ Good(head[s].ptr)'
  BY <1>1, StackKept, {} \subseteq Owned(t)
<1> QED BY <1>1, <1>2, <1>3, <1>4

\* The stacks after a reset.
LEMMA ResetKeeps ==
  ASSUME StackInv, TypeOK', NEW t \in Threads, NEW r \in Stacks, Reset(t, r)
  PROVE  StackInv'
<1>1. /\ Owned(t)' = Owned(t) \union Range(Items(r))
      /\ Items(r)' = <<>> /\ Good(head[r].ptr)' /\ \A u \in Threads : pc'[u] = "idle"
      /\ \A u \in Threads \ {t} : Owned(u)' = Owned(u)
      /\ \A s \in Stacks \ {r} : Items(s)' = Items(s) /\ Good(head[s].ptr)'
  BY ResetMoves DEF locals
<1>2. Apart' /\ NoneLost'
  <2>1. Range(Items(r))' = Range(Items(r)) \ Range(Items(r))
    <3>1. Range(Items(r))' = Range(<<>>)
      BY <1>1
    <3> QED BY <3>1, PathEmpty
  <2> QED BY <1>1, <2>1, MovesOut
<1>3. \A u \in Threads : ChainOK(u)' /\ HeadOK(u)' /\ pc'[u] # "all_count"
  BY <1>1 DEF ChainOK, Linking, HeadOK, Loaded
<1>4. Lists'
  BY <1>1, <1>3 DEF Lists
<1> QED BY <1>2, <1>3, <1>4 DEF StackInv

\* Nothing happens.
LEMMA StutterKeeps ==
  ASSUME StackInv, UNCHANGED vars
  PROVE  StackInv' /\ Unmoved
<1>1. \A p : Good(p) => Walk(p)' = Walk(p) /\ Path(Nodes, NULL, next', Walk(p), p)
  BY WalkKept DEF vars
<1>2. UNCHANGED <<head, count, next, held, pc, stk, old, chain, nxt>>
  BY DEF vars, locals
<1>3. \A s \in Stacks : Items(s)' = Items(s) /\ Good(head[s].ptr)'
  <2> TAKE s \in Stacks
  <2>1. Good(head[s].ptr)
    BY DEF StackInv, Lists
  <2> QED BY <1>1, <1>2, <2>1 DEF Items, Good
<1>4. \A t \in Threads : /\ Owned(t)' = Owned(t)
                         /\ pc[t] = "all_count" => Good(old[t].ptr)'
  <2> TAKE t \in Threads
  <2>1. pc[t] = "all_count" => Good(old[t].ptr)
    BY DEF StackInv, Lists
  <2>2. pc[t] = "all_count" =>
          Walk(old[t].ptr)' = Walk(old[t].ptr) /\ Good(old[t].ptr)'
    BY <1>1, <1>2, <2>1 DEF Good
  <2> QED BY <1>2, <2>2 DEF Owned
<1>5. TypeOK'
  BY StackTypes
<1>6. Lists'
  BY <1>2, <1>3, <1>4 DEF Lists
<1>7. \A t \in Threads : ChainOK(t)' /\ HeadOK(t)'
  BY <1>2 DEF StackInv, ChainOK, Linking, HeadOK, Loaded
<1>8. Apart' /\ NoneLost'
  BY <1>3, <1>4, NothingMoves
<1> QED BY <1>3, <1>4, <1>5, <1>6, <1>7, <1>8 DEF StackInv, Unmoved
-----------------------------------------------------------------------------
(* The invariant *)

\* At the start the stacks are empty and each node has one owner.
LEMMA StackInit == ASSUME Init PROVE StackInv
<1>1. /\ \A s \in Stacks : head[s].ptr = NULL
      /\ \A t \in Threads : pc[t] = "idle" /\ Owned(t) = held[t]
  BY DEF Init, Null, Owned
<1>2. \A s \in Stacks : Items(s) = <<>> /\ Good(head[s].ptr)
  BY <1>1, PathEmpty, WalkIs DEF Items, Good
<1>3. TypeOK
  <2>1. Null \in [ptr : Nodes \union {NULL}, tag : Nat] /\ <<>> \in Seq(Nodes)
    BY DEF Null
  <2>2. (CHOOSE s \in Stacks : TRUE) \in Stacks
    BY StackAssumption
  <2> QED BY <2>1, <2>2 DEF Init, TypeOK
<1>4. PICK owner \in [Nodes -> Threads] :
        \A t \in Threads : held[t] = {n \in Nodes : owner[n] = t}
  BY DEF Init
<1>5. Range(<<>>) = {}
  BY PathEmpty
<1>6. Apart /\ NoneLost
  BY <1>1, <1>2, <1>4, <1>5 DEF Apart, NoneLost
<1>7. Lists /\ \A t \in Threads : ChainOK(t) /\ HeadOK(t)
  BY <1>1, <1>2 DEF Lists, ChainOK, Linking, HeadOK, Loaded
<1> QED BY <1>3, <1>6, <1>7 DEF StackInv

\* A compare and swap that finds the head it loaded swings it.
LEMMA SwapSwings ==
  ASSUME StackInv, NEW t \in Threads, PushCas(t) \/ PopCas(t) \/ AllCas(t),
         head[stk[t]] = old[t]
  PROVE  head' # head
<1>1. PICK p \in Nodes \union {NULL} : TrySet(t, p)
  <2>1. CASE PushCas(t)
    <3>1. chain[t][1] \in Nodes
      BY <2>1, EmptySeq DEF PushCas, StackInv, TypeOK, ChainOK, Linking
    <3> QED BY <2>1, <3>1 DEF PushCas
  <2>2. CASE PopCas(t)
    BY <2>2 DEF PopCas, StackInv, TypeOK
  <2>3. CASE AllCas(t)
    BY <2>3 DEF AllCas
  <2> QED BY <2>1, <2>2, <2>3
<1>2. stk[t] \in Stacks /\ head[stk[t]].tag \in Nat
  BY DEF StackInv, TypeOK
<1>3. head'[stk[t]] = [ptr |-> p, tag |-> head[stk[t]].tag + 1]
  BY <1>1, TrySetTypes DEF StackInv
<1>4. head'[stk[t]].tag # head[stk[t]].tag
  BY <1>2, <1>3
<1> QED BY <1>4

\* Every step keeps the invariant.
LEMMA StackNext == ASSUME StackInv, [Next]_vars PROVE StackInv'
<1>1. TypeOK'
  BY StackTypes
<1>2. CASE UNCHANGED vars
  BY <1>2, StutterKeeps
<1>3. ASSUME NEW t \in Threads, Step(t) PROVE StackInv'
  <2>1. CASE PushLoad(t) \/ PopLoad(t) \/ PopNext(t) \/ AllLoad(t)
    BY <1>1, <2>1, LoadsKeep
  <2>2. CASE (PushCas(t) \/ PopCas(t) \/ AllCas(t)) /\ head[stk[t]] # old[t]
    BY <1>1, <2>2, LoadsKeep
  <2>3. CASE (PushCas(t) \/ PopCas(t) \/ AllCas(t)) /\ head[stk[t]] = old[t]
    BY <1>1, <2>3, SwapSwings, PushCasKeeps, PopCasKeeps, AllCasKeeps
  <2>4. CASE PushLink(t)
    BY <1>1, <2>4, PushLinkKeeps
  <2>5. CASE PopUnlink(t)
    BY <1>1, <2>5, PopUnlinkKeeps
  <2>6. CASE PushCount(t) \/ PopCount(t) \/ AllCount(t)
    BY <1>1, <2>6, CountsKeep
  <2> QED BY <1>3, <2>1, <2>2, <2>3, <2>4, <2>5, <2>6 DEF Step
<1>4. ASSUME NEW t \in Threads, NEW s \in Stacks,
             CallPush(t, s) \/ CallPop(t, s) \/ CallPopAll(t, s) \/ Reset(t, s)
      PROVE  StackInv'
  BY <1>1, <1>4, CallPushKeeps, CallsKeep, ResetKeeps
<1> QED BY <1>2, <1>3, <1>4 DEF Next

\* The invariant holds in every reachable state.
LEMMA StackAlways == Spec => []StackInv
  BY StackInit, StackNext, PTL DEF Spec
-----------------------------------------------------------------------------
(* The theorems *)

\* Every pointer of a stack and of its callers is null or a node, and Pop reads
\* item->next of a node only.
THEOREM TypesCorrect == Spec => []TypeOK
<1>1. StackInv => TypeOK
  BY DEF StackInv
<1> QED BY <1>1, StackAlways, PTL

\* No interleaving of Push, Pop and PopAll hands a node to two callers, puts it
\* on two stacks or loses it.
THEOREM NodesInOnePlace == Spec => []OnePlaceEach
<1>1. ASSUME StackInv PROVE OnePlaceEach
  <2>0. \A t \in Threads : pc[t] = "pop_unlink" => (NowEmpty(t) <=> nxt[t] = NULL)
    BY <1>1 DEF StackInv, HeadOK, NowEmpty
  <2> SUFFICES ASSUME NEW n \in Nodes
      PROVE  Cardinality({t \in Threads : n \in Owned(t)}
                         \union {s \in Stacks : n \in Range(Items(s))}) = 1
    BY <2>0 DEF OnePlaceEach
  <2> DEFINE S == {t \in Threads : n \in Owned(t)} \union {s \in Stacks : n \in Range(Items(s))}
  <2>1. \E x : x \in S
    BY <1>1 DEF StackInv, NoneLost
  <2>2. \A x, y \in S : x = y
    <3>1. \A t \in Threads, s \in Stacks : ~(n \in Owned(t) /\ n \in Range(Items(s)))
      BY <1>1 DEF StackInv, Apart
    <3>2. \A t, u \in Threads : n \in Owned(t) /\ n \in Owned(u) => t = u
      BY <1>1 DEF StackInv, Apart
    <3>3. \A r, s \in Stacks : n \in Range(Items(r)) /\ n \in Range(Items(s)) => r = s
      BY <1>1 DEF StackInv, Apart
    <3> QED BY <3>1, <3>2, <3>3
  <2>3. \E x : S = {x}
    BY <2>1, <2>2
  <2> HIDE DEF S
  <2>4. Cardinality(S) = 1
    BY <2>3, FS_Singleton
  <2> QED BY <2>4 DEF S
<1> QED BY <1>1, StackAlways, PTL
-----------------------------------------------------------------------------
(* The stacks implement atomic ones *)

\* What a step that moves no node maps to.
LEMMA UnmovedMaps == ASSUME Unmoved PROVE UNCHANGED Atomic!avars
  BY DEF Unmoved, Atomic!avars

\* A thread has finitely many nodes, and a chain of them is a chain.
LEMMA OwnedChain ==
  ASSUME StackInv, NEW t \in Threads, NEW c, Distinct(Nodes, c), c # <<>>,
         Range(c) \subseteq Owned(t)
  PROVE  c \in Atomic!Chains(Owned(t))
<1>1. Owned(t) \subseteq Nodes
  <2>1. \A n \in Range(chain[t]) : n \in Nodes
    BY DEF StackInv, TypeOK, Range
  <2>2. pc[t] = "all_count" => Range(Walk(old[t].ptr)) \subseteq Nodes
    BY PathRange DEF StackInv, Lists, Good, Path
  <2> QED BY <2>1, <2>2 DEF Owned, StackInv, TypeOK
<1>2. IsFiniteSet(Owned(t))
  BY <1>1, StackAssumption, FS_Subset
<1>3. /\ Range(c) = {c[i] : i \in 1 .. Len(c)} /\ Len(c) \in Nat \ {0}
      /\ \A i, j \in 1 .. Len(c) : c[i] = c[j] => i = j
      /\ c \in [1 .. Len(c) -> Nodes]
  BY PathRange DEF Distinct
<1>4. c \in [1 .. Len(c) -> Owned(t)]
  BY <1>3
<1>5. Distinct(Owned(t), c)
  <2>1. c \in Seq(Owned(t))
    BY <1>3, <1>4
  <2> QED BY <1>3, <2>1 DEF Distinct
<1>6. Len(c) <= Cardinality(Owned(t)) /\ Cardinality(Owned(t)) \in Nat
  BY <1>2, <1>5, DistinctLength
<1>7. Len(c) \in 1 .. Cardinality(Owned(t))
  BY <1>3, <1>6
<1>8. Atomic!Cardinality(Owned(t)) = Cardinality(Owned(t))
  BY DEF Atomic!Cardinality, Cardinality
<1> QED BY <1>3, <1>4, <1>7, <1>8 DEF Atomic!Chains

\* The compare and swap is the moment of a Push.
LEMMA PushRefines ==
  ASSUME StackInv, NEW t \in Threads, PushCas(t), head' # head
  PROVE  Atomic!ANext
<1>1. PICK r, c : r = stk[t] /\ c = chain[t]
  OBVIOUS
<1>2. /\ r \in Stacks /\ Range(c) \subseteq Owned(t) /\ Owned(t)' = Owned(t) \ Range(c)
      /\ Items(r)' = Joined(c, Items(r)) /\ Distinct(Nodes, c) /\ c # <<>>
      /\ \A u \in Threads \ {t} : Owned(u)' = Owned(u)
      /\ \A s \in Stacks \ {r} : Items(s)' = Items(s)
  BY <1>1, PushCasMoves
<1>3. c \in Atomic!Chains(Owned(t)) /\ Atomic!Members(c) = Range(c)
  BY <1>2, OwnedChain DEF Atomic!Members, Range
<1>4. Atomic!APush(t, r)
  BY <1>2, <1>3 DEF Atomic!APush, Joined
<1> QED BY <1>2, <1>4 DEF Atomic!ANext

\* The compare and swap is the moment of a Pop.
LEMMA PopRefines ==
  ASSUME StackInv, NEW t \in Threads, PopCas(t), head' # head
  PROVE  Atomic!ANext
<1>1. PICK r, n : r = stk[t] /\ n = old[t].ptr
  OBVIOUS
<1>2. /\ r \in Stacks /\ Owned(t)' = Owned(t) \union {n}
      /\ Items(r) # <<>> /\ n = Head(Items(r)) /\ Items(r)' = Tail(Items(r))
      /\ \A u \in Threads \ {t} : Owned(u)' = Owned(u)
      /\ \A s \in Stacks \ {r} : Items(s)' = Items(s)
  BY <1>1, PopCasMoves
<1>3. Atomic!APop(t, r)
  BY <1>2 DEF Atomic!APop
<1> QED BY <1>2, <1>3 DEF Atomic!ANext

\* The compare and swap is the moment of a PopAll; a Reset is one as well.
LEMMA PopAllRefines ==
  ASSUME StackInv, NEW t \in Threads,
         \/ AllCas(t) /\ head' # head
         \/ \E s \in Stacks : Reset(t, s)
  PROVE  Atomic!ANext
<1>1. PICK r \in Stacks :
        /\ Owned(t)' = Owned(t) \union Range(Items(r)) /\ Items(r)' = <<>>
        /\ \A u \in Threads \ {t} : Owned(u)' = Owned(u)
        /\ \A s \in Stacks \ {r} : Items(s)' = Items(s)
  <2>1. CASE AllCas(t) /\ head' # head
    <3>1. PICK r : r = stk[t]
      OBVIOUS
    <3>2. /\ r \in Stacks /\ Owned(t)' = Owned(t) \union Range(Items(r))
          /\ Items(r)' = <<>>
          /\ \A u \in Threads \ {t} : Owned(u)' = Owned(u)
          /\ \A s \in Stacks \ {r} : Items(s)' = Items(s)
      BY <2>1, <3>1, AllCasMoves
    <3> QED BY <3>2
  <2>2. ASSUME NEW r \in Stacks, Reset(t, r)
        PROVE  /\ Owned(t)' = Owned(t) \union Range(Items(r)) /\ Items(r)' = <<>>
               /\ \A u \in Threads \ {t} : Owned(u)' = Owned(u)
               /\ \A s \in Stacks \ {r} : Items(s)' = Items(s)
    BY <2>2, ResetMoves
  <2> QED BY <2>1, <2>2
<1>2. Atomic!Members(Items(r)) = Range(Items(r))
  BY DEF Atomic!Members, Range
<1>3. Atomic!APopAll(t, r)
  BY <1>1, <1>2 DEF Atomic!APopAll
<1> QED BY <1>3 DEF Atomic!ANext

\* Every other step moves no node.
LEMMA StackRefines ==
  ASSUME StackInv, [Next]_vars
  PROVE  [Atomic!ANext]_(Atomic!avars)
<1>1. TypeOK'
  BY StackTypes
<1>2. CASE UNCHANGED vars
  BY <1>2, StutterKeeps, UnmovedMaps
<1>3. ASSUME NEW t \in Threads, Step(t) PROVE [Atomic!ANext]_(Atomic!avars)
  <2>1. CASE PushLoad(t) \/ PopLoad(t) \/ PopNext(t) \/ AllLoad(t)
    BY <1>1, <2>1, LoadsKeep, UnmovedMaps
  <2>2. CASE (PushCas(t) \/ PopCas(t) \/ AllCas(t)) /\ head[stk[t]] # old[t]
    BY <1>1, <2>2, LoadsKeep, UnmovedMaps
  <2>3. CASE (PushCas(t) \/ PopCas(t) \/ AllCas(t)) /\ head[stk[t]] = old[t]
    BY <2>3, SwapSwings, PushRefines, PopRefines, PopAllRefines
  <2>4. CASE PushLink(t)
    BY <1>1, <2>4, PushLinkKeeps, UnmovedMaps
  <2>5. CASE PopUnlink(t)
    BY <1>1, <2>5, PopUnlinkKeeps, UnmovedMaps
  <2>6. CASE PushCount(t) \/ PopCount(t) \/ AllCount(t)
    BY <1>1, <2>6, CountsKeep, UnmovedMaps
  <2> QED BY <1>3, <2>1, <2>2, <2>3, <2>4, <2>5, <2>6 DEF Step
<1>4. ASSUME NEW t \in Threads, NEW s \in Stacks,
             CallPush(t, s) \/ CallPop(t, s) \/ CallPopAll(t, s)
      PROVE  [Atomic!ANext]_(Atomic!avars)
  BY <1>1, <1>4, CallPushKeeps, CallsKeep, UnmovedMaps
<1>5. ASSUME NEW t \in Threads, NEW s \in Stacks, Reset(t, s)
      PROVE  [Atomic!ANext]_(Atomic!avars)
  BY <1>5, PopAllRefines
<1> QED BY <1>2, <1>3, <1>4, <1>5 DEF Next

\* A Push, Pop or PopAll takes effect at once, at its compare and swap: Pop takes
\* the newest node, PopAll takes all of them in order.
THEOREM StackIsAtomic == Spec => ImplementsAtomicStack
<1>1. ASSUME Init PROVE Atomic!AInit
  <2>1. /\ \A s \in Stacks : head[s].ptr = NULL
        /\ \A t \in Threads : pc[t] = "idle" /\ Owned(t) = held[t]
    BY <1>1 DEF Init, Null, Owned
  <2>2. \A s \in Stacks : Items(s) = <<>>
    BY <2>1, PathEmpty, WalkIs DEF Items
  <2>3. PICK owner \in [Nodes -> Threads] :
          \A t \in Threads : held[t] = {n \in Nodes : owner[n] = t}
    BY <1>1 DEF Init
  <2> QED BY <2>1, <2>2, <2>3 DEF Atomic!AInit
<1> QED BY <1>1, StackAlways, StackRefines, PTL
      DEF Spec, ImplementsAtomicStack, Atomic!ASpec
-----------------------------------------------------------------------------
(* m_count *)

\* There are finitely many calls and nodes to count.
LEMMA TalliesFinite ==
  \A s : IsFiniteSet(Uncounted(s)) /\ IsFiniteSet(Overcounted(s))
<1>1. IsFiniteSet(Threads \X Nodes)
  BY StackAssumption, FS_Product
<1>2. \A s : Uncounted(s) \in SUBSET (Threads \X Nodes) /\ Overcounted(s) \in SUBSET Threads
  BY DEF Uncounted, Overcounted
<1> QED BY <1>1, <1>2, StackAssumption, FS_Subset

\* A chain counts as many nodes as it is long.
LEMMA ChainTally ==
  ASSUME NEW t, NEW c, Distinct(Nodes, c)
  PROVE  /\ IsFiniteSet({t} \X Range(c)) /\ Len(c) \in Nat
         /\ Cardinality({t} \X Range(c)) = Len(c)
<1>1. Range(c) = {c[i] : i \in 1 .. Len(c)} /\ Len(c) \in Nat
  BY PathRange
<1>2. c \in Bijection(1 .. Len(c), Range(c))
  BY <1>1 DEF Distinct, Bijection, Injection, Surjection, IsInjective
<1>3. IsFiniteSet(1 .. Len(c)) /\ Cardinality(1 .. Len(c)) = Len(c)
  BY <1>1, OneTo
<1>4. IsFiniteSet(Range(c)) /\ Cardinality(Range(c)) = Len(c)
  <2>1. ExistsBijection(1 .. Len(c), Range(c))
    BY <1>2 DEF ExistsBijection
  <2> QED BY <1>3, <2>1, FS_Bijection
<1>5. IsFiniteSet({t}) /\ Cardinality({t}) = 1
  BY FS_Singleton
<1>6. Cardinality({t} \X Range(c)) = 1 * Len(c) /\ IsFiniteSet({t} \X Range(c))
  BY <1>4, <1>5, FS_Product
<1> QED BY <1>1, <1>6

\* The other stacks of a step.
LEMMA OtherTallies ==
  ASSUME NEW t \in Threads, \A u \in Threads \ {t} : Same(u), stk'[t] = stk[t],
         NEW s, s # stk[t]
  PROVE  Uncounted(s)' = Uncounted(s) /\ Overcounted(s)' = Overcounted(s)
  BY DEF Uncounted, Overcounted, Same

\* A step at which nothing is to be counted.
LEMMA QuietTallies ==
  ASSUME NEW t \in Threads, \A u \in Threads \ {t} : Same(u),
         pc[t] # "push_count", pc'[t] # "push_count",
         \/ pc'[t] \notin {"pop_unlink", "pop_count"} /\ pc[t] \notin {"pop_unlink", "pop_count"}
         \/ /\ pc'[t] \in {"pop_unlink", "pop_count"} /\ pc[t] \in {"pop_unlink", "pop_count"}
            /\ stk'[t] = stk[t]
  PROVE  \A s : Uncounted(s)' = Uncounted(s) /\ Overcounted(s)' = Overcounted(s)
  BY DEF Uncounted, Overcounted, Same

\* What the invariant asks of the call of one thread.
CallOK(t) ==
  /\ pc[t] \in {"all_load", "all_cas", "all_count"} => stk[t] \in PopAllStacks
  /\ pc[t] = "push_count" => Distinct(Nodes, chain[t])

\* Steps that neither count nor move anything.
LEMMA QuietCounts ==
  ASSUME Counts, Unmoved, count' = count, NEW t \in Threads,
         \A u \in Threads \ {t} : Same(u), CallOK(t)',
         pc[t] # "push_count", pc'[t] # "push_count",
         \/ pc'[t] \notin {"pop_unlink", "pop_count"} /\ pc[t] \notin {"pop_unlink", "pop_count"}
         \/ /\ pc'[t] \in {"pop_unlink", "pop_count"} /\ pc[t] \in {"pop_unlink", "pop_count"}
            /\ stk'[t] = stk[t]
  PROVE  Counts'
<1>1. \A s : Uncounted(s)' = Uncounted(s) /\ Overcounted(s)' = Overcounted(s)
  BY QuietTallies
<1>2. \A u \in Threads : CallOK(u)'
  BY DEF Counts, CallOK, Same
<1>3. \A s \in Stacks \ PopAllStacks :
        count'[s] + Cardinality(Uncounted(s)') - Cardinality(Overcounted(s)') = Len(Items(s)')
  BY <1>1 DEF Counts, Unmoved
<1> QED BY <1>2, <1>3 DEF Counts, CallOK

\* Steps that count or move something on one stack.
LEMMA CountsOf ==
  ASSUME Counts, NEW t \in Threads, \A u \in Threads \ {t} : Same(u), CallOK(t)',
         NEW r, r = stk[t], stk'[t] = stk[t],
         \A s \in Stacks \ {r} : count'[s] = count[s] /\ Items(s)' = Items(s),
         r \in Stacks \ PopAllStacks =>
           count'[r] + Cardinality(Uncounted(r)') - Cardinality(Overcounted(r)') = Len(Items(r)')
  PROVE  Counts'
<1>1. \A s : s # r => Uncounted(s)' = Uncounted(s) /\ Overcounted(s)' = Overcounted(s)
  BY OtherTallies
<1>2. \A u \in Threads : CallOK(u)'
  BY DEF Counts, CallOK, Same
<1>3. \A s \in Stacks \ PopAllStacks :
        count'[s] + Cardinality(Uncounted(s)') - Cardinality(Overcounted(s)') = Len(Items(s)')
  BY <1>1 DEF Counts
<1> QED BY <1>2, <1>3 DEF Counts, CallOK

\* The chain that is swung in is uncounted.
LEMMA PushCasCounts ==
  ASSUME StackInv, Counts, NEW t \in Threads, PushCas(t), head' # head
  PROVE  Counts'
<1>1. PICK r, c : r = stk[t] /\ c = chain[t]
  OBVIOUS
<1>2. /\ r \in Stacks /\ Distinct(Nodes, c)
      /\ pc[t] = "push_cas" /\ pc'[t] = "push_count"
      /\ count' = count /\ stk' = stk /\ chain' = chain
      /\ \A u \in Threads \ {t} : Same(u)
      /\ \A s \in Stacks \ {r} : Items(s)' = Items(s)
      /\ Len(Items(r)') = Len(c) + Len(Items(r))
  <2>1. PushCas(t) /\ head' # head /\ r = stk[t] /\ c = chain[t]
    BY <1>1
  <2>2. Len(Items(r)') = Len(c) + Len(Items(r))
    <3>1. r \in Stacks /\ Distinct(Nodes, c) /\ Items(r)' = Joined(c, Items(r))
      BY <2>1, PushCasMoves
    <3>2. Len(c \o Items(r)) = Len(c) + Len(Items(r))
      BY <3>1, ItemsAre, RangeConcat
    <3> QED BY <3>1, <3>2 DEF Joined
  <2>3. /\ r \in Stacks /\ Distinct(Nodes, c)
        /\ pc[t] = "push_cas" /\ pc'[t] = "push_count"
        /\ count' = count /\ stk' = stk /\ chain' = chain
    BY <2>1, PushCasMoves
  <2>4. /\ \A u \in Threads \ {t} : Same(u)
        /\ \A s \in Stacks \ {r} : Items(s)' = Items(s)
    BY <2>1, PushCasMoves
  <2> QED BY <2>2, <2>3, <2>4
<1>3. Range(c) \subseteq Nodes
  BY <1>2, PathRange
<1>4. Uncounted(r)' = Uncounted(r) \union ({t} \X Range(c))
  BY <1>1, <1>2, <1>3 DEF Uncounted, Same
<1>5. Uncounted(r) \cap ({t} \X Range(c)) = {}
  BY <1>2 DEF Uncounted
<1>6. Overcounted(r)' = Overcounted(r)
  BY <1>1, <1>2 DEF Overcounted, Same
<1>7. Cardinality(Uncounted(r)') = Cardinality(Uncounted(r)) + Len(c)
  <2>1. /\ IsFiniteSet(Uncounted(r)) /\ IsFiniteSet({t} \X Range(c)) /\ Len(c) \in Nat
        /\ Cardinality({t} \X Range(c)) = Len(c)
    BY <1>2, TalliesFinite, ChainTally
  <2>2. Cardinality(Uncounted(r)) \in Nat /\ Cardinality({}) = 0
    BY <2>1, FS_CardinalityType, FS_EmptySet
  <2>3. PICK S, T : S = Uncounted(r) /\ T = {t} \X Range(c)
    OBVIOUS
  <2>4. /\ IsFiniteSet(S) /\ IsFiniteSet(T) /\ S \cap T = {}
        /\ Cardinality(S) \in Nat /\ Cardinality(T) = Len(c)
    BY <1>5, <2>1, <2>2, <2>3
  <2>5. Cardinality(S \union T) = Cardinality(S) + Cardinality(T) - Cardinality(S \cap T)
    BY <2>4, FS_Union
  <2>6. Cardinality(S \union T) = Cardinality(S) + Len(c)
    <3>1. Cardinality(S \cap T) = 0
      BY <2>2, <2>4
    <3> QED BY <2>1, <2>4, <2>5, <3>1
  <2> QED BY <1>4, <2>3, <2>6
<1>8. r \in Stacks \ PopAllStacks =>
        count'[r] + Cardinality(Uncounted(r)') - Cardinality(Overcounted(r)') = Len(Items(r)')
  <2>1. /\ count[r] \in Int /\ Len(c) \in Nat /\ Cardinality(Uncounted(r)) \in Nat
        /\ Cardinality(Overcounted(r)) \in Nat /\ Len(Items(r)) \in Nat
    BY <1>2, TalliesFinite, ChainTally, FS_CardinalityType, ItemsAre, PathRange
    DEF StackInv, TypeOK
  <2>2. r \in Stacks \ PopAllStacks =>
          count[r] + Cardinality(Uncounted(r)) - Cardinality(Overcounted(r)) = Len(Items(r))
    BY DEF Counts
  <2>3. count'[r] = count[r] /\ Cardinality(Overcounted(r)') = Cardinality(Overcounted(r))
    BY <1>2, <1>6
  <2>4. Len(Items(r)') = Len(c) + Len(Items(r))
    BY <1>2
  <2> QED BY <1>7, <2>1, <2>2, <2>3, <2>4
<1>9. CallOK(t)'
  BY <1>1, <1>2 DEF CallOK
<1> QED BY <1>1, <1>2, <1>8, <1>9, CountsOf

\* m_count.Inc() or Add(count) counts it.
LEMMA PushCountCounts ==
  ASSUME StackInv, Counts, Unmoved, NEW t \in Threads, PushCount(t)
  PROVE  Counts'
<1>1. PICK r, c : r = stk[t] /\ c = chain[t]
  OBVIOUS
<1>2. /\ r \in Stacks /\ Distinct(Nodes, c) /\ pc[t] = "push_count" /\ pc'[t] = "idle"
      /\ stk' = stk /\ count[r] \in Int /\ count'[r] = count[r] + Len(c)
      /\ \A s \in Stacks \ {r} : count'[s] = count[s]
      /\ \A u \in Threads \ {t} : Same(u)
  BY <1>1 DEF PushCount, Return, Goto, Same, StackInv, TypeOK, Counts
<1>3. Range(c) \subseteq Nodes
  BY <1>2, PathRange
<1>4. Uncounted(r)' = Uncounted(r) \ ({t} \X Range(c))
  BY <1>1, <1>2 DEF Uncounted, Same
<1>5. Uncounted(r) \cap ({t} \X Range(c)) = {t} \X Range(c)
  BY <1>1, <1>2, <1>3 DEF Uncounted
<1>6. Overcounted(r)' = Overcounted(r)
  BY <1>1, <1>2 DEF Overcounted, Same
<1>7. /\ IsFiniteSet(Uncounted(r)) /\ IsFiniteSet({t} \X Range(c)) /\ Len(c) \in Nat
      /\ Cardinality({t} \X Range(c)) = Len(c)
      /\ Cardinality(Uncounted(r)) \in Nat /\ Cardinality(Overcounted(r)) \in Nat
  BY <1>2, TalliesFinite, ChainTally, FS_CardinalityType
<1>8. Cardinality(Uncounted(r)') = Cardinality(Uncounted(r)) - Len(c)
  <2>1. PICK S, T : S = Uncounted(r) /\ T = {t} \X Range(c)
    OBVIOUS
  <2>2. IsFiniteSet(S) /\ S \cap T = T
    BY <1>5, <1>7, <2>1
  <2>3. Cardinality(S \ T) = Cardinality(S) - Cardinality(S \cap T)
    BY <2>2, FS_Difference
  <2> QED BY <1>4, <1>7, <2>1, <2>2, <2>3
<1>9. r \in Stacks \ PopAllStacks =>
        count'[r] + Cardinality(Uncounted(r)') - Cardinality(Overcounted(r)') = Len(Items(r)')
  BY <1>2, <1>6, <1>7, <1>8 DEF Counts, Unmoved
<1>10. CallOK(t)'
  BY <1>2 DEF CallOK
<1> QED BY <1>1, <1>2, <1>9, <1>10, CountsOf DEF Unmoved

\* The node that is swung out is overcounted.
LEMMA PopCasCounts ==
  ASSUME StackInv, Counts, NEW t \in Threads, PopCas(t), head' # head
  PROVE  Counts'
<1>1. PICK r, n : r = stk[t] /\ n = old[t].ptr
  OBVIOUS
<1>2. /\ r \in Stacks /\ Len(Items(r)') = Len(Items(r)) - 1
      /\ pc[t] = "pop_cas" /\ pc'[t] = "pop_unlink"
      /\ UNCHANGED <<count, next, held, stk, old, chain, nxt>>
      /\ \A u \in Threads \ {t} : Same(u)
      /\ \A s \in Stacks \ {r} : Items(s)' = Items(s)
  BY <1>1, PopCasMoves
<1>3. Overcounted(r)' = Overcounted(r) \union {t} /\ t \notin Overcounted(r)
  BY <1>1, <1>2 DEF Overcounted, Same
<1>4. Uncounted(r)' = Uncounted(r)
  BY <1>1, <1>2 DEF Uncounted, Same
<1>5. /\ count[r] \in Int /\ Cardinality(Uncounted(r)) \in Nat
      /\ IsFiniteSet(Overcounted(r)) /\ Cardinality(Overcounted(r)) \in Nat
  BY <1>2, TalliesFinite, FS_CardinalityType DEF StackInv, TypeOK
<1>6. Cardinality(Overcounted(r)') = Cardinality(Overcounted(r)) + 1
  BY <1>3, <1>5, FS_AddElement
<1>7. Len(Items(r)) \in Nat
  BY <1>2, ItemsAre, PathRange
<1>8. r \in Stacks \ PopAllStacks =>
        count'[r] + Cardinality(Uncounted(r)') - Cardinality(Overcounted(r)') = Len(Items(r)')
  BY <1>2, <1>4, <1>5, <1>6, <1>7 DEF Counts
<1>9. CallOK(t)'
  BY <1>2 DEF CallOK
<1> QED BY <1>1, <1>2, <1>8, <1>9, CountsOf

\* m_count.Dec() counts it.
LEMMA PopCountCounts ==
  ASSUME StackInv, Counts, Unmoved, NEW t \in Threads, PopCount(t)
  PROVE  Counts'
<1>1. PICK r : r = stk[t]
  OBVIOUS
<1>2. /\ r \in Stacks /\ pc[t] = "pop_count" /\ pc'[t] = "idle"
      /\ stk' = stk /\ count[r] \in Int /\ count'[r] = count[r] - 1
      /\ \A s \in Stacks \ {r} : count'[s] = count[s]
      /\ \A u \in Threads \ {t} : Same(u)
  BY <1>1 DEF PopCount, Return, Goto, Same, StackInv, TypeOK
<1>3. Overcounted(r)' = Overcounted(r) \ {t} /\ t \in Overcounted(r)
  BY <1>1, <1>2 DEF Overcounted, Same
<1>4. Uncounted(r)' = Uncounted(r)
  BY <1>1, <1>2 DEF Uncounted, Same
<1>5. /\ Cardinality(Uncounted(r)) \in Nat
      /\ IsFiniteSet(Overcounted(r)) /\ Cardinality(Overcounted(r)) \in Nat
  BY TalliesFinite, FS_CardinalityType
<1>6. Cardinality(Overcounted(r)') = Cardinality(Overcounted(r)) - 1
  BY <1>3, <1>5, FS_RemoveElement
<1>7. Len(Items(r)) \in Nat
  BY <1>2, ItemsAre, PathRange
<1>8. r \in Stacks \ PopAllStacks =>
        count'[r] + Cardinality(Uncounted(r)') - Cardinality(Overcounted(r)') = Len(Items(r)')
  BY <1>2, <1>4, <1>5, <1>6, <1>7 DEF Counts, Unmoved
<1>9. CallOK(t)'
  BY <1>2 DEF CallOK
<1> QED BY <1>1, <1>2, <1>8, <1>9, CountsOf DEF Unmoved

\* A PopAll disturbs only the count of a stack it is allowed on.
LEMMA PopAllCounts ==
  ASSUME StackInv, Counts, NEW t \in Threads,
         (AllCas(t) /\ head' # head) \/ (AllCount(t) /\ Unmoved)
  PROVE  Counts'
<1>1. PICK r : r = stk[t]
  OBVIOUS
<1>2. /\ stk' = stk /\ pc[t] \in {"all_cas", "all_count"}
      /\ pc'[t] \in {"idle", "all_count"}
      /\ \A s \in Stacks \ {r} : count'[s] = count[s] /\ Items(s)' = Items(s)
      /\ \A u \in Threads \ {t} : Same(u)
  <2>1. CASE AllCas(t) /\ head' # head
    <3>1. /\ UNCHANGED <<count, next, held, stk, old, chain, nxt>>
          /\ pc[t] = "all_cas" /\ pc'[t] = "all_count"
          /\ \A u \in Threads \ {t} : Same(u)
          /\ \A s \in Stacks \ {r} : Items(s)' = Items(s)
      BY <1>1, <2>1, AllCasMoves
    <3> QED BY <3>1
  <2>2. CASE AllCount(t) /\ Unmoved
    BY <1>1, <2>2 DEF AllCount, Unmoved, Return, Goto, Same, StackInv, TypeOK
  <2> QED BY <2>1, <2>2
<1>3. r \in PopAllStacks
  BY <1>1, <1>2 DEF Counts
<1>4. CallOK(t)'
  BY <1>1, <1>2, <1>3 DEF CallOK
<1> QED BY <1>1, <1>2, <1>3, <1>4, CountsOf

\* A stack that is reset holds nothing and counts nothing.
LEMMA ResetCounts ==
  ASSUME StackInv, Counts, NEW t \in Threads, NEW r \in Stacks, Reset(t, r)
  PROVE  Counts'
<1>1. /\ Items(r)' = <<>> /\ \A u \in Threads : pc[u] = "idle" /\ pc'[u] = "idle"
      /\ \A s \in Stacks \ {r} : Items(s)' = Items(s)
  BY ResetMoves DEF locals
<1>2. count'[r] = 0 /\ \A s \in Stacks \ {r} : count'[s] = count[s]
  BY DEF Reset, StackInv, TypeOK
<1>3. \A s : /\ Uncounted(s) = {} /\ Uncounted(s)' = {}
             /\ Overcounted(s) = {} /\ Overcounted(s)' = {}
  BY <1>1 DEF Uncounted, Overcounted
<1>4. Cardinality({}) = 0 /\ Len(<<>>) = 0
  BY FS_EmptySet
<1>5. \A s \in Stacks \ PopAllStacks :
        count'[s] + Cardinality(Uncounted(s)') - Cardinality(Overcounted(s)') = Len(Items(s)')
  <2> TAKE s \in Stacks \ PopAllStacks
  <2>1. Cardinality(Uncounted(s)') = 0 /\ Cardinality(Overcounted(s)') = 0
    BY <1>3, <1>4
  <2>2. CASE s = r
    <3>1. Len(Items(r)') = 0
      BY <1>1, <1>4
    <3>2. count'[r] = 0
      BY <1>2
    <3> QED BY <2>1, <2>2, <3>1, <3>2
  <2>3. CASE s # r
    <3>1. /\ count[s] + Cardinality(Uncounted(s)) - Cardinality(Overcounted(s)) = Len(Items(s))
          /\ Cardinality(Uncounted(s)) = 0 /\ Cardinality(Overcounted(s)) = 0
      BY <1>3, <1>4 DEF Counts
    <3>2. count'[s] = count[s] /\ Items(s)' = Items(s)
      BY <1>1, <1>2, <2>3
    <3> QED BY <2>1, <3>1, <3>2
  <2> QED BY <2>2, <2>3
<1> QED BY <1>1, <1>5 DEF Counts

\* The steps that count nothing.
LEMMA OtherCounts ==
  ASSUME StackInv, Counts, Unmoved, NEW t \in Threads,
         \/ PushLoad(t) \/ PushLink(t) \/ PopLoad(t) \/ PopNext(t) \/ PopUnlink(t)
         \/ AllLoad(t)
         \/ head[stk[t]] # old[t] /\ (PushCas(t) \/ PopCas(t) \/ AllCas(t))
         \/ \E s \in Stacks : CallPush(t, s) \/ CallPop(t, s) \/ CallPopAll(t, s)
  PROVE  Counts'
<1>1. count' = count /\ \A u \in Threads \ {t} : Same(u)
  BY DEF PushLoad, PushLink, PopLoad, PopNext, PopUnlink, AllLoad, PushCas, PopCas, AllCas,
         CallPush, CallPop, CallPopAll, Call, TrySet, Return, LoadHead, Goto, locals,
         Same, StackInv, TypeOK
<1>2. /\ pc[t] # "push_count" /\ pc'[t] # "push_count"
      /\ \/ pc'[t] \notin {"pop_unlink", "pop_count"} /\ pc[t] \notin {"pop_unlink", "pop_count"}
         \/ /\ pc'[t] \in {"pop_unlink", "pop_count"} /\ pc[t] \in {"pop_unlink", "pop_count"}
            /\ stk'[t] = stk[t]
  BY DEF PushLoad, PushLink, PopLoad, PopNext, PopUnlink, AllLoad, PushCas, PopCas, AllCas,
         CallPush, CallPop, CallPopAll, Call, TrySet, Return, LoadHead, Goto, locals,
         StackInv, TypeOK
<1>3. CallOK(t)'
  <2>1. pc'[t] \in {"all_load", "all_cas", "all_count"} =>
          \/ stk'[t] \in PopAllStacks
          \/ stk'[t] = stk[t] /\ pc[t] \in {"all_load", "all_cas", "all_count"}
    BY DEF PushLoad, PushLink, PopLoad, PopNext, PopUnlink, AllLoad, PushCas, PopCas, AllCas,
           CallPush, CallPop, CallPopAll, Call, TrySet, Return, LoadHead, Goto, locals,
           StackInv, TypeOK
  <2> QED BY <1>2, <2>1 DEF CallOK, Counts
<1> QED BY <1>1, <1>2, <1>3, QuietCounts

\* Every step keeps the count.
LEMMA CountsNext == ASSUME StackInv, Counts, [Next]_vars PROVE Counts'
<1>1. TypeOK'
  BY StackTypes
<1>2. CASE UNCHANGED vars
  <2>1. Unmoved
    BY <1>2, StutterKeeps
  <2>2. UNCHANGED <<count, pc, stk, chain>>
    BY <1>2 DEF vars, locals
  <2>3. \A s : Uncounted(s)' = Uncounted(s) /\ Overcounted(s)' = Overcounted(s)
    BY <2>2 DEF Uncounted, Overcounted
  <2>4. \A s \in Stacks \ PopAllStacks :
          count'[s] + Cardinality(Uncounted(s)') - Cardinality(Overcounted(s)') = Len(Items(s)')
    BY <2>1, <2>2, <2>3 DEF Counts, Unmoved
  <2> QED BY <2>2, <2>4 DEF Counts
<1>3. ASSUME NEW t \in Threads, Step(t) PROVE Counts'
  <2>1. CASE PushLoad(t) \/ PopLoad(t) \/ PopNext(t) \/ AllLoad(t)
    BY <1>1, <2>1, LoadsKeep, OtherCounts
  <2>2. CASE (PushCas(t) \/ PopCas(t) \/ AllCas(t)) /\ head[stk[t]] # old[t]
    BY <1>1, <2>2, LoadsKeep, OtherCounts
  <2>3. CASE (PushCas(t) \/ PopCas(t) \/ AllCas(t)) /\ head[stk[t]] = old[t]
    <3>1. head' # head
      BY <2>3, SwapSwings
    <3> QED BY <2>3, <3>1, PushCasCounts, PopCasCounts, PopAllCounts
  <2>4. CASE PushLink(t)
    BY <1>1, <2>4, PushLinkKeeps, OtherCounts
  <2>5. CASE PopUnlink(t)
    BY <1>1, <2>5, PopUnlinkKeeps, OtherCounts
  <2>6. CASE PushCount(t) \/ PopCount(t) \/ AllCount(t)
    BY <1>1, <2>6, CountsKeep, PushCountCounts, PopCountCounts, PopAllCounts
  <2> QED BY <1>3, <2>1, <2>2, <2>3, <2>4, <2>5, <2>6 DEF Step
<1>4. ASSUME NEW t \in Threads, NEW s \in Stacks,
             CallPush(t, s) \/ CallPop(t, s) \/ CallPopAll(t, s)
      PROVE  Counts'
  BY <1>1, <1>4, CallPushKeeps, CallsKeep, OtherCounts
<1>5. ASSUME NEW t \in Threads, NEW s \in Stacks, Reset(t, s) PROVE Counts'
  BY <1>5, ResetCounts
<1> QED BY <1>2, <1>3, <1>4, <1>5 DEF Next

\* When no call is in progress there is nothing left to count, so m_count is the
\* number of nodes on a stack that no PopAll is used on.
THEOREM CountsAgree == Spec => []QuiescentCount
<1>1. ASSUME \A t \in Threads : pc[t] = "idle"
      PROVE  \A s : Cardinality(Uncounted(s)) = 0 /\ Cardinality(Overcounted(s)) = 0
  <2>1. \A s : Uncounted(s) = {} /\ Overcounted(s) = {}
    BY <1>1 DEF Uncounted, Overcounted
  <2> QED BY <2>1, FS_EmptySet
<1>2. ASSUME Init PROVE Counts
  <2>1. \A t \in Threads : pc[t] = "idle"
    BY <1>2 DEF Init
  <2>2. \A s \in Stacks : count[s] = 0 /\ Items(s) = <<>>
    BY <1>2, PathEmpty, WalkIs DEF Init, Null, Items
  <2>3. Len(<<>>) = 0
    OBVIOUS
  <2>4. \A s \in Stacks : Len(Items(s)) = 0
    BY <2>2, <2>3
  <2>5. \A s \in Stacks \ PopAllStacks :
          count[s] + Cardinality(Uncounted(s)) - Cardinality(Overcounted(s)) = Len(Items(s))
    BY <1>1, <2>1, <2>2, <2>4
  <2> QED BY <2>1, <2>5 DEF Counts
<1>3. ASSUME StackInv, Counts PROVE QuiescentCount
  <2> SUFFICES ASSUME \A t \in Threads : pc[t] = "idle", NEW s \in Stacks \ PopAllStacks
      PROVE  count[s] = Len(Items(s))
    BY DEF QuiescentCount
  <2>1. count[s] \in Int
    BY <1>3 DEF StackInv, TypeOK
  <2>2. count[s] + Cardinality(Uncounted(s)) - Cardinality(Overcounted(s)) = Len(Items(s))
    BY <1>3 DEF Counts
  <2> QED BY <1>1, <2>1, <2>2
<1> QED BY <1>2, <1>3, StackAlways, CountsNext, PTL DEF Spec
-----------------------------------------------------------------------------
(* Sequences turned round *)

\* what ReadAll will return once list is c and reversed is d
Turned(c, d) == Reverse(c) \o d

\* Nothing to turn round.
LEMMA TurnedNone ==
  ASSUME NEW S, NEW d \in Seq(S)
  PROVE  Turned(<<>>, d) = d /\ Reverse(<<>>) = <<>>
<1>1. Reverse(<<>>) = <<>>
  BY DEF Reverse
<1> QED BY <1>1 DEF Turned

\* The length and members of a sequence turned round.
LEMMA ReverseIs ==
  ASSUME NEW S, NEW c \in Seq(S)
  PROVE  /\ Reverse(c) \in Seq(S) /\ Len(Reverse(c)) = Len(c)
         /\ \A i \in 1 .. Len(c) : Reverse(c)[i] = c[(Len(c) - i) + 1]
<1>1. \A i \in 1 .. Len(c) : (Len(c) - i) + 1 \in 1 .. Len(c)
  OBVIOUS
<1>2. Reverse(c) = [i \in 1 .. Len(c) |-> c[(Len(c) - i) + 1]]
  BY DEF Reverse
<1>3. Reverse(c) \in [1 .. Len(c) -> S]
  BY <1>1, <1>2
<1> QED BY <1>2, <1>3

\* A sequence turned round ends with what it began with.
LEMMA ReverseFirst ==
  ASSUME NEW S, NEW c \in Seq(S), NEW n \in S
  PROVE  Reverse(Joined(<<n>>, c)) = Append(Reverse(c), n)
<1> DEFINE e == Joined(<<n>>, c)
           l == Len(c)
<1>1. /\ e \in Seq(S) /\ Len(e) = l + 1 /\ l \in Nat
      /\ \A i \in 1 .. l + 1 : e[i] = IF i = 1 THEN n ELSE c[i - 1]
  BY DEF Joined
<1>2. /\ Reverse(c) \in Seq(S) /\ Len(Reverse(c)) = l
      /\ \A i \in 1 .. l : Reverse(c)[i] = c[(l - i) + 1]
  BY ReverseIs
<1> HIDE DEF e, l
<1>3. /\ Reverse(e) \in Seq(S) /\ Len(Reverse(e)) = l + 1
      /\ \A i \in 1 .. l + 1 : Reverse(e)[i] = e[((l + 1) - i) + 1]
  <2>1. PICK m : m = l + 1
    OBVIOUS
  <2>2. /\ Reverse(e) \in Seq(S) /\ Len(Reverse(e)) = m
        /\ \A i \in 1 .. m : Reverse(e)[i] = e[(m - i) + 1]
    BY <1>1, <2>1, ReverseIs
  <2> QED BY <2>1, <2>2
<1>4. PICK a : a = Append(Reverse(c), n)
  OBVIOUS
<1>5. a \in Seq(S) /\ Len(a) = l + 1
      /\ \A i \in 1 .. l + 1 : a[i] = IF i = l + 1 THEN n ELSE Reverse(c)[i]
  BY <1>1, <1>2, <1>4
<1>6. \A i \in 1 .. l + 1 : Reverse(e)[i] = a[i]
  <2> TAKE i \in 1 .. l + 1
  <2>1. ((l + 1) - i) + 1 \in 1 .. l + 1
    BY <1>1
  <2>2. CASE i = l + 1
    BY <1>1, <1>3, <1>5, <2>1, <2>2
  <2>3. CASE i # l + 1
    <3>1. i \in 1 .. l /\ ((l + 1) - i) + 1 # 1 /\ (((l + 1) - i) + 1) - 1 = (l - i) + 1
      BY <1>1, <2>3
    <3>2. PICK j : j = ((l + 1) - i) + 1
      OBVIOUS
    <3>3. Reverse(e)[i] = e[j] /\ j \in 1 .. l + 1 /\ j # 1 /\ j - 1 = (l - i) + 1
      BY <1>3, <2>1, <3>1, <3>2
    <3>4. e[j] = c[j - 1]
      BY <1>1, <3>3
    <3>5. a[i] = c[(l - i) + 1]
      BY <1>2, <1>5, <2>3, <3>1
    <3> QED BY <3>3, <3>4, <3>5
  <2> QED BY <2>2, <2>3
<1>7. Reverse(e) = a
  BY <1>3, <1>5, <1>6, <1>1, SeqEqual
<1> QED BY <1>4, <1>7 DEF e

\* A turn of the loop of ReadAll changes nothing of what it will return.
LEMMA TurnedStep ==
  ASSUME NEW S, NEW c \in Seq(S), NEW d \in Seq(S), NEW n \in S
  PROVE  Turned(Joined(<<n>>, c), d) = Turned(c, Joined(<<n>>, d))
<1>1. Reverse(c) \in Seq(S)
  BY ReverseIs
<1>2. Turned(Joined(<<n>>, c), d) = Append(Reverse(c), n) \o d
  BY ReverseFirst DEF Turned
<1>3. PICK r \in Seq(S) : r = Reverse(c)
  BY <1>1
<1>4. Append(r, n) \o d = r \o (<<n>> \o d)
  OBVIOUS
<1> QED BY <1>2, <1>3, <1>4 DEF Turned, Joined
-----------------------------------------------------------------------------
(* The inductive invariant *)

\* Types of what the queue adds to the stack.
QTypes ==
  /\ qpc \in [Threads -> {"idle", "stack", "reverse", "return"}]
  /\ list \in [Threads -> Nodes \union {NULL}]
  /\ reversed \in [Threads -> Nodes \union {NULL}]
  /\ signalled \subseteq Nodes

\* Where a thread is in a call of the queue and of its stack.
InCall(t) ==
  /\ pc[t] \in {"idle", "push_load", "push_link", "push_cas", "push_count",
                "all_load", "all_cas", "all_count"}
  /\ qpc[t] = "stack" <=> pc[t] # "idle"
  /\ qpc[t] = "reverse" <=> list[t] # NULL
  /\ pc[t] # "idle" => stk[t] = m_stack /\ reversed[t] = NULL
  /\ qpc[t] = "idle" => reversed[t] = NULL
  /\ Linking(t) => Len(chain[t]) = 1

\* The nodes still to turn round and those turned round are two lists of nodes
\* that the thread holds; no other thread reaches them.
OwnLists(t) ==
  /\ Good(list[t]) /\ Good(reversed[t])
  /\ Range(Walk(list[t])) \subseteq held[t] /\ Range(Walk(reversed[t])) \subseteq held[t]
  /\ Range(Walk(list[t])) \cap Range(Walk(reversed[t])) = {}

QueueInv ==
  /\ StackInv /\ QTypes
  /\ \A t \in Threads : InCall(t) /\ OwnLists(t)
  /\ OneSignalPerBatch

\* The stack is one.
LEMMA TheStack == m_stack \in Stacks
  BY StackAssumption DEF m_stack

\* A null pointer heads a list of no nodes.
LEMMA NullIs ==
  /\ Good(NULL) /\ Walk(NULL) = <<>> /\ Range(Walk(NULL)) = {}
  /\ Good(NULL)' /\ Walk(NULL)' = <<>> /\ Range(Walk(NULL)') = {}
<1>1. Path(Nodes, NULL, next, <<>>, NULL) /\ Path(Nodes, NULL, next', <<>>, NULL)
      /\ Range(<<>>) = {}
  BY PathEmpty
<1>2. Walk(NULL) = <<>> /\ Walk(NULL)' = <<>>
  BY <1>1, WalkIs, WalkIsNext
<1> QED BY <1>1, <1>2 DEF Good

\* What ReadAll will return is what it has turned round behind what it has not.
LEMMA BatchIs ==
  ASSUME QueueInv, NEW t \in Threads
  PROVE  BatchOf(t) = IF pc[t] = "all_count" THEN Reverse(Walk(old[t].ptr))
                      ELSE Turned(Walk(list[t]), Walk(reversed[t]))
<1>1. InCall(t) /\ OwnLists(t) /\ qpc[t] \in {"idle", "stack", "reverse", "return"}
  BY DEF QueueInv, QTypes
<1>2. Walk(list[t]) \in Seq(Nodes) /\ Walk(reversed[t]) \in Seq(Nodes)
  BY <1>1 DEF OwnLists, Good, Path, Distinct
<1>3. CASE pc[t] = "all_count"
  <2>1. qpc[t] = "stack"
    BY <1>1, <1>3 DEF InCall
  <2> QED BY <1>3, <2>1 DEF BatchOf
<1>4. CASE pc[t] # "all_count" /\ qpc[t] = "reverse"
  BY <1>4 DEF BatchOf, Turned
<1>5. CASE pc[t] # "all_count" /\ qpc[t] = "return"
  <2>1. list[t] = NULL
    BY <1>1, <1>5 DEF InCall
  <2>2. Walk(list[t]) = <<>>
    BY <2>1, NullIs
  <2> QED BY <1>2, <1>5, <2>2, TurnedNone DEF BatchOf
<1>6. CASE pc[t] # "all_count" /\ qpc[t] \in {"idle", "stack"}
  <2>1. list[t] = NULL /\ reversed[t] = NULL
    BY <1>1, <1>6 DEF InCall
  <2>2. Walk(list[t]) = <<>> /\ Walk(reversed[t]) = <<>>
    BY <2>1, NullIs
  <2> QED BY <1>2, <1>6, <2>2, TurnedNone DEF BatchOf
<1> QED BY <1>1, <1>3, <1>4, <1>5, <1>6
-----------------------------------------------------------------------------
(* What a step of one thread leaves alone *)

\* A thread's part of the queue.
QSame(u) ==
  Same(u) /\ qpc'[u] = qpc[u] /\ list'[u] = list[u] /\ reversed'[u] = reversed[u]

\* A step of a thread that relinks only nodes of its own does not disturb the
\* lists of another.
LEMMA OtherLists ==
  ASSUME QueueInv, NEW t \in Threads, NEW u \in Threads, u # t, QSame(u),
         NEW S, S \subseteq Owned(t), \A n \in Nodes \ S : next'[n] = next[n]
  PROVE  /\ Walk(list[u])' = Walk(list[u]) /\ Walk(reversed[u])' = Walk(reversed[u])
         /\ InCall(u)' /\ OwnLists(u)'
<1>1. OwnLists(u) /\ InCall(u) /\ Owned(u) \cap S = {} /\ held[u] \subseteq Owned(u)
  BY DEF QueueInv, StackInv, Apart, Owned
<1>2. Range(Walk(list[u])) \subseteq Nodes /\ Range(Walk(reversed[u])) \subseteq Nodes
  BY <1>1, PathRange DEF OwnLists, Good, Path
<1>3. /\ \A n \in Range(Walk(list[u])) : next'[n] = next[n]
      /\ \A n \in Range(Walk(reversed[u])) : next'[n] = next[n]
  BY <1>1, <1>2 DEF OwnLists
<1>4. PICK p, q : p = list[u] /\ q = reversed[u]
  OBVIOUS
<1>5. /\ Walk(p)' = Walk(p) /\ Path(Nodes, NULL, next', Walk(p), p)
      /\ Walk(q)' = Walk(q) /\ Path(Nodes, NULL, next', Walk(q), q)
  BY <1>1, <1>3, <1>4, WalkKept DEF OwnLists
<1>6. list'[u] = p /\ reversed'[u] = q
  BY <1>4 DEF QSame
<1>7. Walk(list[u])' = Walk(p) /\ Walk(reversed[u])' = Walk(q)
  BY <1>5, <1>6
<1>8. InCall(u)'
  BY <1>1 DEF InCall, QSame, Same, Linking
<1>9. OwnLists(u)'
  BY <1>1, <1>4, <1>5, <1>6, <1>7 DEF OwnLists, Good, QSame, Same
<1> QED BY <1>4, <1>7, <1>8, <1>9

\* A step of a thread relinks only nodes of its own.
LEMMA StepLocal ==
  ASSUME QueueInv, NEW t \in Threads,
         Write(t) \/ ReadAll(t) \/ QStep(t) \/ ResetQueue(t)
  PROVE  /\ \A u \in Threads \ {t} : QSame(u)
         /\ \E S \in SUBSET Owned(t) : \A n \in Nodes \ S : next'[n] = next[n]
<1>1. /\ TypeOK /\ QTypes /\ ChainOK(t) /\ InCall(t) /\ OwnLists(t)
  BY DEF QueueInv, StackInv
<1>2. held[t] \subseteq Owned(t) /\ (Linking(t) => Range(chain[t]) \subseteq Owned(t))
  BY DEF Owned, Linking
<1>3. CASE Write(t)
  <2>1. PICK c \in Chains(held[t]) :
          /\ chain' = [chain EXCEPT ![t] = c]
          /\ held' = [held EXCEPT ![t] = @ \ Range(c)]
          /\ next' = [n \in Nodes |->
                       IF \E i \in 1 .. Len(c) - 1 : c[i] = n
                       THEN c[1 + CHOOSE i \in 1 .. Len(c) - 1 : c[i] = n]
                       ELSE IF n = c[Len(c)] THEN NULL ELSE next[n]]
    BY <1>3 DEF Write, CallPush
  <2>2. \A u \in Threads \ {t} : QSame(u)
    BY <1>1, <1>3, <2>1 DEF Write, CallPush, Call, Goto, GoQ, QSame, Same, TypeOK, QTypes
  <2>3. Len(c) \in Nat \ {0} /\ c \in [1 .. Len(c) -> held[t]] /\ Range(c) \subseteq held[t]
    BY <1>1, ChainIs DEF TypeOK
  <2>4. \A i \in 1 .. Len(c) : c[i] \in Range(c)
    BY <2>3 DEF Range
  <2>5. Len(c) \in 1 .. Len(c) /\ \A i \in 1 .. Len(c) - 1 : i \in 1 .. Len(c)
    BY <2>3
  <2>6. \A n \in Nodes \ Range(c) : next'[n] = next[n]
    BY <2>1, <2>4, <2>5
  <2>7. Range(c) \in SUBSET Owned(t)
    BY <1>2, <2>3
  <2> QED BY <2>2, <2>6, <2>7
<1>4. CASE ReadAll(t) \/ ResetQueue(t) \/ ReturnAll(t)
  <2>1. \A u \in Threads \ {t} : QSame(u)
    BY <1>1, <1>4 DEF ReadAll, CallPopAll, Call, ResetQueue, Reset, ReturnAll, Goto, GoQ, QSame,
                      Same, TypeOK, QTypes, locals, vars, queueVars
  <2>2. next' = next
    BY <1>4 DEF ReadAll, CallPopAll, ResetQueue, Reset, ReturnAll, vars
  <2> QED BY <2>1, <2>2
<1>5. CASE WriteStep(t)
  <2>1. \A u \in Threads \ {t} : QSame(u)
    BY <1>1, <1>5 DEF WriteStep, PushLoad, PushLink, PushCas, PushCount, LoadHead, Return,
                      Goto, GoQ, QSame, Same, TypeOK, QTypes, locals
  <2>2. CASE PushLink(t)
    <3>1. PICK n \in Nodes : n = chain[t][Len(chain[t])] /\ n \in Range(chain[t])
      <4>1. /\ chain[t] \in Seq(Nodes) /\ chain[t] # <<>>
        BY <1>1, <2>2 DEF PushLink, ChainOK, Linking, Distinct
      <4>2. Len(chain[t]) \in 1 .. Len(chain[t])
        BY <4>1, EmptySeq
      <4> QED BY <4>1, <4>2 DEF Range
    <3>2. \A m \in Nodes \ {n} : next'[m] = next[m]
      BY <1>1, <2>2, <3>1 DEF PushLink, TypeOK
    <3>3. n \in Owned(t)
      BY <1>2, <2>2, <3>1 DEF PushLink, Linking
    <3> QED BY <2>1, <3>2, <3>3
  <2>3. CASE ~PushLink(t)
    <3>1. next' = next
      BY <1>5, <2>3 DEF WriteStep, PushLoad, PushCas, PushCount
    <3> QED BY <2>1, <3>1
  <2> QED BY <2>2, <2>3
<1>6. CASE DetachStep(t)
  <2>1. \A u \in Threads \ {t} : QSame(u)
    BY <1>1, <1>6 DEF DetachStep, AllLoad, AllCas, AllCount, LoadHead, Return,
                      Goto, GoQ, QSame, Same, TypeOK, QTypes, locals
  <2>2. next' = next
    BY <1>6 DEF DetachStep, AllLoad, AllCas, AllCount
  <2> QED BY <2>1, <2>2
<1>7. CASE ReverseStep(t)
  <2>1. \A u \in Threads \ {t} : QSame(u)
    BY <1>1, <1>7 DEF ReverseStep, GoQ, QSame, Same, TypeOK, QTypes, locals
  <2>2. list[t] \in Owned(t)
    <3>1. list[t] # NULL /\ Path(Nodes, NULL, next, Walk(list[t]), list[t])
      BY <1>1, <1>7 DEF ReverseStep, InCall, OwnLists, Good
    <3>2. list[t] \in Range(Walk(list[t]))
      BY <3>1, PathNull, StackAssumption
    <3> QED BY <1>1, <1>2, <3>2 DEF OwnLists
  <2>3. \A n \in Nodes \ {list[t]} : next'[n] = next[n]
    BY <1>1, <1>7 DEF ReverseStep, TypeOK
  <2> QED BY <2>1, <2>2, <2>3
<1> QED BY <1>3, <1>4, <1>5, <1>6, <1>7 DEF QStep

\* Turning a chain round is no step of the stack; all the others are, or leave
\* it alone.
LEMMA StackNextOrReverse ==
  ASSUME [QNext]_qvars
  PROVE  [Next]_vars \/ \E t \in Threads : ReverseStep(t)
<1>1. ASSUME NEW t \in Threads, Write(t) PROVE [Next]_vars
  BY <1>1, TheStack DEF Write, Next
<1>2. ASSUME NEW t \in Threads, ReadAll(t) PROVE [Next]_vars
  BY <1>2, TheStack DEF ReadAll, Next
<1>3. ASSUME NEW t \in Threads, WriteStep(t) \/ DetachStep(t) PROVE [Next]_vars
  BY <1>3 DEF WriteStep, DetachStep, Next, Step
<1>4. ASSUME NEW t \in Threads, ReturnAll(t) PROVE [Next]_vars
  BY <1>4 DEF ReturnAll
<1>5. ASSUME NEW t \in Threads, ResetQueue(t) PROVE [Next]_vars
  BY <1>5, TheStack DEF ResetQueue, Next
<1>6. CASE UNCHANGED qvars
  BY <1>6 DEF qvars
<1> QED BY <1>1, <1>2, <1>3, <1>4, <1>5, <1>6 DEF QNext, QStep

\* Nor does it move a node.
LEMMA ReverseKeepsStack ==
  ASSUME QueueInv, NEW t \in Threads, ReverseStep(t)
  PROVE  StackInv' /\ Unmoved
<1>1. /\ StackInv /\ TypeOK /\ QTypes /\ InCall(t) /\ OwnLists(t) /\ HeadOK(t) /\ ChainOK(t)
  BY DEF QueueInv, StackInv
<1>2. /\ UNCHANGED <<head, count, held, pc, stk, old, chain, nxt>>
      /\ next' = [next EXCEPT ![list[t]] = reversed[t]] /\ pc[t] = "idle"
  BY <1>1 DEF ReverseStep, locals, InCall
<1>3. TypeOK'
  BY <1>1, <1>2 DEF TypeOK, QTypes
<1>4. \A u \in Threads \ {t} : Same(u)
  BY <1>2 DEF Same
<1>5. PICK S \in SUBSET Owned(t) : \A n \in Nodes \ S : next'[n] = next[n]
  BY StepLocal DEF QStep
<1>6. Owned(t)' = Owned(t) /\ ChainOK(t)' /\ HeadOK(t)'
  BY <1>1, <1>2 DEF Owned, ChainOK, HeadOK, Linking, Loaded
<1> QED BY <1>1, <1>2, <1>3, <1>4, <1>5, <1>6, HeadsKept

\* So the invariant of the stack holds of the queue.
LEMMA QueueStack == ASSUME QueueInv, [QNext]_qvars PROVE StackInv'
  BY StackNextOrReverse, ReverseKeepsStack, StackNext DEF QueueInv
-----------------------------------------------------------------------------
(* What a step of a thread does to its own part *)

\* A thread with nothing to turn round.
LEMMA NoLists ==
  ASSUME NEW t \in Threads, list'[t] = NULL, reversed'[t] = NULL
  PROVE  OwnLists(t)'
<1>1. PICK p : p = NULL /\ list'[t] = p /\ reversed'[t] = p
  OBVIOUS
<1>2. Good(p)' /\ Walk(p)' = <<>> /\ Range(Walk(p)') = {}
  BY <1>1, NullIs
<1> QED BY <1>1, <1>2 DEF OwnLists, Good

\* The types, and the calls of a thread.
LEMMA QTypesKept ==
  ASSUME QueueInv, [QNext]_qvars
  PROVE  QTypes'
<1>1. QTypes /\ TypeOK /\ \A t \in Threads : InCall(t) /\ ChainOK(t)
  BY DEF QueueInv, StackInv
<1>2. ASSUME NEW t \in Threads, Write(t) \/ ReadAll(t) \/ ResetQueue(t) \/ ReturnAll(t)
      PROVE  QTypes'
  BY <1>1, <1>2 DEF Write, ReadAll, ResetQueue, ReturnAll, GoQ, QTypes, queueVars
<1>3. ASSUME NEW t \in Threads, WriteStep(t) PROVE QTypes'
  <2>1. qpc' \in [Threads -> {"idle", "stack", "reverse", "return"}] /\ UNCHANGED <<list, reversed>>
    BY <1>1, <1>3 DEF WriteStep, GoQ, QTypes
  <2>2. signalled' \subseteq Nodes
    <3>1. CASE pc'[t] = "push_count"
      <4>1. PushCas(t)
        BY <1>1, <1>3, <3>1 DEF WriteStep, PushLoad, PushLink, PushCount, Return, Goto, TypeOK
      <4>2. chain[t] \in Seq(Nodes) /\ chain[t] # <<>>
        BY <1>1, <4>1 DEF PushCas, ChainOK, Linking, Distinct
      <4>3. chain[t][1] \in Nodes
        BY <4>2, EmptySeq
      <4> QED BY <1>1, <1>3, <3>1, <4>3 DEF WriteStep, QTypes
    <3>2. CASE pc'[t] # "push_count"
      BY <1>1, <1>3, <3>2 DEF WriteStep, QTypes
    <3> QED BY <3>1, <3>2
  <2> QED BY <1>1, <2>1, <2>2 DEF QTypes
<1>4. ASSUME NEW t \in Threads, DetachStep(t) PROVE QTypes'
  BY <1>1, <1>4 DEF DetachStep, GoQ, QTypes, TypeOK
<1>5. ASSUME NEW t \in Threads, ReverseStep(t) PROVE QTypes'
  <2>1. list[t] \in Nodes /\ next[list[t]] \in Nodes \union {NULL}
    BY <1>1, <1>5 DEF ReverseStep, QTypes, TypeOK, InCall
  <2> QED BY <1>1, <1>5, <2>1 DEF ReverseStep, GoQ, QTypes
<1>6. CASE UNCHANGED qvars
  BY <1>1, <1>6 DEF qvars, queueVars, QTypes
<1> QED BY <1>2, <1>3, <1>4, <1>5, <1>6 DEF QNext, QStep

LEMMA InCallKept ==
  ASSUME QueueInv, NEW t \in Threads,
         Write(t) \/ ReadAll(t) \/ QStep(t) \/ ResetQueue(t)
  PROVE  InCall(t)'
<1>1. QTypes /\ TypeOK /\ InCall(t)
  BY DEF QueueInv, StackInv
<1>2. CASE Write(t)
  BY <1>1, <1>2 DEF Write, CallPush, Call, Goto, GoQ, InCall, Linking, TypeOK, QTypes
<1>3. CASE ReadAll(t)
  BY <1>1, <1>3 DEF ReadAll, CallPopAll, Call, Goto, GoQ, InCall, Linking, TypeOK, QTypes
<1>4. CASE ResetQueue(t)
  BY <1>1, <1>4 DEF ResetQueue, Reset, locals, queueVars, InCall, Linking
<1>5. CASE ReturnAll(t)
  BY <1>1, <1>5 DEF ReturnAll, vars, locals, GoQ, InCall, Linking, QTypes
<1>6. CASE ReverseStep(t)
  BY <1>1, <1>6 DEF ReverseStep, locals, GoQ, InCall, Linking, QTypes
<1>7. CASE WriteStep(t)
  <2>1. CASE PushLoad(t)
    BY <1>1, <1>7, <2>1 DEF WriteStep, PushLoad, Goto, GoQ, InCall, Linking, TypeOK, QTypes
  <2>2. CASE PushLink(t)
    BY <1>1, <1>7, <2>2 DEF WriteStep, PushLink, Goto, GoQ, locals, InCall, Linking, TypeOK, QTypes
  <2>3. CASE PushCas(t)
    BY <1>1, <1>7, <2>3 DEF WriteStep, PushCas, Goto, GoQ, locals, InCall, Linking, TypeOK, QTypes
  <2>4. CASE PushCount(t)
    BY <1>1, <1>7, <2>4 DEF WriteStep, PushCount, Return, Goto, GoQ, InCall, Linking, TypeOK, QTypes
  <2> QED BY <1>7, <2>1, <2>2, <2>3, <2>4 DEF WriteStep
<1>8. CASE DetachStep(t)
  <2>1. CASE AllLoad(t)
    BY <1>1, <1>8, <2>1 DEF DetachStep, AllLoad, Goto, GoQ, InCall, Linking, TypeOK, QTypes
  <2>2. CASE AllCas(t)
    BY <1>1, <1>8, <2>2 DEF DetachStep, AllCas, Goto, GoQ, locals, InCall, Linking, TypeOK, QTypes
  <2>3. CASE AllCount(t)
    BY <1>1, <1>8, <2>3 DEF DetachStep, AllCount, Return, Goto, GoQ, InCall, Linking, TypeOK, QTypes
  <2> QED BY <1>8, <2>1, <2>2, <2>3 DEF DetachStep
<1> QED BY <1>2, <1>3, <1>4, <1>5, <1>6, <1>7, <1>8 DEF QStep

\* One turn of the loop: a node goes from the front of one list to the front of
\* the other.
LEMMA ReverseTurns ==
  ASSUME QueueInv, NEW t \in Threads, ReverseStep(t)
  PROVE  \E c, d \in Seq(Nodes), n \in Nodes :
           /\ Walk(list[t]) = Joined(<<n>>, c) /\ Walk(reversed[t]) = d
           /\ Walk(list[t])' = c /\ Walk(reversed[t])' = Joined(<<n>>, d)
           /\ OwnLists(t)'
<1>1. QTypes /\ TypeOK /\ InCall(t) /\ OwnLists(t)
  BY DEF QueueInv, StackInv
<1>2. PICK n : n = list[t]
  OBVIOUS
<1>3. /\ n \in Nodes /\ n # NULL /\ list'[t] = next[n] /\ reversed'[t] = n
      /\ next' = [next EXCEPT ![n] = reversed[t]] /\ held' = held
  BY <1>1, <1>2 DEF ReverseStep, InCall, QTypes
<1>4. PICK l, d : l = Walk(list[t]) /\ d = Walk(reversed[t])
  OBVIOUS
<1>5. /\ Path(Nodes, NULL, next, l, n) /\ Path(Nodes, NULL, next, d, reversed[t])
      /\ Range(l) \subseteq held[t] /\ Range(d) \subseteq held[t] /\ Range(l) \cap Range(d) = {}
  BY <1>1, <1>2, <1>4 DEF OwnLists, Good
<1>6. l # <<>>
  BY <1>3, <1>5, PathNull, StackAssumption
<1>7. PICK c : c = Tail(l)
  OBVIOUS
<1>8. /\ Path(Nodes, NULL, next, c, next[n]) /\ n = Head(l) /\ n \in Range(l)
      /\ n \notin Range(c) /\ Range(l) = Range(c) \union {n}
  BY <1>5, <1>6, <1>7, PathTail
<1>9. \A m : m # n => next'[m] = next[m]
  BY <1>1, <1>3 DEF TypeOK
<1>10. next'[n] = reversed[t]
  BY <1>1, <1>3 DEF TypeOK
<1>11. Path(Nodes, NULL, next', c, next[n])
  BY <1>8, <1>9, PathKept
<1>12. n \notin Range(d)
  BY <1>5, <1>8
<1>13. Path(Nodes, NULL, next', d, reversed[t])
  BY <1>5, <1>9, <1>12, PathKept
<1>14. PICK e : e = <<n>>
  OBVIOUS
<1>15. /\ e \in Seq(Nodes) /\ Len(e) = 1 /\ e[1] = n /\ e # <<>>
       /\ Range(e) = {n} /\ Distinct(Nodes, e) /\ Links(next', e)
  BY <1>3, <1>14 DEF Range, Distinct, Links
<1>16. next'[e[Len(e)]] = reversed[t] /\ Range(d) \cap Range(e) = {}
  BY <1>10, <1>12, <1>15
<1>17. Path(Nodes, NULL, next', e \o d, e[1])
  BY <1>13, <1>15, <1>16, PathConcat
<1>18. Range(e \o d) = Range(e) \union Range(d)
  BY <1>5, <1>15, RangeConcat DEF Path
<1>19. PICK f : f = Joined(e, d)
  OBVIOUS
<1>20. Path(Nodes, NULL, next', f, n) /\ Range(f) = Range(d) \union {n}
  BY <1>15, <1>17, <1>18, <1>19 DEF Joined
<1>21. PICK p : p = next[n]
  OBVIOUS
<1>22. Walk(p)' = c /\ Walk(n)' = f
  BY <1>11, <1>20, <1>21, WalkIsNext
<1>23. Walk(list[t])' = c /\ Walk(reversed[t])' = f
  BY <1>3, <1>21, <1>22
<1>24. OwnLists(t)'
  <2>1. Good(list[t])' /\ Good(reversed[t])'
    BY <1>3, <1>11, <1>20, <1>23 DEF Good
  <2>2. /\ Range(c) \subseteq held[t] /\ Range(f) \subseteq held[t]
        /\ Range(c) \cap Range(f) = {}
    BY <1>5, <1>8, <1>20
  <2> QED BY <1>3, <1>23, <2>1, <2>2 DEF OwnLists
<1>25. c \in Seq(Nodes) /\ d \in Seq(Nodes) /\ l \in Seq(Nodes)
  BY <1>5, <1>8 DEF Path, Distinct
<1>26. l = Joined(<<n>>, c)
  BY <1>6, <1>7, <1>8, <1>25 DEF Joined
<1> QED BY <1>3, <1>4, <1>14, <1>19, <1>23, <1>24, <1>25, <1>26

\* The same of the state after a step.
LEMMA BatchIsNext ==
  QueueInv' => \A t \in Threads :
    BatchOf(t)' = IF pc'[t] = "all_count" THEN Reverse(Walk(old[t].ptr)')
                  ELSE Turned(Walk(list[t])', Walk(reversed[t])')
<1>1. QueueInv => \A t \in Threads :
        BatchOf(t) = IF pc[t] = "all_count" THEN Reverse(Walk(old[t].ptr))
                     ELSE Turned(Walk(list[t]), Walk(reversed[t]))
  BY BatchIs
<1>2. QueueInv' => (\A t \in Threads :
        BatchOf(t) = IF pc[t] = "all_count" THEN Reverse(Walk(old[t].ptr))
                     ELSE Turned(Walk(list[t]), Walk(reversed[t])))'
  BY <1>1, PTL
<1> QED BY <1>2

LEMMA OwnListsKept ==
  ASSUME QueueInv, NEW t \in Threads,
         Write(t) \/ ReadAll(t) \/ QStep(t) \/ ResetQueue(t)
  PROVE  OwnLists(t)'
<1>1. QTypes /\ TypeOK /\ InCall(t) /\ OwnLists(t) /\ Lists
  BY DEF QueueInv, StackInv
<1>2. CASE Write(t) \/ ReadAll(t) \/ ResetQueue(t) \/ ReturnAll(t)
  <2>1. list'[t] = NULL /\ reversed'[t] = NULL
    BY <1>1, <1>2 DEF Write, ReadAll, ResetQueue, ReturnAll, queueVars, InCall, QTypes
  <2> QED BY <2>1, NoLists
<1>3. CASE WriteStep(t)
  <2>1. list'[t] = NULL /\ reversed'[t] = NULL
    BY <1>1, <1>3 DEF WriteStep, PushLoad, PushLink, PushCas, PushCount, InCall
  <2> QED BY <2>1, NoLists
<1>4. CASE DetachStep(t) /\ ~AllCount(t)
  <2>1. pc'[t] # "idle" /\ pc[t] # "idle"
    BY <1>1, <1>4 DEF DetachStep, AllLoad, AllCas, Goto, TypeOK
  <2>2. list'[t] = NULL /\ reversed'[t] = NULL
    BY <1>1, <1>4, <2>1 DEF DetachStep, InCall
  <2> QED BY <2>2, NoLists
<1>5. CASE DetachStep(t) /\ AllCount(t)
  <2>1. pc'[t] = "idle" /\ pc[t] = "all_count" /\ next' = next
    BY <1>1, <1>5 DEF AllCount, Return, Goto, TypeOK
  <2>2. PICK p : p = old[t].ptr
    OBVIOUS
  <2>3. /\ list'[t] = p /\ reversed'[t] = NULL
        /\ held'[t] = held[t] \union Range(Walk(p))
    BY <1>1, <1>5, <2>1, <2>2 DEF DetachStep, AllCount, InCall, QTypes, TypeOK
  <2>4. Good(p)
    BY <1>1, <2>1, <2>2 DEF Lists
  <2>5. Walk(p)' = Walk(p) /\ Path(Nodes, NULL, next', Walk(p), p)
    BY <2>1, <2>4, WalkKept
  <2>6. PICK q : q = NULL
    OBVIOUS
  <2>7. Good(q)' /\ Range(Walk(q)') = {} /\ reversed'[t] = q
    BY <2>3, <2>6, NullIs
  <2>8. /\ Walk(list[t])' = Walk(p) /\ Good(list[t])'
    BY <2>3, <2>5 DEF Good
  <2>9. Good(reversed[t])' /\ Range(Walk(reversed[t])') = {}
    BY <2>7 DEF Good
  <2> QED BY <2>3, <2>8, <2>9 DEF OwnLists
<1>6. CASE ReverseStep(t)
  BY <1>6, ReverseTurns
<1> QED BY <1>2, <1>3, <1>4, <1>5, <1>6 DEF QStep

\* The step of Push that swings its node in.
LEMMA WriteSwings ==
  ASSUME QueueInv, NEW t \in Threads, WriteStep(t), PushCas(t), head' # head
  PROVE  \E n \in Nodes :
           /\ Items(m_stack)' = Joined(<<n>>, Items(m_stack)) /\ n \notin Range(Items(m_stack))
           /\ signalled' = (signalled \ {n})
                             \union (IF Items(m_stack) = <<>> THEN {n} ELSE {})
<1>1. StackInv /\ TypeOK /\ InCall(t) /\ ChainOK(t) /\ Apart
  BY DEF QueueInv, StackInv
<1>2. PICK c, r : c = chain[t] /\ r = stk[t]
  OBVIOUS
<1>3. /\ Range(c) \subseteq Owned(t) /\ r \in Stacks
      /\ Items(r)' = Joined(c, Items(r))
      /\ Distinct(Nodes, c) /\ c # <<>> /\ head[r] = old[t]
      /\ pc[t] = "push_cas" /\ pc'[t] = "push_count"
  BY <1>1, <1>2, PushCasMoves
<1>4. r = m_stack /\ Len(c) = 1
  BY <1>1, <1>2, <1>3 DEF InCall, Linking
<1>5. PICK n : n = c[1]
  OBVIOUS
<1>6. c = <<n>> /\ n \in Nodes /\ n \in Range(c)
  <2>1. c \in Seq(Nodes) /\ 1 \in DOMAIN c
    BY <1>3, <1>4 DEF Distinct
  <2> QED BY <1>4, <1>5, <2>1 DEF Range
<1>7. n \notin Range(Items(r))
  BY <1>1, <1>3, <1>6 DEF Apart
<1>8. old[t].ptr = NULL <=> Items(r) = <<>>
  <2>1. Path(Nodes, NULL, next, Items(r), head[r].ptr)
    BY <1>1, <1>3 DEF StackInv, Lists, Good, Items
  <2> QED BY <1>3, <2>1, PathNull, StackAssumption
<1>9. signalled' = (signalled \ {n}) \union (IF Items(r) = <<>> THEN {n} ELSE {})
  BY <1>2, <1>3, <1>5, <1>8 DEF WriteStep, IsFirst
<1> QED BY <1>3, <1>4, <1>6, <1>7, <1>9

\* A step moves no node, or writes one, or takes them all, or forgets them.
LEMMA QueueMoves ==
  ASSUME QueueInv, [QNext]_qvars
  PROVE  \/ Unmoved /\ signalled' = signalled
         \/ \E t \in Threads : WriteStep(t) /\ PushCas(t) /\ head' # head
         \/ \E t \in Threads : DetachStep(t) /\ AllCas(t) /\ head' # head
         \/ \E t \in Threads : ResetQueue(t)
<1>1. StackInv /\ TypeOK /\ TypeOK'
  BY QueueStack DEF QueueInv, StackInv
<1>2. CASE UNCHANGED qvars
  BY <1>1, <1>2, StutterKeeps DEF qvars, queueVars
<1>3. ASSUME NEW t \in Threads, Write(t) PROVE Unmoved /\ signalled' = signalled
  BY <1>1, <1>3, TheStack, CallPushKeeps DEF Write
<1>4. ASSUME NEW t \in Threads, ReadAll(t) PROVE Unmoved /\ signalled' = signalled
  BY <1>1, <1>4, TheStack, CallsKeep DEF ReadAll
<1>5. ASSUME NEW t \in Threads, ReturnAll(t) PROVE Unmoved /\ signalled' = signalled
  BY <1>1, <1>5, StutterKeeps DEF ReturnAll
<1>6. ASSUME NEW t \in Threads, ReverseStep(t) PROVE Unmoved /\ signalled' = signalled
  BY <1>6, ReverseKeepsStack DEF ReverseStep
<1>7. ASSUME NEW t \in Threads, WriteStep(t)
      PROVE  (Unmoved /\ signalled' = signalled) \/ (PushCas(t) /\ head' # head)
  <2>1. CASE PushCas(t) /\ head[stk[t]] = old[t]
    BY <1>1, <2>1, SwapSwings
  <2>2. CASE PushLoad(t) \/ PushLink(t) \/ PushCount(t)
             \/ (PushCas(t) /\ head[stk[t]] # old[t])
    <3>1. Unmoved
      BY <1>1, <2>2, LoadsKeep, PushLinkKeeps, CountsKeep
    <3>2. pc'[t] # "push_count"
      BY <1>1, <2>2 DEF PushLoad, PushLink, PushCount, PushCas, TrySet, Return, Goto, TypeOK
    <3> QED BY <1>7, <3>1, <3>2 DEF WriteStep
  <2> QED BY <1>7, <2>1, <2>2 DEF WriteStep
<1>8. ASSUME NEW t \in Threads, DetachStep(t)
      PROVE  (Unmoved /\ signalled' = signalled) \/ (AllCas(t) /\ head' # head)
  <2>1. CASE AllCas(t) /\ head[stk[t]] = old[t]
    BY <1>1, <2>1, SwapSwings
  <2>2. CASE AllLoad(t) \/ AllCount(t) \/ (AllCas(t) /\ head[stk[t]] # old[t])
    <3>1. Unmoved
      BY <1>1, <2>2, LoadsKeep, CountsKeep
    <3> QED BY <1>8, <3>1 DEF DetachStep
  <2> QED BY <1>8, <2>1, <2>2 DEF DetachStep
<1> QED BY <1>2, <1>3, <1>4, <1>5, <1>6, <1>7, <1>8 DEF QNext, QStep

\* The whole of the stack goes to the ReadAll that swings it out.
LEMMA DetachSwings ==
  ASSUME QueueInv, NEW t \in Threads, DetachStep(t), AllCas(t), head' # head
  PROVE  /\ Items(m_stack)' = <<>> /\ Walk(old[t].ptr)' = Items(m_stack)
         /\ pc[t] = "all_cas" /\ pc'[t] = "all_count" /\ signalled' = signalled
<1>1. StackInv /\ InCall(t)
  BY DEF QueueInv
<1>2. PICK r : r = stk[t]
  OBVIOUS
<1>3. /\ Items(r)' = <<>> /\ Walk(old[t].ptr)' = Items(r)
      /\ pc[t] = "all_cas" /\ pc'[t] = "all_count"
  BY <1>1, <1>2, AllCasMoves
<1>4. r = m_stack
  BY <1>1, <1>2, <1>3 DEF InCall
<1> QED BY <1>3, <1>4 DEF DetachStep

LEMMA SignalsKept ==
  ASSUME QueueInv, [QNext]_qvars
  PROVE  OneSignalPerBatch'
<1>1. StackInv /\ OneSignalPerBatch
  BY DEF QueueInv
<1>2. PICK items : items = Items(m_stack)
  OBVIOUS
<1>3. /\ items \in Seq(Nodes) /\ Distinct(Nodes, items)
      /\ items # <<>> => signalled \cap Range(items) = {items[Len(items)]}
  BY <1>1, <1>2, TheStack, ItemsAre DEF OneSignalPerBatch, Distinct
<1>4. CASE Unmoved /\ signalled' = signalled
  <2>1. Items(m_stack)' = items
    BY <1>2, <1>4, TheStack DEF Unmoved
  <2> QED BY <1>3, <1>4, <2>1 DEF OneSignalPerBatch
<1>5. ASSUME Items(m_stack)' = <<>> PROVE OneSignalPerBatch'
  BY <1>5 DEF OneSignalPerBatch
<1>6. CASE \E t \in Threads : WriteStep(t) /\ PushCas(t) /\ head' # head
  <2>1. PICK n \in Nodes :
          /\ Items(m_stack)' = Joined(<<n>>, items) /\ n \notin Range(items)
          /\ signalled' = (signalled \ {n}) \union (IF items = <<>> THEN {n} ELSE {})
    BY <1>2, <1>6, WriteSwings
  <2>2. PICK e : e = Joined(<<n>>, items)
    OBVIOUS
  <2>3. /\ e \in Seq(Nodes) /\ Len(e) = Len(items) + 1 /\ Len(items) \in Nat
        /\ \A i \in 1 .. Len(items) + 1 : e[i] = IF i = 1 THEN n ELSE items[i - 1]
    BY <1>3, <2>2 DEF Joined
  <2>4. Range(e) = Range(items) \union {n}
    <3>1. PICK d : d = <<n>>
      OBVIOUS
    <3>2. Distinct(Nodes, d) /\ Range(d) = {n}
      BY <3>1 DEF Distinct, Range
    <3>3. Range(d \o items) = Range(d) \union Range(items)
      BY <1>3, <3>2, RangeConcat
    <3>4. e = d \o items
      BY <2>2, <3>1 DEF Joined
    <3> QED BY <3>2, <3>3, <3>4
  <2>5. signalled' \cap Range(e) = {e[Len(e)]}
    <3>1. CASE items = <<>>
      <4>1. Len(items) = 0 /\ Range(items) = {}
        BY <3>1, PathEmpty
      <4>2. e[Len(e)] = n
        BY <2>3, <4>1
      <4> QED BY <2>1, <2>4, <3>1, <4>1, <4>2
    <3>2. CASE items # <<>>
      <4>1. Len(items) # 0
        BY <1>3, <3>2, EmptySeq
      <4>2. e[Len(e)] = items[Len(items)]
        BY <2>3, <4>1
      <4> QED BY <1>3, <2>1, <2>4, <3>2, <4>2
    <3> QED BY <3>1, <3>2
  <2>6. Items(m_stack)' = e
    BY <2>1, <2>2
  <2> QED BY <2>5, <2>6 DEF OneSignalPerBatch
<1>7. CASE \E t \in Threads : DetachStep(t) /\ AllCas(t) /\ head' # head
  BY <1>5, <1>7, DetachSwings
<1>8. CASE \E t \in Threads : ResetQueue(t)
  BY <1>1, <1>5, <1>8, TheStack, ResetMoves DEF ResetQueue
<1> QED BY <1>4, <1>6, <1>7, <1>8, QueueMoves
-----------------------------------------------------------------------------
(* The invariant is inductive *)

LEMMA QueueInit == QInit => QueueInv
<1> SUFFICES ASSUME QInit PROVE QueueInv
  OBVIOUS
<1>1. StackInv
  BY StackInit DEF QInit
<1>2. QTypes
  BY DEF QInit, QTypes
<1>3. ASSUME NEW t \in Threads PROVE InCall(t) /\ OwnLists(t)
  <2>1. list[t] = NULL /\ reversed[t] = NULL /\ qpc[t] = "idle" /\ pc[t] = "idle"
    BY DEF QInit, Init
  <2>2. Good(list[t]) /\ Walk(list[t]) = <<>> /\ Good(reversed[t]) /\ Walk(reversed[t]) = <<>>
    BY <2>1, NullIs
  <2>3. OwnLists(t)
    BY <2>2, PathEmpty DEF OwnLists
  <2> QED BY <2>1, <2>3 DEF InCall, Linking
<1>4. OneSignalPerBatch
  <2>1. head[m_stack].ptr = NULL
    BY TheStack DEF QInit, Init, Null
  <2>2. Items(m_stack) = <<>>
    BY <2>1, NullIs DEF Items
  <2> QED BY <2>2 DEF OneSignalPerBatch
<1> QED BY <1>1, <1>2, <1>3, <1>4 DEF QueueInv

LEMMA QueueNext == QueueInv /\ [QNext]_qvars => QueueInv'
<1> SUFFICES ASSUME QueueInv, [QNext]_qvars PROVE QueueInv'
  OBVIOUS
<1>1. StackInv' /\ QTypes' /\ OneSignalPerBatch'
  BY QueueStack, QTypesKept, SignalsKept
<1>2. ASSUME NEW u \in Threads PROVE InCall(u)' /\ OwnLists(u)'
  <2>1. ASSUME NEW t \in Threads, Write(t) \/ ReadAll(t) \/ QStep(t) \/ ResetQueue(t)
        PROVE  InCall(u)' /\ OwnLists(u)'
    <3>1. CASE u = t
      BY <2>1, <3>1, InCallKept, OwnListsKept
    <3>2. CASE u # t
      <4>1. PICK S \in SUBSET Owned(t) : \A n \in Nodes \ S : next'[n] = next[n]
        BY <2>1, StepLocal
      <4>2. QSame(u)
        BY <2>1, <3>2, StepLocal
      <4> QED BY <3>2, <4>1, <4>2, OtherLists
    <3> QED BY <3>1, <3>2
  <2>2. CASE UNCHANGED qvars
    <3>1. InCall(u) /\ OwnLists(u)
      BY DEF QueueInv
    <3>2. UNCHANGED <<next, held, pc, stk, chain, qpc, list, reversed>>
      BY <2>2 DEF qvars, queueVars, vars, locals
    <3>3. Walk(list[u])' = Walk(list[u]) /\ Walk(reversed[u])' = Walk(reversed[u])
      BY <3>2 DEF Walk
    <3> QED BY <3>1, <3>2, <3>3 DEF InCall, OwnLists, Good, Linking
  <2> QED BY <2>1, <2>2 DEF QNext
<1> QED BY <1>1, <1>2 DEF QueueInv

LEMMA QueueAlways == QSpec => []QueueInv
BY QueueInit, QueueNext, PTL DEF QSpec
-----------------------------------------------------------------------------
(* What is checked on a small instance *)

\* Types; ReadAll never turns a null link round.
THEOREM QueueTypesCorrect == QSpec => []QTypeOK
<1>1. QueueInv => QTypeOK
  BY DEF QueueInv, StackInv, QTypes, InCall, QTypeOK
<1> QED BY <1>1, QueueAlways, PTL

\* One Write of each batch returns true, that of its oldest node, however the
\* calls of Write and ReadAll interleave.
THEOREM BatchSignalledOnce == QSpec => []OneSignalPerBatch
<1>1. QueueInv => OneSignalPerBatch
  BY DEF QueueInv
<1> QED BY <1>1, QueueAlways, PTL
-----------------------------------------------------------------------------
(* The queue implements a FIFO queue read in batches *)

\* No step but Reset takes a tag back.
LEMMA TagsGrow ==
  ASSUME QueueInv, NEW t \in Threads, Write(t) \/ ReadAll(t) \/ QStep(t)
  PROVE  \A s \in Stacks : head'[s] = head[s] \/ head'[s].tag = head[s].tag + 1
<1>1. StackInv /\ TypeOK /\ ChainOK(t)
  BY DEF QueueInv, StackInv
<1>2. CASE PushCas(t) \/ AllCas(t)
  <2>1. CASE head' = head
    BY <2>1
  <2>2. CASE PushCas(t) /\ head' # head
    <3>1. chain[t] \in Seq(Nodes) /\ chain[t] # <<>>
      BY <1>1, <2>2 DEF PushCas, ChainOK, Linking, Distinct
    <3>2. chain[t][1] \in Nodes
      BY <3>1, EmptySeq
    <3>3. TrySet(t, chain[t][1])
      BY <2>2 DEF PushCas
    <3> QED BY <1>1, <3>2, <3>3, TrySetTypes
  <2>3. CASE AllCas(t) /\ head' # head
    <3>1. TrySet(t, NULL)
      BY <2>3 DEF AllCas
    <3> QED BY <1>1, <3>1, TrySetTypes
  <2> QED BY <1>2, <2>1, <2>2, <2>3
<1>3. CASE ~(PushCas(t) \/ AllCas(t))
  <2>1. head' = head
    BY <1>3 DEF Write, ReadAll, QStep, CallPush, CallPopAll, WriteStep, DetachStep, ReverseStep,
                ReturnAll, PushLoad, PushLink, PushCount, AllLoad, AllCount, vars
  <2> QED BY <2>1
<1> QED BY <1>2, <1>3

\* What a thread will return is no business of the others.
LEMMA OtherBatch ==
  ASSUME QueueInv, QueueInv', NEW t \in Threads, NEW u \in Threads, u # t,
         Write(t) \/ ReadAll(t) \/ QStep(t) \/ ResetQueue(t)
  PROVE  BatchOf(u)' = BatchOf(u)
<1>1. PICK S \in SUBSET Owned(t) : \A n \in Nodes \ S : next'[n] = next[n]
  BY StepLocal
<1>2. QSame(u) /\ Same(u) /\ StackInv
  BY StepLocal DEF QSame, QueueInv
<1>3. Walk(list[u])' = Walk(list[u]) /\ Walk(reversed[u])' = Walk(reversed[u])
  BY <1>1, <1>2, OtherLists
<1>4. pc'[u] = pc[u]
  BY <1>2 DEF Same
<1>5. CASE pc[u] = "all_count"
  <2>1. ~ResetQueue(t)
    BY <1>5 DEF ResetQueue, Reset
  <2>2. \A s \in Stacks : head'[s] = head[s] \/ head'[s].tag = head[s].tag + 1
    BY <2>1, TagsGrow
  <2>3. Walk(old[u].ptr)' = Walk(old[u].ptr)
    BY <1>1, <1>2, <1>4, <1>5, <2>2, OthersKept
  <2>4. BatchOf(u)' = Reverse(Walk(old[u].ptr)')
    BY <1>4, <1>5, BatchIsNext
  <2>5. BatchOf(u) = Reverse(Walk(old[u].ptr))
    BY <1>5, BatchIs
  <2> QED BY <2>3, <2>4, <2>5
<1>6. CASE pc[u] # "all_count"
  <2>1. BatchOf(u)' = Turned(Walk(list[u])', Walk(reversed[u])')
    BY <1>4, <1>6, BatchIsNext
  <2>2. BatchOf(u) = Turned(Walk(list[u]), Walk(reversed[u]))
    BY <1>6, BatchIs
  <2> QED BY <1>3, <2>1, <2>2
<1> QED BY <1>5, <1>6

\* A thread that has read nothing returns nothing.
LEMMA NothingRead ==
  ASSUME QueueInv, NEW t \in Threads, pc[t] # "all_count", qpc[t] \in {"idle", "stack"}
  PROVE  BatchOf(t) = <<>>
<1>1. list[t] = NULL /\ reversed[t] = NULL
  BY DEF QueueInv, InCall
<1>2. Walk(list[t]) = <<>> /\ Walk(reversed[t]) = <<>>
  BY <1>1, NullIs
<1>3. BatchOf(t) = Turned(<<>>, <<>>)
  BY <1>2, BatchIs
<1>4. <<>> \in Seq(Nodes)
  OBVIOUS
<1> QED BY <1>3, <1>4, TurnedNone

\* The same of the state after a step.
LEMMA NothingReadNext ==
  ASSUME QueueInv', NEW t \in Threads, pc'[t] # "all_count",
         list'[t] = NULL, reversed'[t] = NULL
  PROVE  BatchOf(t)' = <<>>
<1>1. PICK p : p = NULL /\ list'[t] = p /\ reversed'[t] = p
  OBVIOUS
<1>2. Walk(p)' = <<>>
  BY <1>1, NullIs
<1>3. Walk(list[t])' = <<>> /\ Walk(reversed[t])' = <<>>
  BY <1>1, <1>2
<1>4. BatchOf(t)' = Turned(<<>>, <<>>)
  BY <1>3, BatchIsNext
<1>5. <<>> \in Seq(Nodes)
  OBVIOUS
<1> QED BY <1>4, <1>5, TurnedNone

\* What a step says of the abstract queue.
LEMMA MappedIs ==
  /\ Batches!avars' = Batches!avars
       <=> /\ Reverse(Items(m_stack))' = Reverse(Items(m_stack))
           /\ [t \in Threads |-> BatchOf(t)]' = [t \in Threads |-> BatchOf(t)]
  /\ \A n \in Nodes : n \notin Range(Items(m_stack)) /\ Items(m_stack) \in Seq(Nodes)
       => \A i \in DOMAIN Reverse(Items(m_stack)) : Reverse(Items(m_stack))[i] # n
<1>1. ASSUME NEW n \in Nodes, n \notin Range(Items(m_stack)), Items(m_stack) \in Seq(Nodes),
             NEW i \in DOMAIN Reverse(Items(m_stack))
      PROVE  Reverse(Items(m_stack))[i] # n
  <2>1. PICK c \in Seq(Nodes) : c = Items(m_stack) /\ n \notin Range(c)
    BY <1>1
  <2>2. /\ Reverse(c) \in Seq(Nodes) /\ Len(Reverse(c)) = Len(c)
        /\ \A j \in 1 .. Len(c) : Reverse(c)[j] = c[(Len(c) - j) + 1]
    BY ReverseIs
  <2>3. i \in 1 .. Len(c) /\ (Len(c) - i) + 1 \in 1 .. Len(c)
    BY <2>1, <2>2
  <2>4. c[(Len(c) - i) + 1] \in Range(c)
    BY <2>3 DEF Range
  <2> QED BY <2>1, <2>2, <2>3, <2>4
<1> QED BY <1>1 DEF Batches!avars

\* A step that keeps every batch and the stack is a stutter.
LEMMA BatchesKept ==
  ASSUME Unmoved, \A u \in Threads : BatchOf(u)' = BatchOf(u)
  PROVE  UNCHANGED Batches!avars
<1>1. Items(m_stack)' = Items(m_stack)
  BY TheStack DEF Unmoved
<1>2. Reverse(Items(m_stack))' = Reverse(Items(m_stack))
  BY <1>1
<1>3. [t \in Threads |-> BatchOf(t)]' = [t \in Threads |-> BatchOf(t)]
  OBVIOUS
<1> QED BY <1>2, <1>3, MappedIs

\* The compare and swap of Push appends the node.
LEMMA WriteAppends ==
  ASSUME QueueInv, QueueInv', NEW t \in Threads, WriteStep(t), PushCas(t), head' # head
  PROVE  \E n \in Nodes : Batches!AWrite(n)
<1>1. PICK n \in Nodes :
        Items(m_stack)' = Joined(<<n>>, Items(m_stack)) /\ n \notin Range(Items(m_stack))
  BY WriteSwings
<1>2. Items(m_stack) \in Seq(Nodes)
  BY TheStack, ItemsAre DEF QueueInv, Distinct
<1>3. Reverse(Items(m_stack)') = Append(Reverse(Items(m_stack)), n)
  BY <1>1, <1>2, ReverseFirst
<1>4. \A i \in DOMAIN Reverse(Items(m_stack)) : Reverse(Items(m_stack))[i] # n
  BY <1>1, <1>2, MappedIs
<1>5. BatchOf(t) = <<>>
  <2>1. pc[t] = "push_cas" /\ qpc[t] = "stack"
    BY DEF PushCas, QueueInv, InCall
  <2> QED BY <2>1, NothingRead
<1>6. BatchOf(t)' = <<>>
  <2>1. /\ pc'[t] # "all_count" /\ list'[t] = NULL /\ reversed'[t] = NULL
    BY DEF WriteStep, PushCas, Goto, QueueInv, StackInv, TypeOK, InCall
  <2> QED BY <2>1, NothingReadNext
<1>7. \A u \in Threads : BatchOf(u)' = BatchOf(u)
  BY <1>5, <1>6, OtherBatch DEF QStep
<1>8. [u \in Threads |-> BatchOf(u)]' = [u \in Threads |-> BatchOf(u)]
  BY <1>7
<1>9. Batches!AWrite(n)
  BY <1>3, <1>4, <1>8 DEF Batches!AWrite
<1> QED BY <1>9

\* That of PopAll takes everything written, oldest first.
LEMMA DetachReads ==
  ASSUME QueueInv, QueueInv', NEW t \in Threads, DetachStep(t), AllCas(t), head' # head
  PROVE  Batches!AReadAll(t)
<1>1. /\ Items(m_stack)' = <<>> /\ Walk(old[t].ptr)' = Items(m_stack)
      /\ pc[t] = "all_cas" /\ pc'[t] = "all_count"
  BY DetachSwings
<1>2. BatchOf(t) = <<>>
  <2>1. qpc[t] = "stack"
    BY <1>1 DEF QueueInv, InCall
  <2> QED BY <1>1, <2>1, NothingRead
<1>3. BatchOf(t)' = Reverse(Items(m_stack))
  BY <1>1, BatchIsNext
<1>4. \A u \in Threads \ {t} : BatchOf(u)' = BatchOf(u)
  BY OtherBatch DEF QStep
<1>5. [u \in Threads |-> BatchOf(u)]'
        = [[u \in Threads |-> BatchOf(u)] EXCEPT ![t] = Reverse(Items(m_stack))]
  BY <1>3, <1>4
<1>6. Reverse(Items(m_stack)') = <<>>
  <2>1. <<>> \in Seq(Nodes)
    OBVIOUS
  <2> QED BY <1>1, <2>1, TurnedNone
<1> QED BY <1>2, <1>5, <1>6 DEF Batches!AReadAll

\* Turning a node round changes nothing of the batch.
LEMMA TurnKeepsBatch ==
  ASSUME QueueInv, QueueInv', NEW t \in Threads, ReverseStep(t)
  PROVE  BatchOf(t)' = BatchOf(t)
<1>1. PICK c, d \in Seq(Nodes), n \in Nodes :
        /\ Walk(list[t]) = Joined(<<n>>, c) /\ Walk(reversed[t]) = d
        /\ Walk(list[t])' = c /\ Walk(reversed[t])' = Joined(<<n>>, d)
  BY ReverseTurns
<1>2. pc[t] = "idle" /\ pc'[t] = pc[t]
  BY DEF ReverseStep, QueueInv, InCall
<1>3. BatchOf(t) = Turned(Joined(<<n>>, c), d)
  BY <1>1, <1>2, BatchIs
<1>4. BatchOf(t)' = Turned(c, Joined(<<n>>, d))
  BY <1>1, <1>2, BatchIsNext
<1> QED BY <1>1, <1>3, <1>4, TurnedStep

\* Nor does handing the detached chain to the loop.
LEMMA CountKeepsBatch ==
  ASSUME QueueInv, QueueInv', NEW t \in Threads, DetachStep(t), AllCount(t)
  PROVE  BatchOf(t)' = BatchOf(t)
<1>1. QTypes /\ TypeOK /\ InCall(t) /\ Lists
  BY DEF QueueInv, StackInv
<1>2. pc'[t] = "idle" /\ pc[t] = "all_count" /\ next' = next
  BY <1>1 DEF AllCount, Return, Goto, TypeOK
<1>3. PICK p : p = old[t].ptr
  OBVIOUS
<1>4. list'[t] = p /\ reversed'[t] = NULL
  BY <1>1, <1>2, <1>3 DEF DetachStep, InCall, QTypes
<1>5. Good(p) /\ Walk(p) \in Seq(Nodes)
  BY <1>1, <1>2, <1>3 DEF Lists, Good, Path, Distinct
<1>6. Walk(p)' = Walk(p)
  BY <1>2, <1>5, WalkKept
<1>7. PICK q : q = NULL
  OBVIOUS
<1>8. Walk(q)' = <<>> /\ reversed'[t] = q
  BY <1>4, <1>7, NullIs
<1>9. BatchOf(t)' = Turned(Walk(p), <<>>)
  <2>1. Walk(list[t])' = Walk(p) /\ Walk(reversed[t])' = <<>>
    BY <1>4, <1>6, <1>8
  <2> QED BY <1>2, <2>1, BatchIsNext
<1>10. BatchOf(t) = Reverse(Walk(p))
  BY <1>2, <1>3, BatchIs
<1>11. Reverse(Walk(p)) \in Seq(Nodes)
  BY <1>5, ReverseIs
<1> QED BY <1>9, <1>10, <1>11 DEF Turned

\* return reversed
LEMMA ReturnReturns ==
  ASSUME QueueInv, QueueInv', NEW t \in Threads, ReturnAll(t)
  PROVE  Batches!AReturn(t)
<1>1. /\ UNCHANGED vars /\ list'[t] = NULL /\ reversed'[t] = NULL /\ pc'[t] # "all_count"
  BY DEF ReturnAll, QueueInv, InCall, QTypes, vars
<1>2. BatchOf(t)' = <<>>
  BY <1>1, NothingReadNext
<1>3. \A u \in Threads \ {t} : BatchOf(u)' = BatchOf(u)
  BY OtherBatch DEF QStep
<1>4. Items(m_stack)' = Items(m_stack)
  BY <1>1, TheStack, StutterKeeps DEF QueueInv, StackInv, Unmoved
<1>5. Reverse(Items(m_stack))' = Reverse(Items(m_stack))
  BY <1>4
<1>6. [u \in Threads |-> BatchOf(u)]' = [[u \in Threads |-> BatchOf(u)] EXCEPT ![t] = <<>>]
  BY <1>2, <1>3
<1> QED BY <1>5, <1>6 DEF Batches!AReturn

\* Reset, with no call in progress
LEMMA ResetResets ==
  ASSUME QueueInv, QueueInv', NEW t \in Threads, ResetQueue(t)
  PROVE  Batches!AReset
<1>1. \A u \in Threads : pc[u] = "idle" /\ qpc[u] = "idle"
  BY DEF ResetQueue, Reset
<1>2. \A u \in Threads : BatchOf(u) = <<>>
  BY <1>1, NothingRead
<1>3. \A u \in Threads : pc'[u] = "idle" /\ list'[u] = NULL /\ reversed'[u] = NULL
  BY <1>1 DEF ResetQueue, Reset, queueVars, QueueInv, InCall
<1>4. \A u \in Threads : BatchOf(u)' = <<>>
  BY <1>3, NothingReadNext
<1>5. Items(m_stack)' = <<>>
  BY TheStack, ResetMoves DEF ResetQueue, QueueInv
<1>6. Reverse(Items(m_stack)') = <<>>
  <2>1. <<>> \in Seq(Nodes)
    OBVIOUS
  <2> QED BY <1>5, <2>1, TurnedNone
<1>7. [u \in Threads |-> BatchOf(u)]' = [u \in Threads |-> BatchOf(u)]
  BY <1>2, <1>4
<1>8. [u \in Threads |-> BatchOf(u)] = [u \in Threads |-> <<>>]
  BY <1>2
<1> QED BY <1>6, <1>7, <1>8 DEF Batches!AReset

\* The other steps keep the queue and every batch.
LEMMA OtherStepsKeep ==
  ASSUME QueueInv, QueueInv', NEW t \in Threads, Write(t) \/ ReadAll(t) \/ QStep(t),
         ~ReturnAll(t), ~(PushCas(t) /\ head' # head), ~(AllCas(t) /\ head' # head)
  PROVE  UNCHANGED Batches!avars
<1>1. StackInv /\ QTypes /\ TypeOK /\ TypeOK' /\ InCall(t)
  BY DEF QueueInv, StackInv
<1>2. Unmoved
  <2>1. CASE Write(t)
    BY <1>1, <2>1, TheStack, CallPushKeeps DEF Write
  <2>2. CASE ReadAll(t)
    BY <1>1, <2>2, TheStack, CallsKeep DEF ReadAll
  <2>3. CASE WriteStep(t)
    <3>1. PushLoad(t) \/ PushLink(t) \/ PushCount(t) \/ (PushCas(t) /\ head[stk[t]] # old[t])
      BY <1>1, <2>3, SwapSwings DEF WriteStep
    <3> QED BY <1>1, <3>1, LoadsKeep, PushLinkKeeps, CountsKeep
  <2>4. CASE DetachStep(t)
    <3>1. AllLoad(t) \/ AllCount(t) \/ (AllCas(t) /\ head[stk[t]] # old[t])
      BY <1>1, <2>4, SwapSwings DEF DetachStep
    <3> QED BY <1>1, <3>1, LoadsKeep, CountsKeep
  <2>5. CASE ReverseStep(t)
    BY <2>5, ReverseKeepsStack
  <2> QED BY <2>1, <2>2, <2>3, <2>4, <2>5 DEF QStep
<1>3. BatchOf(t)' = BatchOf(t)
  <2>1. CASE DetachStep(t) /\ AllCount(t)
    BY <2>1, CountKeepsBatch
  <2>2. CASE ReverseStep(t)
    BY <2>2, TurnKeepsBatch
  <2>3. CASE Write(t) \/ ReadAll(t) \/ WriteStep(t) \/ (DetachStep(t) /\ ~AllCount(t))
    <3>1. pc[t] # "all_count" /\ qpc[t] \in {"idle", "stack"}
      BY <1>1, <2>3 DEF Write, ReadAll, WriteStep, DetachStep, PushLoad, PushLink, PushCas,
                        PushCount, AllLoad, AllCas, InCall
    <3>2. list'[t] = NULL /\ reversed'[t] = NULL
      BY <1>1, <2>3, <3>1 DEF Write, ReadAll, WriteStep, DetachStep, AllLoad, AllCas, Goto,
                              InCall, TypeOK
    <3>3. pc'[t] # "all_count"
      <4>1. CASE AllCas(t) /\ pc'[t] = "all_count"
        <5>1. head[stk[t]] # old[t]
          BY <1>1, <4>1, SwapSwings
        <5> QED BY <1>1, <4>1, <5>1 DEF AllCas, TrySet, Goto, TypeOK
      <4>2. CASE ~AllCas(t)
        BY <1>1, <2>3, <4>2 DEF Write, ReadAll, WriteStep, DetachStep, CallPush, CallPopAll,
                  Call, PushLoad, PushLink, PushCas, PushCount, AllLoad, Return, Goto, TypeOK
      <4> QED BY <4>1, <4>2
    <3> QED BY <3>1, <3>2, <3>3, NothingRead, NothingReadNext
  <2> QED BY <2>1, <2>2, <2>3 DEF QStep
<1>4. \A u \in Threads : BatchOf(u)' = BatchOf(u)
  BY <1>3, OtherBatch
<1> QED BY <1>2, <1>4, BatchesKept

\* Each step of the model is a step of the abstract queue or none.
LEMMA QueueRefines ==
  ASSUME QueueInv, QueueInv', [QNext]_qvars
  PROVE  [Batches!ANext]_(Batches!avars)
<1>1. CASE UNCHANGED qvars
  <2>1. UNCHANGED <<next, head, pc, old, qpc, list, reversed>> /\ UNCHANGED vars
    BY <1>1 DEF qvars, queueVars, vars, locals
  <2>2. ASSUME NEW u \in Threads PROVE BatchOf(u)' = BatchOf(u)
    BY <2>1 DEF BatchOf, Walk
  <2> QED BY <2>1, <2>2, StutterKeeps, BatchesKept DEF QueueInv, StackInv
<1>2. ASSUME NEW t \in Threads, Write(t) \/ ReadAll(t) \/ QStep(t) \/ ResetQueue(t)
      PROVE  [Batches!ANext]_(Batches!avars)
  <2>1. CASE WriteStep(t) /\ PushCas(t) /\ head' # head
    BY <2>1, WriteAppends DEF Batches!ANext
  <2>2. CASE DetachStep(t) /\ AllCas(t) /\ head' # head
    BY <2>2, DetachReads DEF Batches!ANext
  <2>3. CASE ReturnAll(t)
    BY <2>3, ReturnReturns DEF Batches!ANext
  <2>4. CASE ResetQueue(t)
    BY <2>4, ResetResets DEF Batches!ANext
  <2>5. ASSUME ~(PushCas(t) /\ head' # head), ~(AllCas(t) /\ head' # head),
               ~ReturnAll(t), ~ResetQueue(t)
        PROVE  UNCHANGED Batches!avars
    BY <1>2, <2>5, OtherStepsKeep
  <2>6. (PushCas(t) => WriteStep(t)) /\ (AllCas(t) => DetachStep(t))
    <3>1. CASE PushCas(t) \/ AllCas(t)
      <4>1. pc[t] \in {"push_cas", "all_cas"} /\ qpc[t] = "stack"
        BY <3>1 DEF PushCas, AllCas, QueueInv, InCall
      <4> QED BY <1>2, <4>1 DEF Write, ReadAll, QStep, ResetQueue, ReverseStep, ReturnAll,
                  WriteStep, DetachStep, PushLoad, PushLink, PushCas, PushCount,
                  AllLoad, AllCas, AllCount
    <3> QED BY <3>1
  <2> QED BY <2>1, <2>2, <2>3, <2>4, <2>5, <2>6
<1> QED BY <1>1, <1>2 DEF QNext

\* ReadAll takes everything written before its compare and swap, and nothing
\* written after, and returns it in the order it was written.
THEOREM QueueIsBatchFifo == QSpec => ImplementsBatchFifo
<1>1. ASSUME QInit PROVE Batches!AInit
  <2>1. QueueInv
    BY <1>1, QueueInit
  <2>2. \A t \in Threads : BatchOf(t) = <<>>
    BY <1>1, <2>1, NothingRead DEF QInit, Init
  <2>3. Items(m_stack) = <<>>
    <3>1. head[m_stack].ptr = NULL
      BY <1>1, TheStack DEF QInit, Init, Null
    <3> QED BY <3>1, NullIs DEF Items
  <2>4. Reverse(Items(m_stack)) = <<>>
    <3>1. <<>> \in Seq(Nodes)
      OBVIOUS
    <3> QED BY <2>3, <3>1, TurnedNone
  <2> QED BY <2>2, <2>4 DEF Batches!AInit
<1> QED BY <1>1, QueueInit, QueueNext, QueueAlways, QueueRefines, PTL
      DEF QSpec, ImplementsBatchFifo, Batches!ASpec
=============================================================================
