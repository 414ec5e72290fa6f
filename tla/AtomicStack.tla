----------------------------- MODULE AtomicStack -----------------------------
(***************************************************************************)
(* What MpmcStack promises: stacks of nodes on which pushing a chain,      *)
(* popping the newest node and popping everything are single steps, and    *)
(* every node is either on one stack or in the hands of one thread.        *)
(***************************************************************************)
EXTENDS Naturals, Sequences, FiniteSets

CONSTANTS Threads, Nodes, Stacks

VARIABLES
  items,  \* the nodes on each stack, newest first
  owned   \* the nodes in the hands of each thread

avars == <<items, owned>>

\* the orders in which the nodes of a set can be chained
Chains(S) ==
  UNION {{c \in [1 .. n -> S] : \A i, j \in 1 .. n : c[i] = c[j] => i = j} :
         n \in 1 .. Cardinality(S)}
Members(c) == {c[i] : i \in DOMAIN c}

AInit ==
  /\ items = [s \in Stacks |-> <<>>]
  /\ owned \in [Threads -> SUBSET Nodes]
  /\ \A n \in Nodes : \E t \in Threads : n \in owned[t]
  /\ \A t, u \in Threads : t # u => owned[t] \cap owned[u] = {}

APush(t, s) ==
  \E c \in Chains(owned[t]) :
    /\ items' = [items EXCEPT ![s] = c \o @]
    /\ owned' = [owned EXCEPT ![t] = @ \ Members(c)]

APop(t, s) ==
  /\ items[s] # <<>>
  /\ owned' = [owned EXCEPT ![t] = @ \union {Head(items[s])}]
  /\ items' = [items EXCEPT ![s] = Tail(@)]

APopAll(t, s) ==
  /\ owned' = [owned EXCEPT ![t] = @ \union Members(items[s])]
  /\ items' = [items EXCEPT ![s] = <<>>]

ANext ==
  \E t \in Threads :
    \E s \in Stacks : APush(t, s) \/ APop(t, s) \/ APopAll(t, s)

ASpec == AInit /\ [][ANext]_avars
=============================================================================
