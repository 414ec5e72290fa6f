--------------------------- MODULE MpmcLinkedQueue ---------------------------
(***************************************************************************)
(* Threading/MpmcLinkedQueue.h: a queue made of one MpmcStack.  Write is   *)
(* Push; ReadAll detaches the whole stack with PopAll and turns the chain  *)
(* round, node by node, once no other thread can reach it.                 *)
(***************************************************************************)
EXTENDS MpmcStack, SequencesExt

VARIABLES
  qpc,       \* "idle", "stack" inside Push or PopAll, "reverse", "return"
  list,      \* list of ReadAll: the nodes still to turn round
  reversed,  \* reversed of ReadAll
  signalled  \* history: the nodes whose Write returned true, or will

queueVars == <<qpc, list, reversed, signalled>>
qvars == <<vars, queueVars>>

\* The queue has one stack.
m_stack == CHOOSE s \in Stacks : TRUE
GoQ(t, label) == qpc' = [qpc EXCEPT ![t] = label]
-----------------------------------------------------------------------------
\* Write(item): Push of a chain of one
Write(t) ==
  /\ qpc[t] = "idle" /\ GoQ(t, "stack")
  /\ CallPush(t, m_stack) /\ Len(chain'[t]) = 1
  /\ UNCHANGED <<list, reversed, signalled>>

\* mutant: the transition is read off the count
IsFirst_Count(t) == count[m_stack] = 0

\* isFirst of Push, the answer of Write
IsFirst(t) == old[t].ptr = NULL

\* a step of Push
WriteStep(t) ==
  /\ PushLoad(t) \/ PushLink(t) \/ PushCas(t) \/ PushCount(t)
  /\ IF pc'[t] = "idle" THEN GoQ(t, "idle") ELSE UNCHANGED qpc
  /\ IF pc'[t] = "push_count"
     THEN signalled' = (signalled \ {chain[t][1]})
                         \union (IF IsFirst(t) THEN {chain[t][1]} ELSE {})
     ELSE UNCHANGED signalled
  /\ UNCHANGED <<list, reversed>>

\* ReadAll: PopAll
ReadAll(t) ==
  /\ qpc[t] = "idle" /\ GoQ(t, "stack")
  /\ CallPopAll(t, m_stack)
  /\ UNCHANGED <<list, reversed, signalled>>

\* mutant: the check for an empty queue is missing
DetachStep_NoNullCheck(t) ==
  /\ AllLoad(t) \/ AllCas(t) \/ AllCount(t)
  /\ IF pc'[t] = "idle"
     THEN list' = [list EXCEPT ![t] = old[t].ptr] /\ GoQ(t, "reverse")
     ELSE UNCHANGED <<list, qpc>>
  /\ UNCHANGED <<reversed, signalled>>

\* a step of PopAll; with nothing detached ReadAll returns at once
DetachStep(t) ==
  /\ AllLoad(t) \/ AllCas(t) \/ AllCount(t)
  /\ IF pc'[t] = "idle"
     THEN /\ list' = [list EXCEPT ![t] = old[t].ptr]
          /\ GoQ(t, IF old[t].ptr = NULL THEN "idle" ELSE "reverse")
     ELSE UNCHANGED <<list, qpc>>
  /\ UNCHANGED <<reversed, signalled>>

\* mutant: the next node is read after the link has been turned round
Reverse_LateNext(t) ==
  /\ qpc[t] = "reverse"
  /\ next' = [next EXCEPT ![list[t]] = reversed[t]]
  /\ reversed' = [reversed EXCEPT ![t] = list[t]]
  /\ list' = [list EXCEPT ![t] = next'[list[t]]]
  /\ GoQ(t, IF next'[list[t]] = NULL THEN "return" ELSE "reverse")
  /\ UNCHANGED <<head, count, held, pc, locals, signalled>>

\* one turn of "while (list)", on nodes only this thread has
ReverseStep(t) ==
  /\ qpc[t] = "reverse"
  /\ next' = [next EXCEPT ![list[t]] = reversed[t]]
  /\ reversed' = [reversed EXCEPT ![t] = list[t]]
  /\ list' = [list EXCEPT ![t] = next[list[t]]]
  /\ GoQ(t, IF next[list[t]] = NULL THEN "return" ELSE "reverse")
  /\ UNCHANGED <<head, count, held, pc, locals, signalled>>

\* return reversed
ReturnAll(t) ==
  /\ qpc[t] = "return" /\ GoQ(t, "idle")
  /\ reversed' = [reversed EXCEPT ![t] = NULL]
  /\ UNCHANGED <<vars, list, signalled>>

\* Reset of the stack, with no call in progress
ResetQueue(t) ==
  /\ \A u \in Threads : qpc[u] = "idle"
  /\ Reset(t, m_stack)
  /\ UNCHANGED queueVars
-----------------------------------------------------------------------------
QInit ==
  /\ Init
  /\ qpc = [t \in Threads |-> "idle"]
  /\ list = [t \in Threads |-> NULL]
  /\ reversed = [t \in Threads |-> NULL]
  /\ signalled = {}

QStep(t) == WriteStep(t) \/ DetachStep(t) \/ ReverseStep(t) \/ ReturnAll(t)

QNext ==
  \E t \in Threads : Write(t) \/ ReadAll(t) \/ QStep(t) \/ ResetQueue(t)

QSpec == QInit /\ [][QNext]_qvars
QFairSpec == QSpec /\ \A t \in Threads : WF_qvars(QStep(t))
-----------------------------------------------------------------------------
\* Types, and no turn of the reversal on a null list.
QTypeOK ==
  /\ TypeOK
  /\ qpc \in [Threads -> {"idle", "stack", "reverse", "return"}]
  /\ list \in [Threads -> Nodes \union {NULL}]
  /\ reversed \in [Threads -> Nodes \union {NULL}]
  /\ signalled \subseteq Nodes
  /\ \A t \in Threads :
       /\ (qpc[t] = "stack") = (pc[t] # "idle")
       /\ (qpc[t] = "reverse") = (list[t] # NULL)

\* what a ReadAll past its compare and swap will return
BatchOf(t) ==
  CASE pc[t] = "all_count" -> Reverse(Walk(old[t].ptr))
    [] qpc[t] = "reverse" -> Reverse(Walk(list[t])) \o Walk(reversed[t])
    [] qpc[t] = "return" -> Walk(reversed[t])
    [] OTHER -> <<>>
Batches ==
  INSTANCE BatchFifo WITH
    queue <- Reverse(Items(m_stack)),
    batch <- [t \in Threads |-> BatchOf(t)]

\* The queue is FIFO over batches: ReadAll takes what was written before its
\* compare and swap and nothing else, and returns it oldest first, whatever is
\* written while it turns the chain round.
ImplementsBatchFifo == Batches!ASpec

\* Exactly one Write of every batch returns true, the one of the oldest node:
\* a consumer that waits to be signalled is signalled once for what it reads.
OneSignalPerBatch ==
  LET items == Items(m_stack)
  IN  items # <<>> => signalled \cap Range(items) = {items[Len(items)]}

\* Every Write and ReadAll returns, under the bound on changes of the head.
QCallsReturn == \A t \in Threads : qpc[t] # "idle" ~> qpc[t] = "idle"
=============================================================================
