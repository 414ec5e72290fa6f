\* Two threads passing two nodes over two stacks, one of them also emptied by
\* PopAll.  Five changes of a head are enough to push both nodes, pop them and
\* push one back while a Pop of the other thread waits for its swap.
CONSTANTS
  Threads = {t1, t2}
  Nodes = {a, b}
  Stacks = {s1, s2}
  NULL = NULL
  PopAllStacks = {s1}
  MaxTag = 5
SPECIFICATION Spec
INVARIANTS OnePlaceEach QuiescentCount
PROPERTY ImplementsAtomicStack
