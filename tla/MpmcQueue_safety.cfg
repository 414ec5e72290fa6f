\* Three threads over a ring of two cells, writes of two values: every lap,
\* full, empty and lost-race case, and threads left behind by a whole lap.
CONSTANTS
  Threads = {t1, t2, t3}
  Values = {a, b}
  None = None
  Capacities = {2}
  Word = 16
  MaxLag = 5
  MaxPos = 3
SPECIFICATION Spec
SYMMETRY Symmetry
INVARIANTS TypeOK CellExclusive
PROPERTY ImplementsFifo
