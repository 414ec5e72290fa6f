\* Two threads under fairness, all the capacities with Reset between them, and
\* positions that pass Word = 16 and wrap.
CONSTANTS
  Threads = {t1, t2}
  Values = {a}
  None = None
  Capacities = {0, 2, 4}
  Word = 16
  MaxLag = 3
  MaxPos = 18
SPECIFICATION FairSpec
INVARIANTS HandOver
PROPERTIES HonestRefusals CallsReturn
