\* Two waiters and two producers under fairness, with a Stop and a Reset.  A
\* finite timeout may or may not run out, so it stands for "forever" as well.
CONSTANTS
  Waiters = {w1, w2}
  Producers = {p1, p2}
  Initial = 0
  SpinCount = 1
  Timeouts = {"finite"}
  IdleAnswers = {TRUE, FALSE}
  Spurious = TRUE
  MaxRelease = 2
  MaxReleased = 3
  MaxStops = 1
SPECIFICATION FairSpec
INVARIANTS TypeOK UnitsConserved NoLostWakeup
PROPERTY UnitsDelivered
