\* Two waiters and one Stop: one takes the unit, the other sleeps on.
CONSTANTS
  Waiters = {w1, w2}
  Producers = {p1}
  Initial = 0
  SpinCount = 0
  Timeouts = {"forever"}
  IdleAnswers = {TRUE}
  Spurious = FALSE
  MaxRelease = 1
  MaxReleased = 0
  MaxStops = 1
SPECIFICATION FairSpec
PROPERTY StopUnblocks
