CONSTANTS
  e1 = e1  e2 = e2  p1 = p1  p2 = p2  c1 = c1  c2 = c2
  Events = {e1, e2}
  Providers = {p1, p2}
  Routes <- OneRoute
  Callers = {c1, c2}
  EventBytes = 2
  AckBytes = 1
  MaxSegmentBytes = 3
  MaxBytes = 5
  ChanCap = 1
  MaxFrames = 3
  Env <- AllFaults
SPECIFICATION FairSpec
INVARIANT ReplayExact
PROPERTY QueuedIsAnswered
CHECK_DEADLOCK FALSE
