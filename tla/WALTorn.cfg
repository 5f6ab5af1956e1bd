CONSTANTS
  e1 = e1  e2 = e2  p1 = p1  p2 = p2  c1 = c1  c2 = c2
  Events = {e1, e2}
  Providers = {p1, p2}
  Routes <- AllRoutes
  Callers = {c1, c2}
  EventBytes = 2
  AckBytes = 1
  MaxSegmentBytes = 3
  MaxBytes = 0
  ChanCap = 2
  MaxFrames = 4
  Env <- TearEnv
SPECIFICATION Spec
SYMMETRY Symmetry
INVARIANT AcceptedSurvives
