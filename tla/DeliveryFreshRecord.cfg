SPECIFICATION Spec
CONSTANTS
  e1 = e1  e2 = e2  p1 = p1  p2 = p2  h1 = h1  h2 = h2
  Names = {"usage", "login"}
  Events = {e1}
  Providers = {p1, p2}
  Handlers = {h1, h2}
  Requests <- Single
  Configs <- SameConfig
  Cap = 2
  MaxCalls = 2
  MaxRejects = 2
  MaxStarts = 1
  Env <- ReplayOnly
PROPERTIES ReplayRemovesOnlyItsOwn
SYMMETRY Symmetry
CHECK_DEADLOCK FALSE
