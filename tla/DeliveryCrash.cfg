SPECIFICATION Spec
CONSTANTS
  e1 = e1  e2 = e2  p1 = p1  p2 = p2  h1 = h1  h2 = h2
  Names = {"usage", "login"}
  Events = {e1, e2}
  Providers = {p1, p2}
  Handlers = {h1, h2}
  Requests <- Pair
  Configs <- AnyConfig
  Cap = 1
  MaxCalls = 2
  MaxRejects = 1
  MaxStarts = 2
  Env <- FaultEnv
INVARIANTS TypeOK Custody NoOrphan
PROPERTIES ForgottenOnlyWhenResolved StoredIsRoutable
SYMMETRY Symmetry
CHECK_DEADLOCK FALSE
