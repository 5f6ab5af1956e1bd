CONSTANTS
  e1 = e1  e2 = e2
  Events = {e1, e2}
  PermanentThreshold = 2
  ExhaustedThreshold = 3
  MaxPuts = 4
  Env <- AllEnv
SPECIFICATION Spec
SYMMETRY Symmetry
INVARIANTS TypeOK ParkedIsKept ReaderMissesNothing PoisonIsSoleHome AttemptsCoverDisk
CHECK_DEADLOCK FALSE
