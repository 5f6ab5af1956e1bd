CONSTANTS
  e1 = e1  e2 = e2
  Events = {e1, e2}
  PermanentThreshold = 2
  ExhaustedThreshold = 3
  MaxPuts = 2
  Env <- TearEnv
SPECIFICATION FairSpec
PROPERTY OpensAgain
CHECK_DEADLOCK FALSE
