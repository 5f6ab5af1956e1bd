CONSTANTS
  e1 = e1  e2 = e2
  Events = {e1, e2}
  Invalid = {e2}
  Settings <- AnySettings
  InitialBackoff = 2
  DefaultBackoff = 2
  DefaultElapsed = 2
  DefaultLinger = 1
  DefaultEvents = 3
  HardLimit = 2
  QueueTime = 0
  SendTimeout = 1
  Late = 1
  Window = 5
  MaxLives = 2
  MaxAttempts = 2
  MaxEnqueues = 3
SPECIFICATION Spec
INVARIANTS TypeOK ResolvedInTime CountedOncePerLife
CHECK_DEADLOCK FALSE
