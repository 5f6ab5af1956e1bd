CONSTANTS
  x1 = x1  x2 = x2  x3 = x3
  Items = {x1, x2, x3}
  Cap = 1
  MaxBatch = 2
  MaxInFlight = 2
  Errors = {"put", "ack"}
SPECIFICATION FairSpec
INVARIANTS TypeOK NothingLost BatchFitsUntilClose
PROPERTIES PromiseKept CloseIsFinal EventuallyResolved CloseTerminates
CHECK_DEADLOCK FALSE
