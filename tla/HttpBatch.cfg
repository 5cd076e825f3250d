\* Two requests, one reader, one work permit: either pool can be full.
CONSTANTS
  Requests = {r1, r2}
  MaxHttp = 1
  MaxUploads = 1
SPECIFICATION FairSpec
\* Every request may have ended.
CHECK_DEADLOCK FALSE
INVARIANTS
  PermitHeldUntilTerminal
  SuccessMeansCompleted
  EndedLeavesNothing
PROPERTIES
  CapacityReturns
