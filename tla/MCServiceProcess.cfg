CONSTANTS
  h1 = h1
  mono = mono
  stereo = stereo
  Tokens <- MCTokens
  PoolOf <- MCPoolOf
  Weight <- MCWeight
  Capacity <- MCCapacity
  WithRnnt <- MCWithRnnt
SPECIFICATION FairProcessSpec
CHECK_DEADLOCK FALSE
INVARIANTS
  PermitsAreConserved
PROPERTIES
  NoneAdmittedOnceDraining
  RefusalIsHonest
  ReadyMeansHealthy
  SignalEndsTheProcess
