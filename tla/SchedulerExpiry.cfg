\* The documented bound on a queue wait, under a stream that keeps ticking.
CONSTANTS
  Requests = {t1, w1}
  Streaming = {t1}
  NoJob = nojob
SPECIFICATION FairSpec
CHECK_DEADLOCK FALSE
PROPERTIES
  ExpiredWaitReturns
