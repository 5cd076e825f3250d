\* One stream and one file request, for liveness.
CONSTANTS
  Requests = {t1, w1}
  Streaming = {t1}
  NoJob = nojob
SPECIFICATION FairSpec
CHECK_DEADLOCK FALSE
PROPERTIES
  CallsReturn
