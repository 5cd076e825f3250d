\* One stream and two file requests.
CONSTANTS
  Requests = {t1, w1, w2}
  Streaming = {t1}
  NoJob = nojob
SPECIFICATION Spec
\* Every request may be closed and the scheduler gone.
CHECK_DEADLOCK FALSE
INVARIANTS
  PendingMatchesQueues
  AnswerOwed
  FailureIsTerminal
PROPERTIES
  CancellationWins
  ImplementsControl
