\* The smallest capacity the service accepts, 1 + 3 * 1; enough offers to
\* fill the queue behind a writer that holds one record, and to drop one more.
CONSTANTS
  Producers = {p1, p2}
  MaxHttp = 1
  MaxWs = 1
  MaxOffers = 6
SPECIFICATION FairSpec
\* A blocked write, or an exited writer and no offers left.
CHECK_DEADLOCK FALSE
INVARIANTS
  EveryRecordIsCounted
PROPERTIES
  CloseCompletes
