\* A primary and two workers.
CONSTANTS
  w1 = w1
  w2 = w2
  Workers = {w1, w2}
  Slack = 1
  ForkWindow = 1
  MaxRequests = 1
SPECIFICATION FairSpec
INVARIANTS
  TypeOK
  ForkRateBounded
  StartIsNoForkBomb
PROPERTIES
  RequestsDrained
  ShutdownEnds
\* The last process may leave.
CHECK_DEADLOCK FALSE
