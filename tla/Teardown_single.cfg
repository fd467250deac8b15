\* The exit(0) of index.ts counts as well.
CONSTANTS
  r1 = r1
  r2 = r2
  r3 = r3
  Requests = {r1, r2}
  PoolMax = 1
SPECIFICATION Spec
INVARIANT NoTransactionSevered
\* The process ends.
CHECK_DEADLOCK FALSE
