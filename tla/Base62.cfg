CONSTANTS
  Base = 62
  SampledDigits = {0, 1, 9, 10, 35, 36, 60, 61}
  MaxId = 34000000
SPECIFICATION Spec
INVARIANTS
  RoundTrip
  Ordered
  RoutableFromCube
\* The walk ends at MaxId.
CHECK_DEADLOCK FALSE
