\* Only connections lost in the midst of a transaction.  ({"connect"}, {"commit"} and
\* {"stop"} refute the property as well.)
CONSTANTS
  c1 = c1
  c2 = c2
  bad = bad
  garbage = garbage
  poison = poison
  t1 = t1
  t2 = t2
  v1 = v1
  v2 = v2
  d1 = d1
  Clicks = {c1, c2}
  Kind <- MCKind
  Trackers = {t1, t2}
  Workers = {v1, v2}
  Drainers = {}
  MaxBuffer = 1
  BatchSize = 2
  Faults = {"transient"}
SPECIFICATION Spec
INVARIANT NoEventLost
SYMMETRY MCSymmetry
