\* Two requests at a time of a client, Redis of any version, failing at any command.
CONSTANTS
  r1 = r1
  r2 = r2
  here = here
  Requests = {r1, r2}
  Ips = {here}
  Ip <- MCIp
  Passages <- MCPassages
  Max = 2
  Window = 2
  RedisFails = TRUE
SPECIFICATION FairSpec
INVARIANTS
  QuotaHeld
  RefusalHasAnEnd
  RefusedOverHalfTheQuota
PROPERTIES
  AdmitsAtomically
  LockoutEnds
