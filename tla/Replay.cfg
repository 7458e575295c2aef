SPECIFICATION MCSpec
CONSTANTS
  Kids = {"k"}
  Reqs = {1, 2, 3}
  Kinds = {"hit", "stale", "miss", "exempt"}
  Stores = {"none", "some", "auto", "all"}
  Admission = 1
  Overflow = 1
  MaxGen = 4
  MaxFaults = 1
PROPERTY ScopeIsKept
PROPERTY ReplayServes
CHECK_DEADLOCK FALSE
