CONSTANTS
  d1 = d1
  d2 = d2
  j1 = j1
  j2 = j2
  a1 = a1
  None = None
  Docs = {}
  Periods = {1}
  Codes = {"REVENUE"}
  Values = {5, 20000}
  MaxLines = 1
  Audiences = {a1}
  Jobs = {j1, j2}
  Requests = {"view", "override"}
  MaxRequests = 2
  MaxCrashes = 0
  FailAt = {}
  Seeds <- TypedSeeds
SPECIFICATION Spec
INVARIANTS
  NoDuplicateBatches
CHECK_DEADLOCK FALSE
