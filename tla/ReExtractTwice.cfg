CONSTANTS
  d1 = d1
  d2 = d2
  j1 = j1
  j2 = j2
  a1 = a1
  None = None
  Docs = {d1}
  Periods = {1}
  Codes = {"REVENUE"}
  Values = {5, 20000}
  MaxLines = 1
  Audiences = {a1}
  Jobs = {j1, j2}
  Requests = {"reextract"}
  MaxRequests = 2
  MaxCrashes = 0
  FailAt = {}
  Seeds <- ConcurrentSeeds
SPECIFICATION Spec
INVARIANTS
  LineItemsOfOneRun
CHECK_DEADLOCK FALSE
