CONSTANTS
  d1 = d1
  d2 = d2
  j1 = j1
  j2 = j2
  a1 = a1
  None = None
  Docs = {d1, d2}
  Periods = {1}
  Codes = {"REVENUE"}
  Values = {20000, 30000}
  MaxLines = 1
  Audiences = {a1}
  Jobs = {j1}
  Requests = {"upload"}
  MaxRequests = 2
  MaxCrashes = 0
  FailAt = {}
  Seeds <- SerialSeeds
SPECIFICATION Spec
INVARIANTS
  QuietLatestValue
CHECK_DEADLOCK FALSE
