CONSTANTS
  d1 = d1
  d2 = d2
  j1 = j1
  j2 = j2
  a1 = a1
  None = None
  Docs = {d1}
  Periods = {1, 2}
  Codes = {"REVENUE"}
  Values = {5}
  MaxLines = 1
  Audiences = {a1}
  Jobs = {j1, j2}
  Requests = {"upload", "reextract", "delete", "view", "insight"}
  MaxRequests = 2
  MaxCrashes = 0
  FailAt = {"reload", "start", "fetch", "mcommit"}
  Seeds <- LiveSeeds
SPECIFICATION LiveSpec
PROPERTIES
  ExtractionEnds
  PendingIsScheduled
  SessionsEnd
CHECK_DEADLOCK FALSE
