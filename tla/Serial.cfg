CONSTANTS
  d1 = d1
  d2 = d2
  j1 = j1
  j2 = j2
  None = None
  Docs = {d1, d2}
  Periods = {1, 2}
  Codes = {"REVENUE"}
  Values = {5, 20000}
  a1 = a1
  MaxLines = 2
  Audiences = {a1}
  Jobs = {j1}
  Requests = {"upload", "reextract", "delete", "view", "override", "add", "insight", "edit"}
  MaxRequests = 3
  MaxCrashes = 0
  FailAt = {"fetch"}
  Seeds <- SerialSeeds
SPECIFICATION Spec
SYMMETRY DocSymmetry
INVARIANTS
  TypeOK
  QuietMetricsMatch
  QuietNoOrphanMetrics
  LineItemsOfOneRun
  QuietAllValidated
  InsightsFollowMetrics
CHECK_DEADLOCK FALSE
