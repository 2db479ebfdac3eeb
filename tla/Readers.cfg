CONSTANTS
  d1 = d1
  d2 = d2
  j1 = j1
  j2 = j2
  a1 = a1
  None = None
  Docs = {}
  Periods = {1, 2}
  Codes = {"REVENUE"}
  Values = {5, 20000}
  MaxLines = 1
  Audiences = {a1}
  Jobs = {j1, j2}
  Requests = {"view", "insight", "edit"}
  MaxRequests = 3
  MaxCrashes = 1
  FailAt = {"llm"}
  Seeds <- ReaderSeeds
SPECIFICATION Spec
SYMMETRY JobSymmetry
INVARIANTS
  NoDuplicateBatches
PROPERTIES
  FillsCache
CHECK_DEADLOCK FALSE
