CONSTANTS
  d1 = d1
  d2 = d2
  j1 = j1
  j2 = j2
  a1 = a1
  None = None
  Docs = {d1}
  Periods = {1}
  Codes = {"REVENUE"}
  Values = {5, 20000}
  MaxLines = 1
  Audiences = {a1}
  Jobs = {j1, j2}
  Requests = {"upload", "reextract", "delete", "accuracy", "view", "override", "add", "insight", "edit"}
  MaxRequests = 3
  MaxCrashes = 1
  FailAt = {"fetch", "score"}
  Seeds <- ConcurrentSeeds
SPECIFICATION Spec
SYMMETRY JobSymmetry
INVARIANTS
  NoRowOfDeletedDoc
  FilesMatchDocuments
  ReaderHoldsLock
PROPERTIES
  DeletedStaysDeleted
CHECK_DEADLOCK FALSE
