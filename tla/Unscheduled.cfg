CONSTANTS
  c1 = c1
  c2 = c2
  k1 = k1
  k1again = k1again
  k2 = k2
  k3 = k3
  k4 = k4
  None = None
  m1 = m1
  Loop = Loop
  Companies = {c1, c2}
  Cards = {k1, k1again, k2, k3, k4}
  Company <- PageOf
  Title <- TitleOf
  PdfTitled = {k2}
  Date <- DateOf
  Checks = {m1}
  DailyLimit = 2
  MaxPerCheck = 2
  Threshold = 2
  Users = {"check", "round", "upload", "delete", "toggle", "remove"}
  MaxRequests = 2
  MaxFailures = 1
  MaxCrashes = 1
SPECIFICATION Spec
INVARIANT
  EachScheduled
CHECK_DEADLOCK FALSE
