SPECIFICATION Spec
CONSTANTS
  Jobs = {1, 2}
  Places = {1, 2}
  Requests <- AllRequests
  MaxRequests = 5
  MaxFailures = 1
CHECK_DEADLOCK FALSE
INVARIANTS
  TypeOK
  FactorIsConfirmed
  SecretsServeOnce
  PhotoOnFile
PROPERTIES
  PasswordSticks
  SignInSurvivesMove
