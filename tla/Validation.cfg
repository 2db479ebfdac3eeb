CONSTANTS
  Codes <- AllCodes
  Figures <- Stated10
SPECIFICATION Spec
INVARIANTS
  TypeOK
  FlaggedIffDisputed
CHECK_DEADLOCK FALSE
