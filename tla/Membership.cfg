SPECIFICATION Spec
CONSTANTS
  a = a
  b = b
  c = c
  None = None
  Emails = {a, b, c}
  Orgs = {1, 2, 3}
  Tokens = {1, 2, 3}
  Roles <- AllRoles
  Jobs = {1, 2}
  MaxRequests = 3
  Seeds <- AllSeeds
CHECK_DEADLOCK FALSE
INVARIANTS
  TypeOK
  OwnerLossNeedsStaleRead
  MembersHaveOrganization
PROPERTIES
  PurgedDeletionCommits
  OnlyOwnOrganizationActs
  JoinedAsInvited
  KeepsLedger
