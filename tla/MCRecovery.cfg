SPECIFICATION Spec
CONSTANTS
  admin = admin
  old = old
  new = new
  g1 = g1
  g2 = g2
  g3 = g3
  none = none
  transfer = transfer
  approve = approve
  Address <- Accounts
  NoAddress = none
  Owner = admin
  Key = {old}
  Root = {old}
  Selector = {transfer, approve}
  Intent <- LiveIntents
  Delegation <- LiveDelegations
  CallValue = {0}
  RecoveryRequest <- OneRootRequests
  GuardianList <- GuardianLists
  GuardianThreshold = 2
  RecoveryWindow = 2
  MaxTime = 5
  MaxEpoch = 1
INVARIANTS
  TypeOK
  ApprovalsAreConsents
  RecoveryCoherent
PROPERTIES
  PendingRequestIsFixed
  RecoveryNeedsQuorumAndWindow
