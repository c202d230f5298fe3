SPECIFICATION FairSpec
CONSTANTS
  admin = admin
  old = old
  new = new
  g1 = g1
  g2 = g2
  g3 = g3
  none = none
  transfer = transfer
  approve = approve
  Address <- Accounts
  NoAddress = none
  Owner = admin
  Key = {}
  Root = {old, new}
  Selector = {transfer, approve}
  Intent = {}
  Delegation = {}
  CallValue = {}
  RecoveryRequest <- CrossingRequests
  GuardianList <- CrossingLists
  GuardianThreshold = 2
  RecoveryWindow = 2
  MaxTime = 4
  MaxEpoch = 0
INVARIANTS
  ApprovalsAreConsents
  RecoveryCoherent
PROPERTIES
  RecoveryNeedsQuorumAndWindow
  RecoveryCompletes
  SocialRecoveryKept
