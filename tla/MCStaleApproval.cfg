SPECIFICATION SupportSpec
CONSTANTS
  admin = admin
  old = old
  new = new
  g1 = g1
  g2 = g2
  g3 = g3
  none = none
  transfer = transfer
  approve = approve
  Address <- Accounts
  NoAddress = none
  Owner = admin
  Key = {}
  Root = {old}
  Selector = {transfer, approve}
  Intent = {}
  Delegation = {}
  CallValue = {}
  RecoveryRequest <- LiveRequests
  GuardianList <- LiveLists
  GuardianThreshold = 2
  RecoveryWindow = 2
  MaxTime = 3
  MaxEpoch = 0
PROPERTIES
  TwoGuardiansStartTimelock
