SPECIFICATION HSpec
CONSTANTS
  admin = admin
  old = old
  new = new
  g1 = g1
  g2 = g2
  g3 = g3
  none = none
  transfer = transfer
  approve = approve
  Address <- Accounts
  NoAddress = none
  Owner = admin
  Key = {new}
  Root = {old, new}
  Selector = {transfer, approve}
  Intent <- Intents
  Delegation <- Delegations
  CallValue = {0, 1, 2}
  RecoveryRequest <- Requests
  GuardianList <- Lists
  GuardianThreshold = 2
  RecoveryWindow = 1
  MaxTime = 3
  MaxEpoch = 1
INVARIANTS
  HTypeOK
  NonceSpentOncePerReset
  PurchasesAreEndorsed
  FinalizedRecoveryNotReplayed
