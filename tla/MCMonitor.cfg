SPECIFICATION MFairSpec
CONSTANTS
  admin = admin
  old = old
  new = new
  g1 = g1
  g2 = g2
  g3 = g3
  s1 = s1
  none = none
  transfer = transfer
  Address <- Accounts
  NoAddress = none
  Owner = admin
  Key = {}
  Root = {old, new}
  Selector = {transfer}
  Intent <- Intents
  Delegation <- Delegations
  CallValue = {0}
  RecoveryRequest <- Requests
  GuardianList <- Lists
  GuardianThreshold = 2
  RecoveryWindow = 1
  MaxTime = 2
  MaxEpoch = 1
  Identity <- Accounts
  NoGuardian = NoGuardian
  HighValueThreshold = 2
  Timelock = 1
  Unset = Unset
  OurRoot = old
  NoRecovery = NoRecovery
  SessionKey = {s1}
  EventValue = {1, 2, 3}
  Registration <- Registrations
  MaxEvents = 3
  MaxRegistered = 3
  ClearAt = 2
INVARIANTS
  MTypeOK
  AlertsMatchLog
  NoticesAreOwed
  RangesAddUp
PROPERTIES
  GuardiansAreTold
