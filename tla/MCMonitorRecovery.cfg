SPECIFICATION MSpec
CONSTANTS
  admin = admin
  old = old
  new = new
  g1 = g1
  g2 = g2
  g3 = g3
  s1 = s1
  none = none
  transfer = transfer
  Address <- Accounts
  NoAddress = none
  Owner = admin
  Key = {}
  Root = {old, new}
  Selector = {transfer}
  Intent = {}
  Delegation = {}
  CallValue = {0}
  RecoveryRequest <- Requests
  GuardianList <- Lists
  GuardianThreshold = 2
  RecoveryWindow = 1
  MaxTime = 2
  MaxEpoch = 1
  Identity <- Accounts
  NoGuardian = NoGuardian
  HighValueThreshold = 1
  Timelock = 1
  Unset = Unset
  OurRoot = old
  NoRecovery = NoRecovery
  SessionKey = {}
  EventValue = {1}
  Registration = {}
  MaxEvents = 5
  MaxRegistered = 3
  ClearAt = 2
INVARIANTS
  LogTellsState
  TrackerAgrees
