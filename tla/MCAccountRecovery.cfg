SPECIFICATION ASpec
CONSTANTS
  admin = admin
  key = key
  s1 = s1
  s2 = s2
  app = app
  g1 = g1
  g2 = g2
  g3 = g3
  ep = ep
  none = none
  transfer = transfer
  kyc = kyc
  noClaim = noClaim
  Address <- Accounts
  NoAddress = none
  Owner = admin
  Key = {key}
  Root = {key}
  Contract = {app}
  Session <- RecoverySessions
  ChainId = 1
  CallData <- Data
  Selector = {transfer}
  Intent <- RecoveryIntents
  Delegation = {}
  CallValue = {0}
  RecoveryRequest <- Requests
  GuardianList <- Lists
  GuardianThreshold = 2
  RecoveryWindow = 1
  MaxTime = 2
  MaxEpoch = 0
  Claim = {}
  NoClaim = noClaim
  Batch <- RecoveryBatches
  UserOp <- RecoveryOps
  EntryPoint = ep
  UInt48 = 8
  MaxBalance = 2
INVARIANTS
  ATypeOK
  KeysBurnedForUse
PROPERTIES
  NoOpAfterExpiry
