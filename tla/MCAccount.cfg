SPECIFICATION ASpec
CONSTANTS
  admin = admin
  key = key
  s1 = s1
  s2 = s2
  app = app
  g1 = g1
  g2 = g2
  g3 = g3
  ep = ep
  none = none
  transfer = transfer
  kyc = kyc
  noClaim = noClaim
  Address <- Accounts
  NoAddress = none
  Owner = admin
  Key = {key}
  Root = {}
  Contract = {app}
  Session <- Sessions
  ChainId = 1
  CallData <- Data
  Selector = {transfer}
  Intent <- Intents
  Delegation = {}
  CallValue = {0, 1}
  RecoveryRequest <- Requests
  GuardianList <- Lists
  GuardianThreshold = 2
  RecoveryWindow = 1
  MaxTime = 2
  MaxEpoch = 0
  Claim = {kyc}
  NoClaim = noClaim
  Batch <- Batches
  UserOp <- ChainOps
  EntryPoint = ep
  UInt48 = 8
  MaxBalance = 2
INVARIANTS
  KeyServesOnePurpose
  KeysBurnedForUse
PROPERTIES
  FailedCallLeavesNoTrace
