SPECIFICATION GSpec
CONSTANTS
  admin = admin
  key = key
  s1 = s1
  s2 = s2
  app = app
  g1 = g1
  g2 = g2
  g3 = g3
  none = none
  transfer = transfer
  approve = approve
  Address <- Accounts
  NoAddress = none
  Owner = admin
  Key = {key}
  Root = {key}
  Contract = {app}
  Session <- Sessions
  ChainId = 1
  CallData <- Data
  Selector = {transfer, approve}
  Intent <- Intents
  Delegation = {}
  CallValue = {0, 1, 2}
  RecoveryRequest <- Requests
  GuardianList <- Lists
  GuardianThreshold = 2
  RecoveryWindow = 1
  MaxTime = 3
  MaxEpoch = 1
INVARIANTS
  GTypeOK
  SessionKeySingleUse
  BurnedIffExecuted
  CallsWithinCertificate
