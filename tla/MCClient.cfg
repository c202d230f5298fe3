SPECIFICATION CSpec
CONSTANTS
  admin = admin
  new = new
  app = app
  none = none
  stranger = stranger
  transfer = transfer
  here = here
  there = there
  Address <- Accounts
  NoAddress = none
  Owner = admin
  Key = {}
  Root = {}
  Contract = {app}
  Session <- Sessions
  ChainId = 1
  CallData <- Data
  Selector = {transfer}
  Intent = {}
  Delegation = {}
  CallValue = {1}
  RecoveryRequest = {}
  GuardianList <- Lists
  GuardianThreshold = 2
  RecoveryWindow = 1
  MaxTime = 1
  MaxEpoch = 0
  Stranger = stranger
  Site <- Sites
  Here <- ThisSite
  App = app
  Counter = {0, 1}
  GuardianIndex = {0, 1}
  NewRoot = new
  MaxActionIndex = 2
  MaxSigned = 3
  HexLength = {20, 19}
INVARIANTS
  SignaturesVerify
  OnlyWhatWasSignedHere
  BurnedKeysAreOfThisChain
  SessionKeySingleUse
