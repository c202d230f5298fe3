SPECIFICATION SSpec
CONSTANTS
  admin = admin
  key = key
  s1 = s1
  s2 = s2
  s3 = s3
  app = app
  ep = ep
  wallet = wallet
  pm = pm
  none = none
  transfer = transfer
  usd = usd
  kyc = kyc
  secret = secret
  noClaim = noClaim
  Address <- Accounts
  NoAddress = none
  Owner = admin
  Key = {key}
  Root = {}
  Contract = {app}
  Session <- Sessions
  ChainId = 1
  CallData <- Data
  Selector = {transfer}
  Intent <- Intents
  Delegation = {}
  CallValue = {0}
  RecoveryRequest = {}
  GuardianList = {}
  GuardianThreshold = 2
  RecoveryWindow = 1
  MaxTime = 1
  MaxEpoch = 0
  Claim = {}
  NoClaim = noClaim
  Batch = {}
  UserOp <- Ops
  EntryPoint = ep
  UInt48 = 16
  MaxBalance = 0
  U128 = 4
  Paymaster = pm
  PaymasterOwner = app
  Token = {usd}
  Account = {wallet}
  TokenPrice = {0, 1}
  Precision = 4
  MaxTokens = 1
  DepositAmount = {4}
  MaxDeposit = 8
  Issuer = {app, admin}
  FirstIssuer = app
  Holder = {wallet}
  ClaimType = {kyc}
  Proof = {secret}
  NoCommitment = none
  BaseFee = 0
INVARIANTS
  STypeOK
  KeptOnlyIfPaid
  ChargedAtAPriceInForce
  ProofUsedOnce
  KeysBurnedForUse
