-------------------------- MODULE SettlementProofs --------------------------
(***************************************************************************)
(* Proofs about who pays for an operation, for every value of the          *)
(* constants: any number of operations, tokens and prices, with prices,    *)
(* deposits and tokens moved in the middle of a call.                      *)
(***************************************************************************)
EXTENDS SponsorshipProofs, HuntKeyAccountProofs

-----------------------------------------------------------------------------
(* The packed fields of an operation.                                      *)

(* Each half of a word that is put together of two numbers is a number.    *)
LEMMA Unpacked ==
  ASSUME NEW a \in Nat, NEW b \in Nat
  PROVE  High(Pack(a, b)) \in Nat /\ Low(Pack(a, b)) \in Nat
<1>1. U128 \in Nat \ {0}
  BY WordAssumption
<1>2. a % U128 \in Nat /\ b % U128 \in Nat
  BY <1>1, Truncation
<1>3. Pack(a, b) \in Nat
  BY <1>1, <1>2 DEF Pack
<1>4. QED
  BY <1>1, <1>3 DEF High, Low

(* What the EntryPoint reads in the packed fields of an operation are      *)
(* numbers, whichever of them the client meant.                            *)
LEMMA LimitsOfOp ==
  ASSUME NEW op \in UserOp
  PROVE  /\ CallGasLimit(UserOpOf(op)) \in Nat
         /\ VerificationGasLimit(UserOpOf(op)) \in Nat
         /\ MaxFeePerGas(UserOpOf(op)) \in Nat
         /\ MaxPriorityFeePerGas(UserOpOf(op)) \in Nat
         /\ UserOpOf(op).pre_verification_gas \in Nat
         /\ UserOpOf(op).sender \in Account
         /\ UserOpOf(op).paymaster_and_data = op.builder.paymaster_and_data
<1> DEFINE b == op.builder
<1>1. /\ b.call_gas_limit \in Nat /\ b.verification_gas_limit \in Nat
      /\ b.pre_verification_gas \in Nat /\ b.max_fee_per_gas \in Nat
      /\ b.max_priority_fee_per_gas \in Nat /\ b.sender \in Account
  BY SponsorshipAssumption DEF IsBuilder
<1>2. /\ UserOpOf(op).account_gas_limits =
           Pack(b.call_gas_limit, b.verification_gas_limit)
      /\ UserOpOf(op).gas_fees =
           Pack(b.max_fee_per_gas, b.max_priority_fee_per_gas)
      /\ UserOpOf(op).pre_verification_gas = b.pre_verification_gas
      /\ UserOpOf(op).sender = b.sender
      /\ UserOpOf(op).paymaster_and_data = b.paymaster_and_data
  BY DEF UserOpOf, Build
<1> HIDE DEF b
<1>3. /\ High(Pack(b.call_gas_limit, b.verification_gas_limit)) \in Nat
      /\ Low(Pack(b.call_gas_limit, b.verification_gas_limit)) \in Nat
      /\ High(Pack(b.max_fee_per_gas, b.max_priority_fee_per_gas)) \in Nat
      /\ Low(Pack(b.max_fee_per_gas, b.max_priority_fee_per_gas)) \in Nat
  BY <1>1, Unpacked
<1>4. QED
  BY <1>1, <1>2, <1>3
  DEF CallGasLimit, VerificationGasLimit, MaxFeePerGas, MaxPriorityFeePerGas, b

(* Products of smaller numbers are no larger.                              *)
LEMMA Products ==
  ASSUME NEW a \in Nat, NEW b \in Nat, NEW c \in 0..a, NEW d \in 0..b
  PROVE  a * b \in Nat /\ c * d \in Nat /\ c * d <= a * b
<1>1. a * b \in Nat /\ c * d \in Nat /\ c * b \in Nat
  OBVIOUS
<1>2. (a - c) * b >= 0 /\ c * (b - d) >= 0
  OBVIOUS
<1>3. (a - c) * b = (a * b) - (c * b) /\ c * (b - d) = (c * b) - (c * d)
  OBVIOUS
<1>4. QED
  BY <1>1, <1>2, <1>3

(* An operation costs at most what was taken from the deposit for it.      *)
LEMMA CostsOfOp ==
  ASSUME NEW op \in UserOp, NEW usage \in Usage(UserOpOf(op))
  PROVE  /\ usage.call \in 0..CallGasLimit(UserOpOf(op))
         /\ usage.verification \in 0..VerificationGasLimit(UserOpOf(op))
         /\ usage.fee \in 0..MaxFeePerGas(UserOpOf(op))
         /\ MaxCost(UserOpOf(op)) \in Nat
         /\ Cost(UserOpOf(op), usage) \in 0..MaxCost(UserOpOf(op))
         /\ Refund(UserOpOf(op), Cost(UserOpOf(op), usage)) \in Nat
<1> DEFINE o == UserOpOf(op)
           all == CallGasLimit(o) + VerificationGasLimit(o) + o.pre_verification_gas
           used == usage.call + usage.verification + o.pre_verification_gas
<1>1. /\ CallGasLimit(o) \in Nat /\ VerificationGasLimit(o) \in Nat
      /\ MaxFeePerGas(o) \in Nat /\ MaxPriorityFeePerGas(o) \in Nat
      /\ o.pre_verification_gas \in Nat /\ BaseFee \in Nat
  BY LimitsOfOp, SponsorshipAssumption
<1>2. /\ usage.call \in 0..CallGasLimit(o)
      /\ usage.verification \in 0..VerificationGasLimit(o)
      /\ usage.fee = LesserOf(MaxFeePerGas(o), MaxPriorityFeePerGas(o) + BaseFee)
  BY DEF Usage
<1>3. usage.fee \in 0..MaxFeePerGas(o)
  BY <1>1, <1>2 DEF LesserOf
<1>4. all \in Nat /\ used \in 0..all
  BY <1>1, <1>2
<1>5. /\ MaxCost(o) = all * MaxFeePerGas(o)
      /\ Cost(o, usage) = used * usage.fee
  BY DEF MaxCost, Cost
<1> HIDE DEF all, used
<1>6. MaxCost(o) \in Nat /\ Cost(o, usage) \in 0..MaxCost(o)
  BY <1>1, <1>3, <1>4, <1>5, Products
<1>7. Refund(o, Cost(o, usage)) \in Nat
  BY <1>6 DEF Refund
<1>8. QED
  BY <1>2, <1>3, <1>6, <1>7

-----------------------------------------------------------------------------
(* Type correctness.                                                       *)

SavedSponsor ==
  [sponsored : SUBSET Account, price : [Token -> TokenPrice], deposit : Nat,
   collectable : [Account \X Token -> 0..MaxTokens],
   collected : [Account \X Token -> Nat], issuer : Issuer,
   commitments : [ClaimType \X Holder -> Commitment \cup {NoCommitment}],
   used : SUBSET Commitment, verifications : [Commitment -> Nat]]

Context == Account \X Token \X Nat

SettledReceipt ==
  [settled : {TRUE}, usage : [call : Nat, verification : Nat, fee : Nat],
   cost : Nat, due : Nat, tokens : Nat]

CallUndone == [call : SavedStorage, account : SavedAccount]

Settlement == [op : UserOp, undo : {<<>>} \cup {<<frame>> : frame \in CallUndone}]

SettlementTyped ==
  /\ contexts \in [UserOp -> Context \cup {NoContext}]
  /\ prices \in [UserOp -> SUBSET TokenPrice]
  /\ receipts \in [UserOp -> SettledReceipt \cup {NoReceipt}]
  /\ beforeCall = <<>> \/ \E saved \in SavedSponsor : beforeCall = <<saved>>
  /\ settling = <<>> \/ \E s \in Settlement : settling = <<s>>

SponsorTyped ==
  AccountTyped /\ PaymasterTypeOK /\ VerifierTypeOK /\ SettlementTyped

(* The EntryPoint makes one call at a time, and nobody else makes any.     *)
InTurn ==
  callStack # <<>> =>
    phase = "execution" /\ Len(callStack) = 1 /\ beforeCall # <<>>

(* What a call saves of paymaster and verifier has its type.               *)
LEMMA SponsorStorageTyped ==
  ASSUME PaymasterTypeOK, VerifierTypeOK
  PROVE  SponsorStorage \in SavedSponsor
BY DEF PaymasterTypeOK, VerifierTypeOK, SponsorStorage, SavedSponsor

(* And has it still when it is put back.                                   *)
LEMMA SponsorRestored ==
  ASSUME NEW saved \in SavedSponsor, RestoreSponsor(saved), deposit' \in Nat
  PROVE  PaymasterTypeOK' /\ VerifierTypeOK'
BY DEF RestoreSponsor, SavedSponsor, PaymasterTypeOK, VerifierTypeOK

(* What a context hands to postOp.                                         *)
LEMMA ContextParts ==
  ASSUME NEW c \in Context \cup {NoContext}
  PROVE  \/ c = NoContext
         \/ /\ c \in Context /\ c # NoContext /\ Len(c) = 3
            /\ c[1] \in Account /\ c[2] \in Token
            /\ <<c[1], c[2]>> \in Account \X Token
BY DEF Context, NoContext

(* The tokens due are a number.                                            *)
LEMMA DueTyped ==
  ASSUME PaymasterTypeOK, NEW c \in Context \cup {NoContext}, NEW cost \in Nat
  PROVE  TokensDue(c, cost) \in Nat
<1>1. CASE c = NoContext
  BY <1>1 DEF TokensDue
<1>2. CASE c # NoContext
  <2>1. tokenGasPrice[c[2]] \in Nat
    BY <1>2, ContextParts, PaymasterAssumption DEF PaymasterTypeOK
  <2> DEFINE p == tokenGasPrice[c[2]]
  <2>2. cost * p \in Nat
    BY <2>1
  <2> HIDE DEF p
  <2>3. ((cost * p) \div Precision) \in Nat
    BY <2>2, PaymasterAssumption
  <2>4. QED
    BY <1>2, <2>3 DEF TokensDue, p
<1>3. QED
  BY <1>1, <1>2

(* postOp moves what is due or nothing, and only if it can be moved.       *)
LEMMA PostOpMoves ==
  ASSUME PaymasterTypeOK, NEW c \in Context \cup {NoContext}, NEW due \in Nat,
         c = NoContext => due = 0, PostOp(c, due)
  PROVE  /\ collectable' \in [Account \X Token -> 0..MaxTokens]
         /\ collected' \in [Account \X Token -> Nat]
         /\ Moved(c) = due
<1>1. CASE due = 0
  <2>1. collectable' = collectable /\ collected' = collected
    BY <1>1 DEF PostOp
  <2>2. c # NoContext => collected[<<c[1], c[2]>>] \in Nat
    BY ContextParts DEF PaymasterTypeOK
  <2>3. QED
    BY <1>1, <2>1, <2>2 DEF Moved, PaymasterTypeOK
<1>2. CASE due # 0
  <2> DEFINE held == <<c[1], c[2]>>
  <2>1. c # NoContext /\ held \in Account \X Token
    BY <1>2, ContextParts
  <2> HIDE DEF held
  <2>2. /\ due <= collectable[held]
        /\ collectable' = [collectable EXCEPT ![held] = @ - due]
        /\ collected' = [collected EXCEPT ![held] = @ + due]
    BY <1>2 DEF PostOp, TransferPossible, held
  <2>3. collectable[held] \in 0..MaxTokens /\ collected[held] \in Nat
    BY <2>1 DEF PaymasterTypeOK
  <2>4. collectable[held] - due \in 0..MaxTokens /\ collected[held] + due \in Nat
    BY <2>2, <2>3, PaymasterAssumption
  <2>5. /\ collectable' \in [Account \X Token -> 0..MaxTokens]
        /\ collected' \in [Account \X Token -> Nat]
        /\ collected'[held] = collected[held] + due
    BY <2>1, <2>2, <2>4 DEF PaymasterTypeOK
  <2>6. Moved(c) = due
    BY <2>1, <2>3, <2>5 DEF Moved, held
  <2>7. QED
    BY <2>5, <2>6
<1>3. QED
  BY <1>1, <1>2

(* The account, which Settle can put back to where it was before the call. *)
LEMMA AccountRestored ==
  ASSUME SponsorTyped, settling # <<>>,
         settling[1].undo # <<>>, Undo(settling[1].undo[1])
  PROVE  AccountTyped'
<1>1. PICK s \in Settlement : settling = <<s>>
  BY DEF SponsorTyped, SettlementTyped
<1>2. s.op \in UserOp /\ s.undo # <<>> /\ settling[1] = s
  BY <1>1 DEF Settlement
<1>3. PICK frame \in CallUndone : s.undo = <<frame>>
  BY <1>1, <1>2 DEF Settlement
<1>4. Undo(frame)
  BY <1>2, <1>3
<1>5. frame.call \in SavedStorage /\ frame.account \in SavedAccount
  BY DEF CallUndone
<1>6. TypeOK'
  <2>1. RestoreStore(frame.call) /\ UNCHANGED <<now, signed>>
    BY <1>4 DEF Undo, Restore
  <2>2. TypeOK
    BY DEF SponsorTyped, AccountTyped, GatewayTyped, GTypeOK
  <2>3. QED
    BY <1>5, <2>1, <2>2 DEF RestoreStore, SavedStorage, TypeOK
<1>7. /\ usedSessionKeys' \in SUBSET Address /\ executed' \in [SessionKey -> Nat]
      /\ UNCHANGED <<callStack, issued>>
  BY <1>4, <1>5 DEF Undo, Restore, SavedStorage
<1>8. GatewayTyped'
  BY <1>6, <1>7 DEF SponsorTyped, AccountTyped, GatewayTyped, GTypeOK, IsFrame
<1>9. OwnTyped'
  BY <1>4, <1>5, <1>7 DEF Undo, SavedAccount, SponsorTyped, AccountTyped, OwnTyped
<1>10. EntryPointTyped'
  <2>1. /\ opResult' = [opResult EXCEPT ![s.op] = "reverted"]
        /\ UNCHANGED <<bundle, phase, chained>>
    BY <1>2, <1>4 DEF Undo, Settled
  <2>2. opResult \in [UserOp -> OpResult]
    BY DEF SponsorTyped, AccountTyped, EntryPointTyped
  <2>3. /\ opResult' \in [UserOp -> OpResult]
        /\ \A op \in chained' : opResult'[op] # "none"
    BY <1>2, <2>1, <2>2 DEF OpResult, SponsorTyped, AccountTyped, EntryPointTyped
  <2>4. QED
    BY <2>1, <2>3 DEF SponsorTyped, AccountTyped, EntryPointTyped
<1>11. QED
  BY <1>8, <1>9, <1>10 DEF AccountTyped

(* The owner's first calls.                                                *)
LEMMA PrepareTyped ==
  ASSUME SponsorTyped, Prepare
  PROVE  SponsorTyped'
<1>1. AccountTyped
  BY DEF SponsorTyped
<1>2. ASSUME SetEntryPoint(Owner, EntryPoint)
      PROVE  AccountTyped'
  <2>1. /\ UNCHANGED <<vars, gatewayVars, callStack, batches, entryPointVars>>
        /\ entryPoint' \in Address /\ UNCHANGED <<userClaims, balance>>
    BY <1>2, AccountAssumption DEF SetEntryPoint, gvars, gatewayVars
  <2>2. GatewayTyped'
    BY <1>1, <2>1, GatewayUntouched DEF AccountTyped
  <2>3. QED
    BY <1>1, <2>1, <2>2 DEF AccountTyped, OwnTyped, EntryPointTyped, entryPointVars
<1>3. ASSUME NEW k \in Key, AuthorizeKey(Owner, k),
             UNCHANGED <<gatewayVars, accountVars, batches, entryPointVars>>
      PROVE  AccountTyped'
  <2>1. Owner \in Address /\ Next
    BY <1>3, AddressAssumption DEF Next, Calls, Administration
  <2>2. GatewayTyped'
    BY <1>1, <1>3, <2>1, GatewayUntouched DEF AccountTyped
  <2>3. QED
    BY <1>1, <1>3, <2>2
    DEF AccountTyped, OwnTyped, EntryPointTyped, gatewayVars, accountVars,
        entryPointVars
<1>4. ASSUME NEW session \in Session, IssueSession(session),
             UNCHANGED <<accountVars, batches, entryPointVars>>
      PROVE  AccountTyped'
  <2>1. GatewayTyped' /\ callStack' = callStack
    BY <1>1, <1>4, GatewayTypeStep DEF AccountTyped, GNext, IssueSession
  <2>2. QED
    BY <1>1, <1>4, <2>1
    DEF AccountTyped, OwnTyped, EntryPointTyped, accountVars, entryPointVars
<1>5. AccountTyped'
  BY <1>2, <1>3, <1>4 DEF Prepare
<1>6. UNCHANGED <<paymasterVars, verifierVars, settlementVars>>
  BY DEF Prepare
<1>7. PaymasterTypeOK'
  BY <1>6 DEF SponsorTyped, PaymasterTypeOK, paymasterVars
<1>8. VerifierTypeOK'
  BY <1>6 DEF SponsorTyped, VerifierTypeOK, verifierVars
<1>9. SettlementTyped'
  BY <1>6 DEF SponsorTyped, SettlementTyped, settlementVars
<1>10. QED
  BY <1>5, <1>7, <1>8, <1>9 DEF SponsorTyped

(* Validation takes no more than the deposit holds.                        *)
LEMMA ValidationTyped ==
  ASSUME SponsorTyped, NEW op \in UserOp, ValidateSponsored(op)
  PROVE  SponsorTyped'
<1> DEFINE data == op.builder.paymaster_and_data
           userOp == UserOpOf(op)
<1>1. AccountTyped'
  BY AccountTypeStep DEF ValidateSponsored, ANext, EntryPointNext, SponsorTyped
<1>2. /\ UNCHANGED <<verifierVars, receipts, beforeCall, settling>>
      /\ userOp.paymaster_and_data = data /\ userOp.sender \in Account
      /\ MaxCost(userOp) \in Nat
  <2>1. PICK usage : usage \in Usage(userOp)
    <3>1. [call |-> 0, verification |-> 0,
           fee |-> LesserOf(MaxFeePerGas(userOp),
                            MaxPriorityFeePerGas(userOp) + BaseFee)]
            \in Usage(userOp)
      <4>1. /\ CallGasLimit(userOp) \in Nat /\ VerificationGasLimit(userOp) \in Nat
        BY LimitsOfOp
      <4>2. QED
        BY <4>1 DEF Usage
    <3>2. QED
      BY <3>1
  <2>2. QED
    BY <2>1, CostsOfOp, LimitsOfOp DEF ValidateSponsored
<1>3. VerifierTypeOK'
  BY <1>2 DEF SponsorTyped, VerifierTypeOK, verifierVars
<1>4. CASE data = <<>>
  BY <1>1, <1>2, <1>3, <1>4
  DEF ValidateSponsored, SponsorTyped, PaymasterTypeOK, SettlementTyped, paymasterVars
<1>5. CASE data # <<>>
  <2>1. /\ PaymasterAgrees(userOp) /\ MaxCost(userOp) <= deposit
        /\ deposit' = deposit - MaxCost(userOp)
        /\ contexts' = [contexts EXCEPT ![op] = PaymasterContext(userOp)]
        /\ prices' = [prices EXCEPT ![op] =
             IF contexts'[op] = NoContext THEN {}
             ELSE {tokenGasPrice[contexts'[op][2]]}]
        /\ UNCHANGED <<sponsoredAccounts, tokenGasPrice, collectable, collected>>
    BY <1>2, <1>5 DEF ValidateSponsored
  <2>2. PaymasterTypeOK'
    BY <1>2, <2>1 DEF SponsorTyped, PaymasterTypeOK
  <2>3. PaymasterContext(userOp) \in Context \cup {NoContext}
    <3>1. CASE data[2] = 2
      <4>1. data[3] \in Token
        BY <1>2, <2>1, <3>1, SponsorshipAssumption DEF PaymasterAgrees, IsBuilder
      <4>2. PaymasterContext(userOp) = <<userOp.sender, data[3], MaxCost(userOp)>>
        BY <1>2, <3>1 DEF PaymasterContext
      <4>3. QED
        BY <1>2, <4>1, <4>2 DEF Context
    <3>2. QED
      BY <1>2, <3>1 DEF PaymasterContext
  <2>4. contexts' \in [UserOp -> Context \cup {NoContext}]
    BY <2>1, <2>3 DEF SponsorTyped, SettlementTyped
  <2>5. contexts'[op] = NoContext \/ tokenGasPrice[contexts'[op][2]] \in TokenPrice
    BY <2>4, ContextParts DEF SponsorTyped, PaymasterTypeOK
  <2>6. prices' \in [UserOp -> SUBSET TokenPrice]
    BY <2>1, <2>5 DEF SponsorTyped, SettlementTyped
  <2>7. SettlementTyped'
    BY <1>2, <2>4, <2>6 DEF SponsorTyped, SettlementTyped
  <2>8. QED
    BY <1>1, <1>3, <2>2, <2>7 DEF SponsorTyped
<1>6. QED
  BY <1>4, <1>5

(* The calls that the EntryPoint makes.                                    *)
LEMMA CallsTyped ==
  ASSUME SponsorTyped, InTurn,
         \/ ExecutionBegins \/ CallReturns \/ CallReverts
         \/ \E op \in UserOp : SponsoredCall(op) \/ CallRefused(op)
  PROVE  SponsorTyped'
<1>1. ASSUME AccountTyped', UNCHANGED <<paymasterVars, verifierVars, contexts,
                                        prices, receipts>>,
             beforeCall' = beforeCall \/ beforeCall' = <<SponsorStorage>>,
             settling' = settling \/ \E s \in Settlement : settling' = <<s>>
      PROVE  SponsorTyped'
  <2>1. SponsorStorage \in SavedSponsor
    BY SponsorStorageTyped DEF SponsorTyped
  <2>2. SettlementTyped'
    BY <1>1, <2>1 DEF SponsorTyped, SettlementTyped
  <2>3. PaymasterTypeOK' /\ VerifierTypeOK'
    BY <1>1
    DEF SponsorTyped, PaymasterTypeOK, VerifierTypeOK, paymasterVars, verifierVars
  <2>4. QED
    BY <1>1, <2>2, <2>3 DEF SponsorTyped
<1>2. ASSUME [ANext]_avars
      PROVE  AccountTyped'
  BY <1>2, AccountTypeStep DEF SponsorTyped
<1>3. CASE ExecutionBegins
  BY <1>1, <1>2, <1>3 DEF ExecutionBegins, ANext, EntryPointNext, settlementVars
<1>4. ASSUME NEW op \in UserOp, SponsoredCall(op)
      PROVE  SponsorTyped'
  BY <1>1, <1>2, <1>4 DEF SponsoredCall, ANext, EntryPointNext
<1>5. ASSUME NEW op \in UserOp, CallRefused(op)
      PROVE  SponsorTyped'
  <2>1. [op |-> op, undo |-> <<>>] \in Settlement
    BY DEF Settlement
  <2>2. QED
    BY <1>1, <1>2, <1>5, <2>1 DEF CallRefused, ANext, EntryPointNext
<1>6. ASSUME callStack # <<>>
      PROVE  OthersTurn /\ UndoOfCall \in CallUndone /\ Head(bundle) \in UserOp
  <2>1. /\ Top \in Frame /\ Len(callStack) \in Nat \ {0}
        /\ batches \in Seq(BatchLeft) /\ Len(batches) = Len(callStack)
    BY <1>6, TopAndPop DEF SponsorTyped, AccountTyped, OwnTyped
  <2>2. LastBatch \in BatchLeft
    <3>1. Len(batches) \in 1..Len(batches)
      BY <2>1
    <3>2. QED
      BY <2>1, <3>1 DEF LastBatch
  <2>3. UndoOfCall \in CallUndone
    BY <2>1, <2>2 DEF UndoOfCall, CallUndone, Frame, BatchLeft
  <2>4. bundle \in Seq(UserOp) /\ bundle # <<>>
    BY <1>6 DEF InTurn, SponsorTyped, AccountTyped, EntryPointTyped
  <2>5. QED
    BY <1>6, <2>3, <2>4 DEF OthersTurn
<1>7. CASE CallReturns
  <2>1. callStack # <<>>
    BY <1>7 DEF CallReturns, ACallSucceeds, CallSucceeds
  <2>2. [op |-> Head(bundle), undo |-> <<UndoOfCall>>] \in Settlement
    BY <1>6, <2>1 DEF Settlement
  <2>3. AccountTyped'
    BY <1>2, <1>6, <1>7, <2>1 DEF CallReturns, ANext
  <2>4. QED
    BY <1>1, <1>7, <2>2, <2>3 DEF CallReturns
<1>8. CASE CallReverts
  <2>1. callStack # <<>>
    BY <1>8 DEF CallReverts, ACallFails, CallFails
  <2>2. [op |-> Head(bundle), undo |-> <<>>] \in Settlement
    BY <1>6, <2>1 DEF Settlement
  <2>3. AccountTyped'
    BY <1>2, <1>6, <1>8, <2>1 DEF CallReverts, ANext
  <2>4. PICK saved \in SavedSponsor : beforeCall = <<saved>>
    BY <2>1 DEF SponsorTyped, SettlementTyped, InTurn
  <2>5. PaymasterTypeOK' /\ VerifierTypeOK'
    <3>1. saved.deposit \in Nat /\ beforeCall[1] = saved
      BY <2>4 DEF SavedSponsor
    <3>2. QED
      BY <1>8, <3>1, SponsorRestored DEF CallReverts
  <2>6. SettlementTyped'
    BY <1>8, <2>2 DEF CallReverts, SponsorTyped, SettlementTyped
  <2>7. QED
    BY <2>3, <2>5, <2>6 DEF SponsorTyped
<1>9. QED
  BY <1>3, <1>4, <1>5, <1>7, <1>8

(* A settlement gives back no more than the validation took.               *)
LEMMA SettleTyped ==
  ASSUME SponsorTyped, VerifierInv, Settle
  PROVE  SponsorTyped'
<1>1. PICK s \in Settlement : settling = <<s>>
  BY DEF Settle, SponsorTyped, SettlementTyped
<1>2. Settled = s /\ s.op \in UserOp
  BY <1>1 DEF Settled, Settlement
<1> DEFINE op == s.op
           userOp == UserOpOf(op)
<1>3. PICK usage \in Usage(userOp) : PostOpReturns(usage) \/ PostOpReverts(usage)
  BY <1>2 DEF Settle
<1> DEFINE cost == Cost(userOp, usage)
           due == TokensDue(contexts[op], cost)
<1>4. /\ cost \in Nat /\ Refund(userOp, cost) \in Nat
      /\ usage \in [call : Nat, verification : Nat, fee : Nat]
  <2>1. /\ CallGasLimit(userOp) \in Nat /\ VerificationGasLimit(userOp) \in Nat
        /\ MaxFeePerGas(userOp) \in Nat
    BY <1>2, LimitsOfOp
  <2>2. /\ usage.call \in Nat /\ usage.verification \in Nat /\ usage.fee \in Nat
        /\ cost \in Nat /\ Refund(userOp, cost) \in Nat
    BY <1>2, <2>1, CostsOfOp
  <2>3. usage = [call |-> usage.call, verification |-> usage.verification,
                 fee |-> usage.fee]
    BY DEF Usage
  <2>4. QED
    BY <2>2, <2>3
<1> HIDE DEF cost
<1>5. contexts[op] \in Context \cup {NoContext} /\ due \in Nat
  BY <1>2, <1>4, DueTyped DEF SponsorTyped, SettlementTyped
<1>6. contexts[op] = NoContext => due = 0
  BY DEF TokensDue
<1> HIDE DEF due
<1>7. ASSUME NEW tokens \in Nat,
             receipts' = [receipts EXCEPT ![op] = Receipt(usage, cost, due, tokens)]
      PROVE  SettlementTyped'
  <2>1. Receipt(usage, cost, due, tokens) \in SettledReceipt
    BY <1>4, <1>5, <1>7 DEF Receipt, SettledReceipt
  <2>2. receipts' \in [UserOp -> SettledReceipt \cup {NoReceipt}]
    BY <1>2, <1>7, <2>1 DEF SponsorTyped, SettlementTyped
  <2>3. QED
    BY <2>2 DEF Settle, SponsorTyped, SettlementTyped
<1>8. CASE PostOpReturns(usage)
  <2>1. /\ PostOp(contexts[op], due) /\ deposit' = deposit + Refund(userOp, cost)
        /\ receipts' = [receipts EXCEPT ![op] =
                          Receipt(usage, cost, due, Moved(contexts[op]))]
        /\ UNCHANGED <<avars, sponsoredAccounts, tokenGasPrice, verifierVars>>
    BY <1>2, <1>8 DEF PostOpReturns, cost, due
  <2>2. /\ collectable' \in [Account \X Token -> 0..MaxTokens]
        /\ collected' \in [Account \X Token -> Nat] /\ Moved(contexts[op]) = due
    BY <1>5, <1>6, <2>1, PostOpMoves DEF SponsorTyped
  <2>3. PaymasterTypeOK' /\ VerifierTypeOK'
    BY <1>4, <2>1, <2>2
    DEF SponsorTyped, PaymasterTypeOK, VerifierTypeOK, verifierVars
  <2>4. AccountTyped'
    BY <2>1, AccountTypeStep DEF SponsorTyped
  <2>5. QED
    BY <1>5, <1>7, <2>1, <2>2, <2>3, <2>4 DEF SponsorTyped
<1>9. CASE PostOpReverts(usage) /\ s.undo = <<>>
  <2>1. /\ deposit' = deposit + Refund(userOp, cost)
        /\ receipts' = [receipts EXCEPT ![op] = Receipt(usage, cost, due, 0)]
        /\ UNCHANGED <<avars, sponsoredAccounts, tokenGasPrice, collectable,
                       collected, verifierVars>>
    BY <1>2, <1>9 DEF PostOpReverts, cost, due
  <2>2. PaymasterTypeOK' /\ VerifierTypeOK'
    BY <1>4, <2>1 DEF SponsorTyped, PaymasterTypeOK, VerifierTypeOK, verifierVars
  <2>3. AccountTyped'
    BY <2>1, AccountTypeStep DEF SponsorTyped
  <2>4. QED
    BY <1>7, <2>1, <2>2, <2>3 DEF SponsorTyped
<1>10. CASE PostOpReverts(usage) /\ s.undo # <<>>
  <2>1. /\ Undo(s.undo[1])
        /\ deposit' = beforeCall[1].deposit + Refund(userOp, cost)
        /\ receipts' = [receipts EXCEPT ![op] = Receipt(usage, cost, due, 0)]
    BY <1>2, <1>10 DEF PostOpReverts, cost, due
  <2>2. AccountTyped'
    BY <1>1, <1>10, <2>1, AccountRestored
  <2>3. PICK saved \in SavedSponsor : beforeCall = <<saved>>
    BY <1>1, <1>10 DEF VerifierInv, SponsorTyped, SettlementTyped
  <2>4. saved.deposit \in Nat /\ beforeCall[1] = saved
    BY <2>3 DEF SavedSponsor
  <2>5. PaymasterTypeOK' /\ VerifierTypeOK'
    BY <1>4, <2>1, <2>4, SponsorRestored DEF Undo
  <2>6. QED
    BY <1>7, <2>1, <2>2, <2>5 DEF SponsorTyped
<1>11. QED
  BY <1>3, <1>8, <1>9, <1>10

(* The paymaster's and the verifier's other callers keep the types.        *)
LEMMA OthersTyped ==
  ASSUME SponsorTyped, Others
  PROVE  SponsorTyped'
<1>1. UNCHANGED <<avars, contexts, receipts, beforeCall, settling>>
  BY DEF Others
<1>2. AccountTyped'
  BY <1>1, AccountTypeStep DEF SponsorTyped
<1>3. CASE PaymasterCalls(Callers) /\ UNCHANGED verifierVars
  <2>1. VerifierTypeOK'
    BY <1>3 DEF SponsorTyped, VerifierTypeOK, verifierVars
  <2>2. ASSUME NEW caller, PriceChange(caller)
        PROVE  PaymasterTypeOK' /\ prices' \in [UserOp -> SUBSET TokenPrice]
    <3>1. PICK token \in Token, price \in TokenPrice :
            /\ SetTokenGasPrice(caller, token, price)
            /\ prices' = [op \in UserOp |->
                 IF Open(op) /\ contexts[op][2] = token THEN prices[op] \cup {price}
                 ELSE prices[op]]
      BY <2>2 DEF PriceChange
    <3>2. QED
      BY <3>1 DEF SetTokenGasPrice, SponsorTyped, PaymasterTypeOK, SettlementTyped
  <2>3. ASSUME NEW caller, NEW account \in Account, NEW sponsored \in BOOLEAN,
               SetSponsoredAccount(caller, account, sponsored)
        PROVE  PaymasterTypeOK'
    BY <2>3 DEF SetSponsoredAccount, SponsorTyped, PaymasterTypeOK
  <2>4. ASSUME NEW caller, NEW amount \in DepositAmount,
               Withdraw(caller, amount) \/ Deposit(amount)
        PROVE  PaymasterTypeOK'
    BY <2>4, PaymasterAssumption DEF Withdraw, Deposit, SponsorTyped, PaymasterTypeOK
  <2>5. ASSUME NEW account \in Account, NEW token \in Token, TokensMove(account, token)
        PROVE  PaymasterTypeOK'
    BY <2>5 DEF TokensMove, SponsorTyped, PaymasterTypeOK
  <2>6. PaymasterTypeOK' /\ prices' \in [UserOp -> SUBSET TokenPrice]
    <3>1. prices' = prices => prices' \in [UserOp -> SUBSET TokenPrice]
      BY DEF SponsorTyped, SettlementTyped
    <3>2. QED
      BY <1>3, <2>2, <2>3, <2>4, <2>5, <3>1 DEF PaymasterCalls
  <2>7. QED
    BY <1>1, <1>2, <2>1, <2>6 DEF SponsorTyped, SettlementTyped
<1>4. CASE VNext(Callers) /\ UNCHANGED <<paymasterVars, prices>>
  <2>1. PaymasterTypeOK'
    BY <1>4 DEF SponsorTyped, PaymasterTypeOK, paymasterVars
  <2>2. ASSUME NEW account \in Holder, NEW claimType \in ClaimType,
               NEW proof \in Proof, VerifyClaimProof(account, claimType, proof)
        PROVE  VerifierTypeOK'
    <3>1. ProofHash(account, claimType, proof) \in Commitment
      BY DEF ProofHash, Commitment
    <3>2. QED
      BY <2>2, <3>1 DEF VerifyClaimProof, SponsorTyped, VerifierTypeOK
  <2>3. ASSUME IssuerCalls(Callers)
        PROVE  VerifierTypeOK'
    BY <2>3 DEF IssuerCalls, SetIssuer, RegisterClaim, RevokeClaim, SponsorTyped,
                VerifierTypeOK
  <2>4. VerifierTypeOK'
    BY <1>4, <2>2, <2>3 DEF VNext, ProofShown
  <2>5. QED
    BY <1>1, <1>2, <1>4, <2>1, <2>4 DEF SponsorTyped, SettlementTyped
<1>5. QED
  BY <1>3, <1>4 DEF Others

(* The types hold initially,                                               *)
LEMMA SponsorInitTyped ==
  ASSUME SInit
  PROVE  SponsorTyped
<1>1. AccountTyped
  BY AccountInitTyped DEF SInit
<1>2. PaymasterTypeOK
  BY PaymasterAssumption DEF SInit, PaymasterInit, PaymasterTypeOK
<1>3. VerifierTypeOK
  BY VerifierAssumption DEF SInit, VerifierInit, VerifierTypeOK
<1>4. SettlementTyped
  BY DEF SInit, SettlementTyped
<1>5. QED
  BY <1>1, <1>2, <1>3, <1>4 DEF SponsorTyped

(* and every step keeps them.                                              *)
LEMMA SponsorTypeStep ==
  ASSUME SponsorTyped, InTurn, VerifierInv, [SNext]_svars
  PROVE  SponsorTyped'
<1>1. CASE UNCHANGED svars
  <2>1. UNCHANGED <<avars, paymasterVars, verifierVars, settlementVars>>
    BY <1>1 DEF svars
  <2>2. AccountTyped'
    BY <2>1, AccountTypeStep DEF SponsorTyped
  <2>3. PaymasterTypeOK' /\ VerifierTypeOK'
    BY <2>1
    DEF SponsorTyped, PaymasterTypeOK, VerifierTypeOK, paymasterVars, verifierVars
  <2>4. SettlementTyped'
    BY <2>1 DEF SponsorTyped, SettlementTyped, settlementVars
  <2>5. QED
    BY <2>2, <2>3, <2>4 DEF SponsorTyped
<1>2. QED
  BY <1>1, PrepareTyped, ValidationTyped, CallsTyped, SettleTyped, OthersTyped
  DEF SNext

-----------------------------------------------------------------------------
(* The order in which operations are dealt with.  One that is waiting in   *)
(* the bundle is there once and has not been settled, and the call under   *)
(* way is made with the session key of the first.                          *)

Decided(op) == opResult[op] \notin {"none", "validated"}

BundleInOrder ==
  /\ \A i, j \in DOMAIN bundle : bundle[i] = bundle[j] => i = j
  /\ \A i \in DOMAIN bundle : opResult[bundle[i]] = "validated"
  /\ \A op \in UserOp : receipts[op].settled => Decided(op)

KeyOfOp(op) == op.call.session.session

InOrder ==
  /\ BundleInOrder
  /\ InTurn
  /\ callStack # <<>> => callStack[1].session.session = KeyOfOp(Head(bundle))
  /\ settling # <<>> =>
       Decided(settling[1].op) /\ ~ receipts[settling[1].op].settled
  /\ beforeCall # <<>> => callStack # <<>> \/ settling # <<>>

(* The head of the bundle is decided and leaves it.                        *)
LEMMA BundleDone ==
  ASSUME EntryPointTyped, BundleInOrder, phase = "execution",
         NEW result \in {"succeeded", "reverted", "refused"}, OpDone(result),
         UNCHANGED receipts
  PROVE  /\ BundleInOrder' /\ ~ receipts'[Head(bundle)].settled
         /\ opResult'[Head(bundle)] \notin {"none", "validated"}
<1>1. bundle \in Seq(UserOp) /\ bundle # <<>> /\ opResult \in [UserOp -> OpResult]
  BY DEF EntryPointTyped
<1>2. /\ Head(bundle) = bundle[1] /\ 1 \in DOMAIN bundle /\ Head(bundle) \in UserOp
      /\ DOMAIN Tail(bundle) = 1..(Len(bundle) - 1)
      /\ \A i \in DOMAIN Tail(bundle) : /\ Tail(bundle)[i] = bundle[i + 1]
                                        /\ i + 1 \in DOMAIN bundle /\ i + 1 # 1
  BY <1>1
<1>3. /\ opResult' = [opResult EXCEPT ![Head(bundle)] = result]
      /\ bundle' = Tail(bundle)
  BY DEF OpDone
<1>4. \A i, j \in DOMAIN bundle' : bundle'[i] = bundle'[j] => i = j
  <2>1. SUFFICES ASSUME NEW i \in DOMAIN bundle', NEW j \in DOMAIN bundle',
                        bundle'[i] = bundle'[j]
                 PROVE  i = j
    OBVIOUS
  <2>2. i + 1 = j + 1 /\ i \in Int /\ j \in Int
    BY <1>2, <1>3, <2>1 DEF BundleInOrder
  <2>3. QED
    BY <2>2
<1>5. \A i \in DOMAIN bundle' : opResult'[bundle'[i]] = "validated"
  <2>1. SUFFICES ASSUME NEW i \in DOMAIN bundle'
                 PROVE  opResult'[bundle'[i]] = "validated"
    OBVIOUS
  <2>2. bundle'[i] = bundle[i + 1] /\ i + 1 \in DOMAIN bundle /\ i + 1 # 1
    BY <1>2, <1>3
  <2>3. bundle[i + 1] # Head(bundle) /\ bundle[i + 1] \in UserOp
    BY <1>1, <1>2, <2>2 DEF BundleInOrder
  <2>4. QED
    BY <1>1, <1>3, <2>2, <2>3 DEF BundleInOrder
<1>6. opResult'[Head(bundle)] \notin {"none", "validated"}
  BY <1>1, <1>2, <1>3
<1>7. opResult[Head(bundle)] = "validated" /\ ~ receipts[Head(bundle)].settled
  BY <1>2 DEF BundleInOrder, Decided
<1>8. \A op \in UserOp : receipts'[op].settled => Decided(op)'
  BY <1>1, <1>2, <1>3, <1>6, <1>7 DEF BundleInOrder, Decided
<1>9. QED
  BY <1>4, <1>5, <1>6, <1>7, <1>8 DEF BundleInOrder

(* An operation joins the bundle that was not in it.                       *)
LEMMA BundleGrows ==
  ASSUME EntryPointTyped, BundleInOrder, NEW op \in UserOp, ValidateUserOp(op),
         UNCHANGED receipts
  PROVE  BundleInOrder'
<1>1. bundle \in Seq(UserOp) /\ opResult \in [UserOp -> OpResult]
  BY DEF EntryPointTyped
<1>2. /\ opResult[op] = "none" /\ bundle' = Append(bundle, op)
      /\ opResult' = [opResult EXCEPT ![op] = "validated"]
  BY DEF ValidateUserOp
<1>3. /\ DOMAIN bundle' = 1..(Len(bundle) + 1) /\ DOMAIN bundle = 1..Len(bundle)
      /\ Len(bundle) \in Nat /\ bundle'[Len(bundle) + 1] = op
      /\ \A i \in DOMAIN bundle : bundle'[i] = bundle[i] /\ bundle[i] \in UserOp
  BY <1>1, <1>2
<1>4. \A i \in DOMAIN bundle : bundle[i] # op
  BY <1>2 DEF BundleInOrder
<1>5. \A i \in DOMAIN bundle' : i \in DOMAIN bundle \/ i = Len(bundle) + 1
  BY <1>3
<1>6. \A i, j \in DOMAIN bundle' : bundle'[i] = bundle'[j] => i = j
  BY <1>3, <1>4, <1>5 DEF BundleInOrder
<1>7. \A i \in DOMAIN bundle' : opResult'[bundle'[i]] = "validated"
  BY <1>1, <1>2, <1>3, <1>4, <1>5 DEF BundleInOrder
<1>8. \A o \in UserOp : receipts'[o].settled => Decided(o)'
  BY <1>1, <1>2 DEF BundleInOrder, Decided
<1>9. QED
  BY <1>6, <1>7, <1>8 DEF BundleInOrder

(* Every step keeps the order of bundle, call and settlement.              *)
LEMMA InOrderStep ==
  ASSUME SponsorTyped, VerifierInv, InOrder, [SNext]_svars
  PROVE  InOrder'
<1>0. /\ EntryPointTyped /\ BundleInOrder
      /\ \A op \in UserOp : opResult[op] \in OpResult
      /\ callStack # <<>> => phase = "execution"
  BY DEF SponsorTyped, AccountTyped, EntryPointTyped, InOrder, InTurn
<1>1. ASSUME UNCHANGED <<callStack, entryPointVars, receipts, settling, beforeCall>>
      PROVE  InOrder'
  BY <1>1 DEF InOrder, InTurn, BundleInOrder, Decided, entryPointVars
<1>2. CASE Prepare
  BY <1>1, <1>2
  DEF Prepare, SetEntryPoint, IssueSession, gvars, gatewayVars, settlementVars
<1>3. ASSUME NEW op \in UserOp, ValidateSponsored(op)
      PROVE  InOrder'
  <2>1. /\ ValidateUserOp(op) /\ UNCHANGED <<receipts, beforeCall, settling>>
        /\ settling = <<>> /\ callStack = <<>> /\ UNCHANGED callStack
    BY <1>3 DEF ValidateSponsored, ValidateUserOp
  <2>2. BundleInOrder'
    BY <1>0, <2>1, BundleGrows
  <2>3. QED
    BY <2>1, <2>2 DEF InOrder, InTurn
<1>4. CASE ExecutionBegins
  <2>1. /\ UNCHANGED <<callStack, bundle, opResult, receipts, settling, beforeCall>>
        /\ phase' = "execution"
    BY <1>4 DEF ExecutionBegins, BeginExecution, gvars, gatewayVars, settlementVars
  <2>2. QED
    BY <2>1 DEF InOrder, InTurn, BundleInOrder, Decided
<1>5. ASSUME NEW op \in UserOp, SponsoredCall(op)
      PROVE  InOrder'
  <2>1. /\ phase = "execution" /\ callStack = <<>> /\ op = Head(bundle)
        /\ AExecute(op.call.session, op.call.intent, op.call.target, op.call.data, 0)
        /\ beforeCall' = <<SponsorStorage>> /\ settling = <<>>
        /\ UNCHANGED <<receipts, settling>>
    BY <1>5 DEF SponsoredCall, OpExecute, NextOp
  <2>2. PICK frame : callStack' = <<frame>> /\ frame.session = op.call.session
    BY <2>1 DEF AExecute, Execute
  <2>3. UNCHANGED <<bundle, phase, opResult>>
    BY <2>1 DEF AExecute, entryPointVars
  <2>4. BundleInOrder'
    BY <1>0, <2>1, <2>3 DEF BundleInOrder, Decided
  <2>5. QED
    BY <2>1, <2>2, <2>3, <2>4 DEF InOrder, InTurn, KeyOfOp
<1>6. ASSUME NEW result \in {"succeeded", "reverted", "refused"}, OpDone(result),
             phase = "execution", callStack' = <<>>, UNCHANGED receipts,
             NEW undo, settling' = <<[op |-> Head(bundle), undo |-> undo]>>
      PROVE  InOrder'
  <2>1. /\ BundleInOrder' /\ ~ receipts'[Head(bundle)].settled
        /\ opResult'[Head(bundle)] \notin {"none", "validated"}
    BY <1>0, <1>6, BundleDone
  <2>2. settling' # <<>> /\ settling'[1].op = Head(bundle)
    BY <1>6
  <2>3. QED
    BY <1>6, <2>1, <2>2 DEF InOrder, InTurn, Decided
<1>7. ASSUME callStack # <<>>, callStack' = Pop, NEW result, CallDone(result)
      PROVE  OpDone(result) /\ phase = "execution" /\ callStack' = <<>>
  <2>1. PICK frame : callStack = <<frame>>
    BY <1>7 DEF VerifierInv
  <2>2. QED
    BY <1>0, <1>7, <2>1 DEF CallDone, Pop
<1>8. CASE CallReturns
  <2>1. /\ OpDone("succeeded") /\ phase = "execution" /\ callStack' = <<>>
        /\ UNCHANGED receipts
        /\ settling' = <<[op |-> Head(bundle), undo |-> <<UndoOfCall>>]>>
    BY <1>7, <1>8 DEF CallReturns, ACallSucceeds, CallSucceeds
  <2>2. QED
    BY <1>6, <2>1
<1>9. CASE CallReverts
  <2>1. /\ OpDone("reverted") /\ phase = "execution" /\ callStack' = <<>>
        /\ UNCHANGED receipts
        /\ settling' = <<[op |-> Head(bundle), undo |-> <<>>]>>
    BY <1>7, <1>9 DEF CallReverts, ACallFails, CallFails
  <2>2. QED
    BY <1>6, <2>1
<1>10. ASSUME NEW op \in UserOp, CallRefused(op)
       PROVE  InOrder'
  <2>1. /\ OpDone("refused") /\ phase = "execution" /\ callStack' = <<>>
        /\ UNCHANGED receipts
        /\ settling' = <<[op |-> Head(bundle), undo |-> <<>>]>>
    BY <1>10 DEF CallRefused, OpRefused, NextOp, gvars, gatewayVars
  <2>2. QED
    BY <1>6, <2>1
<1>11. CASE Settle
  <2>1. PICK s \in Settlement : settling = <<s>>
    BY <1>11 DEF Settle, SponsorTyped, SettlementTyped
  <2> DEFINE op == s.op
  <2>2. /\ op \in UserOp /\ Settled = s /\ settling[1] = s
        /\ settling' = <<>> /\ beforeCall' = <<>> /\ callStack = <<>>
    BY <1>11, <2>1 DEF Settle, Settled, Settlement, VerifierInv
  <2>3. \E r : receipts' = [receipts EXCEPT ![op] = r]
    BY <1>11, <2>2 DEF Settle, PostOpReturns, PostOpReverts
  <2>4. /\ UNCHANGED <<callStack, bundle>>
        /\ opResult' = opResult \/ opResult' = [opResult EXCEPT ![op] = "reverted"]
    BY <1>11, <2>2
    DEF Settle, PostOpReturns, PostOpReverts, Undo, avars, gvars, gatewayVars,
        entryPointVars
  <2>5. Decided(op)
    BY <2>1, <2>2 DEF InOrder
  <2>6. opResult \in [UserOp -> OpResult] /\ DOMAIN receipts = UserOp
    BY DEF SponsorTyped, AccountTyped, EntryPointTyped, SettlementTyped
  <2>7. \A i \in DOMAIN bundle : bundle[i] # op
    BY <2>5 DEF InOrder, BundleInOrder, Decided
  <2>8. \A i \in DOMAIN bundle' : opResult'[bundle'[i]] = "validated"
    <3>1. \A i \in DOMAIN bundle : bundle[i] \in UserOp
      BY <1>0 DEF EntryPointTyped
    <3>2. QED
      BY <1>0, <2>4, <2>6, <2>7, <3>1 DEF BundleInOrder
  <2>9. \A o \in UserOp : Decided(o) => Decided(o)'
    BY <2>4, <2>6 DEF Decided
  <2>10. \A o \in UserOp : receipts'[o].settled => Decided(o)'
    BY <1>0, <2>3, <2>5, <2>6, <2>9 DEF BundleInOrder
  <2>11. BundleInOrder'
    BY <1>0, <2>4, <2>8, <2>10 DEF BundleInOrder
  <2>12. QED
    BY <2>2, <2>4, <2>11 DEF InOrder, InTurn
<1>12. CASE Others
  BY <1>1, <1>12 DEF Others, avars, gvars, gatewayVars
<1>13. CASE UNCHANGED svars
  BY <1>1, <1>13 DEF svars, avars, gvars, gatewayVars, settlementVars
<1>14. QED
  BY <1>2, <1>3, <1>4, <1>5, <1>8, <1>9, <1>10, <1>11, <1>12, <1>13 DEF SNext

-----------------------------------------------------------------------------
(* What calls did is paid for.  The strengthening of KeptOnlyIfPaid says   *)
(* it of what a revert would go back to as well; of the call that has just *)
(* been made it can only be said when it is settled.                       *)

PaidFor(k) ==
  \E op \in UserOp : /\ KeyOfOp(op) = k
                     /\ receipts[op].settled
                     /\ receipts[op].tokens = receipts[op].due

Backed(exec) == \A k \in SessionKey : exec[k] > 0 => PaidFor(k)

EffectsPaidFor ==
  /\ settling = <<>> => Backed(executed)
  /\ callStack # <<>> => Backed(callStack[1].saved.executed)
  /\ settling # <<>> /\ settling[1].undo = <<>> => Backed(executed)
  /\ settling # <<>> /\ settling[1].undo # <<>> =>
       /\ Backed(settling[1].undo[1].call.executed)
       /\ \A k \in SessionKey :
            executed[k] > 0 => PaidFor(k) \/ k = KeyOfOp(settling[1].op)

(* Every step keeps what was executed paid for.                            *)
LEMMA EffectsPaidForStep ==
  ASSUME SponsorTyped, VerifierInv, InOrder, EffectsPaidFor, [SNext]_svars
  PROVE  EffectsPaidFor'
<1>1. ASSUME UNCHANGED <<executed, callStack, settling, receipts>>
      PROVE  EffectsPaidFor'
  BY <1>1 DEF EffectsPaidFor, Backed, PaidFor
<1>2. CASE Prepare \/ ExecutionBegins \/ Others \/ UNCHANGED svars
  BY <1>1, <1>2
  DEF Prepare, SetEntryPoint, IssueSession, ExecutionBegins, BeginExecution, Others,
      svars, avars, gvars, gatewayVars, settlementVars
<1>3. ASSUME NEW op \in UserOp, ValidateSponsored(op)
      PROVE  EffectsPaidFor'
  BY <1>1, <1>3 DEF ValidateSponsored, ValidateUserOp
<1>4. ASSUME NEW op \in UserOp, SponsoredCall(op)
      PROVE  EffectsPaidFor'
  <2>1. /\ callStack = <<>> /\ settling = <<>>
        /\ UNCHANGED <<executed, settling, receipts>>
    BY <1>4 DEF SponsoredCall, OpExecute, NextOp, AExecute, Execute
  <2>2. PICK frame : callStack' = <<frame>> /\ frame.saved = Storage
    BY <1>4, <2>1 DEF SponsoredCall, OpExecute, AExecute, Execute
  <2>3. callStack'[1].saved.executed = executed
    BY <2>2 DEF Storage
  <2>4. QED
    BY <2>1, <2>3 DEF EffectsPaidFor, Backed, PaidFor
<1>5. ASSUME callStack # <<>>, callStack' = Pop
      PROVE  /\ callStack' = <<>> /\ Top = callStack[1] /\ settling = <<>>
             /\ Top.session.session \in SessionKey
             /\ Top.session.session = KeyOfOp(Head(bundle))
             /\ executed \in [SessionKey -> Nat]
  <2>1. PICK frame : callStack = <<frame>>
    BY <1>5 DEF VerifierInv
  <2>2. GatewayTyped
    BY DEF SponsorTyped, AccountTyped
  <2>3. Top \in Frame
    BY <1>5, <2>2, TopAndPop
  <2>4. Top.session.session \in SessionKey
    BY <2>3, SessionKeysAreAddresses DEF Frame
  <2>5. QED
    BY <1>5, <2>1, <2>2, <2>4 DEF Top, Pop, InOrder, VerifierInv, GatewayTyped, GTypeOK
<1>6. CASE CallReturns
  <2> DEFINE key == Top.session.session
  <2>1. /\ callStack # <<>> /\ callStack' = Pop /\ UNCHANGED receipts
        /\ executed' = [executed EXCEPT ![key] = @ + 1]
        /\ settling' = <<[op |-> Head(bundle), undo |-> <<UndoOfCall>>]>>
    BY <1>6 DEF CallReturns, ACallSucceeds, CallSucceeds
  <2>2. /\ callStack' = <<>> /\ key \in SessionKey /\ key = KeyOfOp(Head(bundle))
        /\ settling = <<>> /\ executed \in [SessionKey -> Nat] /\ Top = callStack[1]
    BY <1>5, <2>1
  <2>3. /\ settling' # <<>> /\ settling'[1].op = Head(bundle)
        /\ settling'[1].undo # <<>>
        /\ settling'[1].undo[1].call.executed = callStack[1].saved.executed
    BY <2>1, <2>2 DEF UndoOfCall
  <2>4. \A k \in SessionKey : PaidFor(k)' <=> PaidFor(k)
    BY <2>1 DEF PaidFor
  <2>5. Backed(callStack[1].saved.executed) /\ Backed(executed)
    BY <2>1, <2>2 DEF EffectsPaidFor
  <2>6. \A k \in SessionKey : k # key => executed'[k] = executed[k]
    BY <2>1, <2>2
  <2>7. \A k \in SessionKey :
          executed'[k] > 0 => PaidFor(k)' \/ k = KeyOfOp(settling'[1].op)
    BY <2>2, <2>3, <2>4, <2>5, <2>6 DEF Backed
  <2>8. \A k \in SessionKey :
          settling'[1].undo[1].call.executed[k] > 0 => PaidFor(k)'
    BY <2>3, <2>4, <2>5 DEF Backed
  <2>9. QED
    BY <2>2, <2>3, <2>7, <2>8 DEF EffectsPaidFor, Backed
<1>7. CASE CallReverts
  <2>1. /\ callStack # <<>> /\ callStack' = Pop /\ UNCHANGED receipts
        /\ executed' = Top.saved.executed
        /\ settling' = <<[op |-> Head(bundle), undo |-> <<>>]>>
    BY <1>7 DEF CallReverts, ACallFails, CallFails, Restore
  <2>2. callStack' = <<>> /\ executed' = callStack[1].saved.executed
    BY <1>5, <2>1
  <2>3. settling' # <<>> /\ settling'[1].undo = <<>>
    BY <2>1
  <2>4. QED
    BY <2>1, <2>2, <2>3 DEF EffectsPaidFor, Backed, PaidFor
<1>8. ASSUME NEW op \in UserOp, CallRefused(op)
      PROVE  EffectsPaidFor'
  <2>1. /\ callStack = <<>> /\ settling = <<>>
        /\ UNCHANGED <<executed, callStack, receipts>>
        /\ settling' # <<>> /\ settling'[1].undo = <<>>
    BY <1>8 DEF CallRefused, OpRefused, NextOp, gvars, gatewayVars
  <2>2. QED
    BY <2>1 DEF EffectsPaidFor, Backed, PaidFor
<1>9. CASE Settle
  <2>1. PICK s \in Settlement : settling = <<s>>
    BY <1>9 DEF Settle, SponsorTyped, SettlementTyped
  <2> DEFINE op == s.op
             userOp == UserOpOf(op)
             c == contexts[op]
  <2>2. /\ op \in UserOp /\ Settled = s /\ settling[1] = s /\ settling # <<>>
        /\ settling' = <<>> /\ callStack = <<>> /\ ~ receipts[op].settled
        /\ DOMAIN receipts = UserOp /\ c \in Context \cup {NoContext}
    BY <1>9, <2>1
    DEF Settle, Settled, Settlement, VerifierInv, InOrder, SponsorTyped, SettlementTyped
  <2>3. PICK usage \in Usage(userOp) : PostOpReturns(usage) \/ PostOpReverts(usage)
    BY <1>9, <2>2 DEF Settle
  <2> DEFINE cost == Cost(userOp, usage)
             due == TokensDue(c, cost)
  <2>4. cost \in Nat
    <3>1. MaxCost(userOp) \in Nat /\ cost \in 0..MaxCost(userOp)
      BY <2>2, CostsOfOp
    <3>2. QED
      BY <3>1
  <2>5. due \in Nat /\ (c = NoContext => due = 0)
    BY <2>2, <2>4, DueTyped DEF SponsorTyped, TokensDue
  <2> HIDE DEF due, cost
  <2>6. ASSUME NEW r, receipts' = [receipts EXCEPT ![op] = r]
        PROVE  \A k \in SessionKey : PaidFor(k) => PaidFor(k)'
    BY <2>2, <2>6 DEF PaidFor
  <2>7. CASE PostOpReturns(usage)
    <3>1. /\ PostOp(c, due) /\ UNCHANGED <<executed, callStack>>
          /\ receipts' = [receipts EXCEPT ![op] = Receipt(usage, cost, due, Moved(c))]
      BY <2>2, <2>7 DEF PostOpReturns, avars, gvars, gatewayVars, cost, due
    <3>2. Moved(c) = due
      BY <2>2, <2>5, <3>1, PostOpMoves DEF SponsorTyped
    <3>3. PaidFor(KeyOfOp(op))'
      BY <2>2, <3>1, <3>2 DEF PaidFor, Receipt
    <3>4. \A k \in SessionKey : executed[k] > 0 => PaidFor(k) \/ k = KeyOfOp(op)
      BY <2>2 DEF EffectsPaidFor, Backed
    <3>5. \A k \in SessionKey : executed'[k] > 0 => PaidFor(k)'
      BY <2>6, <3>1, <3>3, <3>4
    <3>6. QED
      BY <2>2, <3>1, <3>5 DEF EffectsPaidFor, Backed
  <2>8. CASE PostOpReverts(usage)
    <3>1. /\ receipts' = [receipts EXCEPT ![op] = Receipt(usage, cost, due, 0)]
          /\ UNCHANGED callStack
          /\ \/ s.undo = <<>> /\ executed' = executed
             \/ s.undo # <<>> /\ executed' = s.undo[1].call.executed
      BY <2>2, <2>8
      DEF PostOpReverts, Undo, Restore, avars, gvars, gatewayVars, cost, due
    <3>2. \A k \in SessionKey : executed'[k] > 0 => PaidFor(k)
      BY <2>2, <3>1 DEF EffectsPaidFor, Backed
    <3>3. QED
      BY <2>2, <2>6, <3>1, <3>2 DEF EffectsPaidFor, Backed
  <2>9. QED
    BY <2>3, <2>7, <2>8
<1>10. QED
  BY <1>2, <1>3, <1>4, <1>6, <1>7, <1>8, <1>9 DEF SNext

-----------------------------------------------------------------------------
(* At what price.  The strengthening of ChargedAtAPriceInForce says that   *)
(* the price of an operation that is still open, and the one a revert      *)
(* would go back to, are among those it has seen.                          *)

PriceSeen(op, price) == price[contexts[op][2]] \in prices[op]

PricesInForce ==
  \A op \in UserOp :
    PaidInTokens(op) =>
      IF receipts[op].settled
      THEN \/ receipts[op].tokens = 0
           \/ \E price \in prices[op] :
                receipts[op].tokens = (receipts[op].cost * price) \div Precision
      ELSE /\ PriceSeen(op, tokenGasPrice)
           /\ beforeCall # <<>> => PriceSeen(op, beforeCall[1].price)

(* Every step keeps the prices among those that were in force.             *)
LEMMA PricesInForceStep ==
  ASSUME SponsorTyped, VerifierInv, InOrder, PricesInForce, [SNext]_svars
  PROVE  PricesInForce'
<1>0. /\ DOMAIN contexts = UserOp /\ DOMAIN prices = UserOp /\ DOMAIN receipts = UserOp
      /\ \A op \in UserOp : contexts[op] \in Context \cup {NoContext}
  BY DEF SponsorTyped, SettlementTyped
<1>1. ASSUME UNCHANGED <<contexts, prices, receipts, tokenGasPrice>>,
             \/ beforeCall' = beforeCall \/ beforeCall' = <<>>
             \/ beforeCall' = <<SponsorStorage>>
      PROVE  PricesInForce'
  <2>1. SponsorStorage.price = tokenGasPrice
    BY DEF SponsorStorage
  <2>2. beforeCall' # <<>> =>
          beforeCall'[1].price = tokenGasPrice \/ beforeCall' = beforeCall
    BY <1>1, <2>1
  <2>3. QED
    BY <1>1, <2>2 DEF PricesInForce, PriceSeen, PaidInTokens
<1>2. CASE Prepare \/ ExecutionBegins \/ UNCHANGED svars
  BY <1>1, <1>2
  DEF Prepare, ExecutionBegins, svars, paymasterVars, settlementVars
<1>3. ASSUME NEW op \in UserOp, ValidateSponsored(op)
      PROVE  PricesInForce'
  <2>1. /\ opResult[op] = "none" /\ beforeCall = <<>>
        /\ UNCHANGED <<receipts, beforeCall>>
    BY <1>3 DEF ValidateSponsored, ValidateUserOp, InOrder
  <2>2. CASE UNCHANGED <<paymasterVars, contexts, prices>>
    BY <1>1, <2>1, <2>2 DEF paymasterVars
  <2>3. CASE /\ contexts' = [contexts EXCEPT ![op] = PaymasterContext(UserOpOf(op))]
             /\ prices' = [prices EXCEPT ![op] =
                  IF contexts'[op] = NoContext THEN {}
                  ELSE {tokenGasPrice[contexts'[op][2]]}]
             /\ tokenGasPrice' = tokenGasPrice
    <3>1. SUFFICES ASSUME NEW o \in UserOp, PaidInTokens(o)'
                   PROVE  IF receipts[o].settled
                          THEN \/ receipts[o].tokens = 0
                               \/ \E price \in prices'[o] :
                                    receipts[o].tokens
                                      = (receipts[o].cost * price) \div Precision
                          ELSE PriceSeen(o, tokenGasPrice)'
      BY <2>1 DEF PricesInForce
    <3>2. CASE o = op
      <4>1. ~ receipts[op].settled
        BY <2>1 DEF InOrder, BundleInOrder, Decided
      <4>2. prices'[op] = {tokenGasPrice[contexts'[op][2]]}
        BY <1>0, <2>3, <3>1, <3>2 DEF PaidInTokens
      <4>3. QED
        BY <2>3, <3>2, <4>1, <4>2 DEF PriceSeen
    <3>3. CASE o # op
      <4>1. prices'[o] = prices[o] /\ contexts'[o] = contexts[o]
        BY <1>0, <2>3, <3>3
      <4>2. QED
        BY <2>3, <3>1, <4>1 DEF PricesInForce, PriceSeen, PaidInTokens
    <3>4. QED
      BY <3>2, <3>3
  <2>4. QED
    BY <1>3, <2>2, <2>3 DEF ValidateSponsored
<1>4. ASSUME NEW op \in UserOp, SponsoredCall(op) \/ CallRefused(op)
      PROVE  PricesInForce'
  BY <1>1, <1>4 DEF SponsoredCall, CallRefused, paymasterVars
<1>5. CASE CallReturns
  BY <1>1, <1>5 DEF CallReturns, paymasterVars
<1>6. ASSUME UNCHANGED <<contexts, prices, receipts>>, beforeCall # <<>>,
             tokenGasPrice' = beforeCall[1].price,
             beforeCall' = beforeCall
      PROVE  PricesInForce'
  BY <1>6 DEF PricesInForce, PriceSeen, PaidInTokens
<1>7. CASE CallReverts
  <2>1. beforeCall # <<>>
    BY <1>7 DEF CallReverts, ACallFails, CallFails, InOrder, InTurn
  <2>2. QED
    BY <1>6, <1>7, <2>1 DEF CallReverts, RestoreSponsor
<1>8. CASE Settle
  <2>1. PICK s \in Settlement : settling = <<s>>
    BY <1>8 DEF Settle, SponsorTyped, SettlementTyped
  <2> DEFINE op == s.op
             userOp == UserOpOf(op)
             c == contexts[op]
  <2>2. /\ op \in UserOp /\ Settled = s /\ settling[1] = s /\ settling # <<>>
        /\ beforeCall' = <<>> /\ ~ receipts[op].settled
        /\ UNCHANGED <<contexts, prices>>
    BY <1>8, <2>1 DEF Settle, Settled, Settlement, InOrder
  <2>3. PICK usage \in Usage(userOp) : PostOpReturns(usage) \/ PostOpReverts(usage)
    BY <1>8, <2>2 DEF Settle
  <2> DEFINE cost == Cost(userOp, usage)
             due == TokensDue(c, cost)
  <2>4. cost \in Nat
    <3>1. MaxCost(userOp) \in Nat /\ cost \in 0..MaxCost(userOp)
      BY <2>2, CostsOfOp
    <3>2. QED
      BY <3>1
  <2>5. due \in Nat /\ (c = NoContext => due = 0)
    BY <1>0, <2>2, <2>4, DueTyped DEF SponsorTyped, TokensDue
  <2>6. PaidInTokens(op) =>
          \E price \in prices[op] : due = (cost * price) \div Precision
    BY <2>2 DEF PricesInForce, PriceSeen, PaidInTokens, TokensDue
  <2> HIDE DEF due, cost
  <2>7. \E tokens \in {0, due} :
          receipts' = [receipts EXCEPT ![op] = Receipt(usage, cost, due, tokens)]
    <3>1. CASE PostOpReturns(usage)
      <4>1. /\ PostOp(c, due)
            /\ receipts' = [receipts EXCEPT ![op] = Receipt(usage, cost, due, Moved(c))]
        BY <2>2, <3>1 DEF PostOpReturns, cost, due
      <4>2. Moved(c) = due
        BY <1>0, <2>2, <2>5, <4>1, PostOpMoves DEF SponsorTyped
      <4>3. QED
        BY <4>1, <4>2
    <3>2. CASE PostOpReverts(usage)
      BY <2>2, <3>2 DEF PostOpReverts, cost, due
    <3>3. QED
      BY <2>3, <3>1, <3>2
  <2>8. \/ tokenGasPrice' = tokenGasPrice
        \/ beforeCall # <<>> /\ tokenGasPrice' = beforeCall[1].price
    <3>1. s.undo # <<>> => beforeCall # <<>>
      BY <2>2 DEF VerifierInv
    <3>2. QED
      BY <2>2, <2>3, <3>1 DEF PostOpReturns, PostOpReverts, Undo, RestoreSponsor
  <2>9. \A o \in UserOp : o # op => receipts'[o] = receipts[o]
    BY <1>0, <2>7
  <2>10. PICK tokens \in {0, due} : receipts'[op] = Receipt(usage, cost, due, tokens)
    BY <1>0, <2>2, <2>7
  <2>11. /\ receipts'[op].settled /\ receipts'[op].cost = cost
         /\ receipts'[op].tokens = 0 \/ receipts'[op].tokens = due
    BY <2>10 DEF Receipt
  <2>12. SUFFICES ASSUME NEW o \in UserOp, PaidInTokens(o)
                  PROVE  IF receipts'[o].settled
                         THEN \/ receipts'[o].tokens = 0
                              \/ \E price \in prices[o] :
                                   receipts'[o].tokens
                                     = (receipts'[o].cost * price) \div Precision
                         ELSE PriceSeen(o, tokenGasPrice)'
    BY <2>2 DEF PricesInForce, PaidInTokens
  <2>13. CASE o = op
    BY <2>6, <2>11, <2>12, <2>13
  <2>14. CASE o # op
    <3>1. receipts'[o] = receipts[o]
      BY <2>9, <2>14
    <3>2. QED
      BY <2>2, <2>8, <2>12, <3>1 DEF PricesInForce, PriceSeen
  <2>15. QED
    BY <2>13, <2>14
<1>9. CASE Others
  <2>1. UNCHANGED <<contexts, receipts, beforeCall>>
    BY <1>9 DEF Others
  <2>2. CASE UNCHANGED <<tokenGasPrice, prices>>
    BY <1>1, <2>1, <2>2
  <2>3. ASSUME NEW caller, PriceChange(caller)
        PROVE  PricesInForce'
    <3>1. PICK token \in Token, price \in TokenPrice :
            /\ tokenGasPrice' = [tokenGasPrice EXCEPT ![token] = price]
            /\ prices' = [op \in UserOp |->
                 IF Open(op) /\ contexts[op][2] = token THEN prices[op] \cup {price}
                 ELSE prices[op]]
      BY <2>3 DEF PriceChange, SetTokenGasPrice
    <3>2. ASSUME NEW op \in UserOp
          PROVE  prices[op] \subseteq prices'[op]
      BY <3>1
    <3>3. ASSUME NEW op \in UserOp, PaidInTokens(op), ~ receipts[op].settled
          PROVE  PriceSeen(op, tokenGasPrice)'
      <4>1. contexts[op][2] \in Token /\ DOMAIN tokenGasPrice = Token
        BY <1>0, <3>3, ContextParts DEF PaidInTokens, SponsorTyped, PaymasterTypeOK
      <4>2. CASE contexts[op][2] = token
        BY <2>1, <3>1, <3>3, <4>1, <4>2 DEF PriceSeen, Open
      <4>3. CASE contexts[op][2] # token
        <5>1. /\ tokenGasPrice'[contexts[op][2]] = tokenGasPrice[contexts[op][2]]
              /\ PriceSeen(op, tokenGasPrice)
          BY <3>1, <3>3, <4>1, <4>3 DEF PricesInForce
        <5>2. QED
          BY <2>1, <3>2, <5>1 DEF PriceSeen
      <4>4. QED
        BY <4>2, <4>3
    <3>4. ASSUME NEW op \in UserOp, PaidInTokens(op)'
          PROVE  IF receipts[op].settled
                 THEN \/ receipts[op].tokens = 0
                      \/ \E p \in prices'[op] :
                           receipts[op].tokens = (receipts[op].cost * p) \div Precision
                 ELSE /\ PriceSeen(op, tokenGasPrice)'
                      /\ beforeCall # <<>> => PriceSeen(op, beforeCall[1].price)'
      <4>1. PaidInTokens(op)
        BY <2>1, <3>4 DEF PaidInTokens
      <4>2. QED
        BY <2>1, <3>2, <3>3, <4>1 DEF PricesInForce, PriceSeen
    <3>5. QED
      BY <2>1, <3>4 DEF PricesInForce
  <2>4. QED
    BY <1>9, <2>2, <2>3
    DEF Others, PaymasterCalls, SetSponsoredAccount, Withdraw, Deposit, TokensMove,
        paymasterVars
<1>10. QED
  BY <1>2, <1>3, <1>4, <1>5, <1>7, <1>8, <1>9 DEF SNext

-----------------------------------------------------------------------------
(* The theorems.                                                           *)

(* The inductive invariant: types, the proofs used, the order in which     *)
(* operations are dealt with, and what is said of each settled operation.  *)
SponsorInv ==
  /\ SponsorTyped
  /\ VerifierInv
  /\ InOrder
  /\ EffectsPaidFor
  /\ PricesInForce

(* So all of this holds in every state that is reached.                    *)
LEMMA SponsorInvariant == SSpec => []SponsorInv
<1>1. ASSUME SInit
      PROVE  SponsorInv
  <2>1. SponsorTyped
    BY <1>1, SponsorInitTyped
  <2>2. /\ callStack = <<>> /\ settling = <<>> /\ beforeCall = <<>> /\ bundle = <<>>
        /\ executed = [k \in SessionKey |-> 0]
        /\ contexts = [op \in UserOp |-> NoContext]
        /\ receipts = [op \in UserOp |-> NoReceipt]
    BY <1>1 DEF SInit, AInit, GInit
  <2>3. VerifierInv
    BY <1>1, <2>2 DEF SInit, VerifierInit, VerifierInv, UsedAsVerified
  <2>4. \A op \in UserOp : ~ receipts[op].settled
    BY <2>2 DEF NoReceipt
  <2>5. InOrder
    BY <2>2, <2>4 DEF InOrder, InTurn, BundleInOrder
  <2>6. EffectsPaidFor
    BY <2>2 DEF EffectsPaidFor, Backed
  <2>7. PricesInForce
    BY <2>2 DEF PricesInForce, PaidInTokens
  <2>8. QED
    BY <2>1, <2>3, <2>5, <2>6, <2>7 DEF SponsorInv
<1>2. ASSUME SponsorInv, [SNext]_svars
      PROVE  SponsorInv'
  BY <1>2, SponsorTypeStep, VerifierInvStep, InOrderStep, EffectsPaidForStep,
     PricesInForceStep
  DEF SponsorInv, InOrder
<1>3. QED
  BY <1>1, <1>2, PTL DEF SSpec

(* Every variable of account, paymaster, verifier and settlement keeps its *)
(* type, the deposit included, which pays no more than was taken from it.  *)
THEOREM SponsorshipTypeCorrect == SSpec => []STypeOK
<1>1. ASSUME SponsorInv
      PROVE  STypeOK
  <2>1. ATypeOK
    <3>1. AccountTyped /\ \A i \in DOMAIN bundle : bundle[i] \in UserOp
      BY <1>1 DEF SponsorInv, SponsorTyped, AccountTyped, EntryPointTyped
    <3>2. QED
      BY <3>1
      DEF AccountTyped, GatewayTyped, OwnTyped, EntryPointTyped, ATypeOK, OpResult
  <2>2. \A op \in UserOp : contexts[op] = NoContext \/ Len(contexts[op]) = 3
    <3>1. \A op \in UserOp : contexts[op] \in Context \cup {NoContext}
      BY <1>1 DEF SponsorInv, SponsorTyped, SettlementTyped
    <3>2. QED
      BY <3>1, ContextParts
  <2>3. \A op \in UserOp :
          /\ prices[op] \subseteq TokenPrice
          /\ receipts[op].settled => opResult[op] \notin {"none", "validated"}
    BY <1>1
    DEF SponsorInv, SponsorTyped, SettlementTyped, InOrder, BundleInOrder, Decided
  <2>4. Len(settling) <= 1
    <3>1. settling = <<>> \/ \E s \in Settlement : settling = <<s>>
      BY <1>1 DEF SponsorInv, SponsorTyped, SettlementTyped
    <3>2. CASE settling = <<>>
      BY <3>2
    <3>3. CASE settling # <<>>
      <4>1. PICK s \in Settlement : settling = <<s>>
        BY <3>1, <3>3
      <4>2. Len(<<s>>) = 1
        OBVIOUS
      <4>3. Len(settling) = 1
        BY <4>1, <4>2
      <4>4. QED
        BY <4>3
    <3>4. QED
      BY <3>2, <3>3
  <2>5. settling # <<>> => callStack = <<>>
    BY <1>1 DEF SponsorInv, VerifierInv
  <2>6. QED
    BY <1>1, <2>1, <2>2, <2>3, <2>4, <2>5 DEF SponsorInv, SponsorTyped, STypeOK
<1>2. QED
  BY <1>1, SponsorInvariant, PTL

(* What a call did is kept only if what was due for it has been collected, *)
(* whatever the call does to tokens, prices and deposit.                   *)
THEOREM EffectsKeptOnlyIfPaid == SSpec => []KeptOnlyIfPaid
<1>1. SponsorInv => KeptOnlyIfPaid
  BY DEF SponsorInv, EffectsPaidFor, Backed, PaidFor, KeyOfOp, KeptOnlyIfPaid
<1>2. QED
  BY <1>1, SponsorInvariant, PTL

(* Tokens are collected for the gas that was used, at a price in force     *)
(* between validation and settlement.                                      *)
THEOREM ChargedInForce == SSpec => []ChargedAtAPriceInForce
<1>1. SponsorInv => ChargedAtAPriceInForce
  BY DEF SponsorInv, PricesInForce, ChargedAtAPriceInForce
<1>2. QED
  BY <1>1, SponsorInvariant, PTL

-----------------------------------------------------------------------------
(* The keys, when payment undoes calls.  AccountKeysSpentOnce is kept by   *)
(* every step that is one of the account by itself; for a postOp that      *)
(* reverts, the frame that is kept for it has to be one of a state in      *)
(* which the keys were accounted for, with the keys of all operations that *)
(* have been let through since among those it has as burned.               *)

UndoneSpentOnce ==
  settling # <<>> /\ settling[1].undo # <<>> =>
    SetAside(settling[1].undo[1].call.usedSessionKeys,
             settling[1].undo[1].call.executed, <<>>, 0)

(* The steps of EntryPoint and called code that are steps of the account.  *)
LEMMA AccountStepsTaken ==
  ASSUME SponsorTyped, AccountKeysSpentOnce,
         \/ \E op \in UserOp : ValidateSponsored(op) \/ SponsoredCall(op)
         \/ CallReturns \/ CallReverts
  PROVE  AccountKeysSpentOnce'
<1>1. CASE \E op \in UserOp : ValidateSponsored(op) \/ SponsoredCall(op)
  <2>1. EntryPointNext
    BY <1>1 DEF ValidateSponsored, SponsoredCall, EntryPointNext
  <2>2. QED
    BY <2>1, AccountKeysStep DEF ANext, SponsorTyped
<1>2. CASE CallReturns \/ CallReverts
  <2>1. ACallSucceeds \/ ACallFails
    BY <1>2 DEF CallReturns, CallReverts
  <2>2. OthersTurn
    BY <2>1 DEF ACallSucceeds, ACallFails, CallSucceeds, CallFails, OthersTurn
  <2>3. QED
    BY <2>1, <2>2, AccountKeysStep DEF ANext, SponsorTyped
<1>3. QED
  BY <1>1, <1>2

(* Every step keeps the account of keys, and that of what it may go back to. *)
LEMMA SponsoredKeysStep ==
  ASSUME SponsorTyped, VerifierInv, AccountKeysSpentOnce, UndoneSpentOnce,
         [SNext]_svars
  PROVE  AccountKeysSpentOnce' /\ UndoneSpentOnce'
<1>1. ASSUME UNCHANGED <<usedSessionKeys, executed, callStack, chained>>
      PROVE  AccountKeysSpentOnce'
  BY <1>1 DEF AccountKeysSpentOnce, SavedSetAside, SetAside, Endorsed
<1>2. ASSUME UNCHANGED <<settling, chained>>
      PROVE  UndoneSpentOnce'
  BY <1>2 DEF UndoneSpentOnce, SetAside, Endorsed
<1>3. CASE Prepare \/ ExecutionBegins \/ Others \/ UNCHANGED svars
  <2>1. UNCHANGED <<usedSessionKeys, executed, callStack, chained, settling>>
    BY <1>3
    DEF Prepare, SetEntryPoint, AuthorizeKey, IssueSession, ExecutionBegins,
        BeginExecution, Others, svars, avars, gvars, gatewayVars, entryPointVars,
        settlementVars
  <2>2. QED
    BY <1>1, <1>2, <2>1
<1>4. ASSUME NEW op \in UserOp, ValidateSponsored(op) \/ SponsoredCall(op)
      PROVE  AccountKeysSpentOnce' /\ UndoneSpentOnce'
  <2>1. AccountKeysSpentOnce'
    BY <1>4, AccountStepsTaken
  <2>2. settling' = <<>>
    BY <1>4 DEF ValidateSponsored, SponsoredCall
  <2>3. QED
    BY <2>1, <2>2 DEF UndoneSpentOnce
<1>5. CASE CallReturns
  <2>1. AccountKeysSpentOnce'
    BY <1>5, AccountStepsTaken
  <2>2. callStack # <<>> /\ chained' = chained
    BY <1>5
    DEF CallReturns, ACallSucceeds, CallSucceeds, CallDone, OpDone, entryPointVars
  <2>3. PICK frame : callStack = <<frame>>
    BY <2>2 DEF VerifierInv
  <2>4. Len(callStack) = 1 /\ Top = callStack[1]
    BY <2>3 DEF Top
  <2>5. SetAside(Top.saved.usedSessionKeys, Top.saved.executed, callStack, 0)
    BY <2>4 DEF AccountKeysSpentOnce, SavedSetAside
  <2>6. SetAside(Top.saved.usedSessionKeys, Top.saved.executed, <<>>, 0)
    BY <2>5, SetAsideAsBefore
  <2>7. /\ settling'[1].undo[1].call.usedSessionKeys = Top.saved.usedSessionKeys
        /\ settling'[1].undo[1].call.executed = Top.saved.executed
    BY <1>5 DEF CallReturns, UndoOfCall
  <2>8. QED
    BY <2>1, <2>2, <2>6, <2>7 DEF UndoneSpentOnce, SetAside, Endorsed
<1>6. CASE CallReverts
  <2>1. settling'[1].undo = <<>>
    BY <1>6 DEF CallReverts
  <2>2. QED
    BY <1>6, <2>1, AccountStepsTaken DEF UndoneSpentOnce
<1>7. ASSUME NEW op \in UserOp, CallRefused(op)
      PROVE  AccountKeysSpentOnce' /\ UndoneSpentOnce'
  <2>1. UNCHANGED <<usedSessionKeys, executed, callStack, chained>>
    BY <1>7 DEF CallRefused, OpRefused, OpDone, gvars, gatewayVars
  <2>2. settling'[1].undo = <<>>
    BY <1>7 DEF CallRefused
  <2>3. QED
    BY <1>1, <2>1, <2>2 DEF UndoneSpentOnce
<1>8. CASE Settle
  <2>1. settling # <<>> /\ settling' = <<>> /\ callStack = <<>>
    BY <1>8 DEF Settle, VerifierInv
  <2>2. PICK usage : PostOpReturns(usage) \/ PostOpReverts(usage)
    BY <1>8 DEF Settle
  <2>3. CASE UNCHANGED avars
    BY <1>1, <2>1, <2>3 DEF avars, gvars, gatewayVars, entryPointVars, UndoneSpentOnce
  <2>4. CASE settling[1].undo # <<>> /\ Undo(settling[1].undo[1])
    <3> DEFINE call == settling[1].undo[1].call
    <3>1. /\ usedSessionKeys' = call.usedSessionKeys /\ executed' = call.executed
          /\ UNCHANGED <<callStack, chained>>
      BY <2>4 DEF Undo, Restore
    <3>2. SetAside(call.usedSessionKeys, call.executed, <<>>, 0)
      BY <2>1, <2>4 DEF UndoneSpentOnce
    <3> HIDE DEF call
    <3>3. SetAside(usedSessionKeys, executed, callStack, 0)'
      BY <2>1, <3>1, <3>2 DEF SetAside, Endorsed
    <3>4. Len(callStack') = 0
      BY <2>1, <3>1
    <3>5. AccountKeysSpentOnce'
      BY <3>1, <3>3, <3>4 DEF AccountKeysSpentOnce
    <3>6. QED
      BY <2>1, <3>5 DEF UndoneSpentOnce
  <2>5. QED
    BY <2>2, <2>3, <2>4 DEF PostOpReturns, PostOpReverts, Settled
<1>9. QED
  BY <1>3, <1>4, <1>5, <1>6, <1>7, <1>8 DEF SNext

(* So the account of keys holds under a paymaster as well.                 *)
LEMMA SponsoredAccountInvariant == SSpec => [](SponsorInv /\ AccountInv)
<1>1. ASSUME SInit
      PROVE  AccountKeysSpentOnce /\ UndoneSpentOnce
  <2>1. /\ Len(callStack) = 0 /\ usedSessionKeys = {} /\ Endorsed = {}
        /\ chained = {} /\ \A k \in SessionKey : executed[k] = 0
        /\ settling = <<>>
    BY <1>1 DEF SInit, AInit, GInit, Endorsed
  <2>2. QED
    BY <2>1 DEF AccountKeysSpentOnce, SetAside, SpentOnce, UndoneSpentOnce
<1>2. SponsorInv /\ AccountKeysSpentOnce /\ UndoneSpentOnce /\ [SNext]_svars
        => AccountKeysSpentOnce' /\ UndoneSpentOnce'
  BY SponsoredKeysStep DEF SponsorInv
<1>3. SponsorInv /\ AccountKeysSpentOnce => AccountInv
  BY DEF SponsorInv, SponsorTyped, AccountInv
<1>4. QED
  BY <1>1, <1>2, <1>3, SponsorInvariant, PTL DEF SSpec

(* Whatever calls a reverting postOp undoes, and however often an          *)
(* operation is tried under another key, the burned keys are exactly those *)
(* of the calls that stand or are under way and of the operations let      *)
(* through: a key that was undone with its call is free again, one that    *)
(* validated an operation is not.                                          *)
THEOREM SponsoredKeysBurned == SSpec => []KeysBurnedForUse
BY SponsoredAccountInvariant, InvBurned, PTL

(* And a session key never serves two of them.                             *)
THEOREM SponsoredKeysOnce == SSpec => []KeyServesOnePurpose
BY SponsoredAccountInvariant, InvOnePurpose, PTL

(* Nor does any way of paying let an operation through that has expired:   *)
(* the paymaster adds conditions to the validation and removes none.       *)
THEOREM SponsoredNoneAfterExpiry == SSpec => NoOpAfterExpiry
<1>1. ASSUME AccountTyped, [SNext]_svars, NEW op \in UserOp,
             opResult[op] = "none", opResult'[op] = "validated"
      PROVE  InTime(op)
  <2>1. CASE Prepare \/ ExecutionBegins \/ Others \/ UNCHANGED svars
    <3>1. opResult' = opResult
      BY <2>1
      DEF Prepare, SetEntryPoint, AuthorizeKey, IssueSession, ExecutionBegins,
          BeginExecution, Others, svars, avars, gvars, gatewayVars,
          entryPointVars, settlementVars
    <3>2. QED
      BY <1>1, <3>1
  <2>2. CASE Settle
    <3>1. PICK usage : PostOpReturns(usage) \/ PostOpReverts(usage)
      BY <2>2 DEF Settle
    <3>2. opResult' = opResult \/ opResult' = [opResult EXCEPT ![Settled.op] = "reverted"]
      BY <3>1
      DEF PostOpReturns, PostOpReverts, Undo, avars, entryPointVars
    <3>3. opResult \in [UserOp -> OpResult]
      BY <1>1 DEF AccountTyped, EntryPointTyped
    <3>4. QED
      BY <1>1, <3>2, <3>3
  <2>3. CASE \/ \E p \in UserOp : ValidateSponsored(p) \/ SponsoredCall(p) \/ CallRefused(p)
             \/ CallReturns \/ CallReverts
    <3>1. EntryPointNext \/ ACallSucceeds \/ ACallFails
      BY <2>3
      DEF ValidateSponsored, SponsoredCall, CallRefused, CallReturns, CallReverts,
          EntryPointNext
    <3>2. ACallSucceeds \/ ACallFails => OthersTurn
      BY DEF ACallSucceeds, ACallFails, CallSucceeds, CallFails, OthersTurn
    <3>3. ANext
      BY <3>1, <3>2 DEF ANext
    <3>4. QED
      BY <1>1, <3>3, OnlyValidationAdmits, AdmittedInTime
  <2>4. QED
    BY <1>1, <2>1, <2>2, <2>3 DEF SNext
<1>2. AccountInv /\ [SNext]_svars =>
        [\A op \in UserOp :
           opResult[op] = "none" /\ opResult'[op] = "validated" => InTime(op)]_avars
  BY <1>1 DEF AccountInv
<1>3. QED
  BY <1>2, SponsoredAccountInvariant, PTL DEF SSpec, NoOpAfterExpiry, InTime

=============================================================================
