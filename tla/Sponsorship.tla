----------------------------- MODULE Sponsorship -----------------------------
(***************************************************************************)
(* User operations that a paymaster pays for: the account, the paymaster   *)
(* and the claim verifier under one EntryPoint.  The EntryPoint takes the  *)
(* most an operation may cost from the deposit when it is validated, and   *)
(* calls postOp when its call is over.  If postOp reverts, so does         *)
(* everything the call did; the gas is paid for all the same.              *)
(*                                                                         *)
(* What the account and the store do on their own is left to the modules   *)
(* extended here.  The setting is an account of which everything has been  *)
(* set up, whose calls all come through the EntryPoint.                    *)
(***************************************************************************)
EXTENDS HuntKeyAccount, HuntKeyPaymaster, ClaimVerifier

CONSTANT BaseFee   \* block.basefee

(* The fields of a builder are numbers; a third part of paymasterAndData is *)
(* the address of a token.                                                 *)
IsBuilder(builder) ==
  /\ builder.sender \in Account
  /\ {builder.call_gas_limit, builder.verification_gas_limit,
      builder.pre_verification_gas, builder.max_fee_per_gas,
      builder.max_priority_fee_per_gas} \subseteq Nat
  /\ LET data == builder.paymaster_and_data IN
     Len(data) >= 3 => data[3] \in Token

(* Every operation carries the builder its client made it with.            *)
ASSUME SponsorshipAssumption ==
  /\ BaseFee \in Nat
  /\ PaymasterOwner \in Address /\ Issuer \subseteq Address
  /\ \A op \in UserOp :
       /\ op.call.fn = "execute" /\ op.call = op.builder.call_data
       /\ IsBuilder(op.builder)

VARIABLES
  contexts,    \* Per operation: what validatePaymasterUserOp returned
  prices,      \* Per operation: the prices of its token since it was validated
  receipts,    \* Per operation: what it used and what was collected for it
  beforeCall,  \* The storage of paymaster and verifier when the call under way
               \* or to be settled began
  settling     \* The operation whose call is over and whose postOp is not,
               \* with the frames its call would be undone from

settlementVars == <<contexts, prices, receipts, beforeCall, settling>>
svars == <<avars, paymasterVars, verifierVars, settlementVars>>

UserOpOf(op) == Build(op.builder, <<op.session, op.intent>>)
Mode(op) ==
  LET data == op.builder.paymaster_and_data IN
  IF Len(data) < 2 THEN 0 ELSE data[2]
PaidInTokens(op) == contexts[op] # NoContext

SponsorStorage ==
  [sponsored |-> sponsoredAccounts, price |-> tokenGasPrice, deposit |-> deposit,
   collectable |-> collectable, collected |-> collected, issuer |-> issuer,
   commitments |-> claimCommitments, used |-> usedProofs,
   verifications |-> verifications]

RestoreSponsor(saved) ==
  /\ sponsoredAccounts' = saved.sponsored
  /\ tokenGasPrice' = saved.price
  /\ collectable' = saved.collectable
  /\ collected' = saved.collected
  /\ issuer' = saved.issuer
  /\ claimCommitments' = saved.commitments
  /\ usedProofs' = saved.used
  /\ verifications' = saved.verifications

NoReceipt == [settled |-> FALSE]

STypeOK ==
  /\ ATypeOK /\ PaymasterTypeOK /\ VerifierTypeOK
  /\ \A op \in UserOp :
       /\ contexts[op] = NoContext \/ Len(contexts[op]) = 3
       /\ prices[op] \subseteq TokenPrice
       /\ receipts[op].settled => opResult[op] \notin {"none", "validated"}
  /\ Len(settling) <= 1
  /\ settling # <<>> => callStack = <<>>

SInit ==
  /\ AInit /\ PaymasterInit /\ VerifierInit
  /\ contexts = [op \in UserOp |-> NoContext]
  /\ prices = [op \in UserOp |-> {}]
  /\ receipts = [op \in UserOp |-> NoReceipt]
  /\ beforeCall = <<>>
  /\ settling = <<>>

-----------------------------------------------------------------------------
(* The owner sets the account up and the key signs its certificates.       *)
Prepare ==
  /\ \/ entryPoint = NoAddress /\ SetEntryPoint(Owner, EntryPoint)
     \/ /\ entryPoint # NoAddress
        /\ \E k \in Key \ authorizedKeys : AuthorizeKey(Owner, k)
        /\ UNCHANGED <<gatewayVars, accountVars, batches, entryPointVars>>
     \/ /\ authorizedKeys = Key
        /\ \E session \in Session : IssueSession(session)
        /\ UNCHANGED <<accountVars, batches, entryPointVars>>
  /\ UNCHANGED <<paymasterVars, verifierVars, settlementVars>>

Prepared == issued # {} /\ {c[1] : c \in issued} = Session

(* The EntryPoint validates an operation and, if it names a paymaster, has *)
(* the paymaster agree and takes the most it may cost from the deposit.    *)
ValidateSponsored(op) ==
  LET userOp == UserOpOf(op) IN
  /\ Prepared /\ settling = <<>>
  /\ ValidateUserOp(op)
  /\ IF userOp.paymaster_and_data = <<>>
     THEN UNCHANGED <<paymasterVars, contexts, prices>>
     ELSE /\ userOp.paymaster_and_data[1] = Paymaster
          /\ PaymasterAgrees(userOp)
          /\ MaxCost(userOp) <= deposit
          /\ deposit' = deposit - MaxCost(userOp)
          /\ contexts' = [contexts EXCEPT ![op] = PaymasterContext(userOp)]
          /\ prices' = [prices EXCEPT ![op] =
               IF contexts'[op] = NoContext THEN {}
               ELSE {tokenGasPrice[contexts'[op][2]]}]
          /\ UNCHANGED <<sponsoredAccounts, tokenGasPrice, collectable, collected>>
  /\ UNCHANGED <<verifierVars, receipts, beforeCall, settling>>

ExecutionBegins ==
  /\ BeginExecution
  /\ UNCHANGED <<paymasterVars, verifierVars, settlementVars>>

SponsoredCall(op) ==
  /\ settling = <<>>
  /\ OpExecute(op)
  /\ beforeCall' = <<SponsorStorage>>
  /\ UNCHANGED <<paymasterVars, verifierVars, contexts, prices, receipts, settling>>

(* mutant: what is undone reaches back to before the validation.           *)
UndoPastValidation ==
  [call |-> [Top.saved EXCEPT !.usedSessionKeys =
               @ \ {Head(bundle).session.session}],
   account |-> LastBatch.saved]

UndoOfCall == [call |-> Top.saved, account |-> LastBatch.saved]

(* The call of the head of the bundle is over, one way or another.         *)
CallReturns ==
  /\ ACallSucceeds
  /\ settling' = <<[op |-> Head(bundle), undo |-> <<UndoOfCall>>]>>
  /\ UNCHANGED <<paymasterVars, verifierVars, contexts, prices, receipts, beforeCall>>

CallReverts ==
  /\ ACallFails
  /\ RestoreSponsor(beforeCall[1])
  /\ deposit' = beforeCall[1].deposit
  /\ settling' = <<[op |-> Head(bundle), undo |-> <<>>]>>
  /\ UNCHANGED <<contexts, prices, receipts, beforeCall>>

CallRefused(op) ==
  /\ settling = <<>>
  /\ OpRefused(op)
  /\ settling' = <<[op |-> op, undo |-> <<>>]>>
  /\ UNCHANGED <<paymasterVars, verifierVars, contexts, prices, receipts, beforeCall>>

-----------------------------------------------------------------------------
(* The EntryPoint settles.                                                 *)

Settled == settling[1]

LesserOf(a, b) == IF a <= b THEN a ELSE b

(* What an operation can have used, at the fee the EntryPoint charges.     *)
Usage(userOp) ==
  [call : 0..CallGasLimit(userOp),
   verification : 0..VerificationGasLimit(userOp),
   fee : {LesserOf(MaxFeePerGas(userOp), MaxPriorityFeePerGas(userOp) + BaseFee)}]

Cost(userOp, usage) ==
  (usage.call + usage.verification + userOp.pre_verification_gas) * usage.fee

(* What is left of the reservation goes back to the deposit.               *)
Refund(userOp, cost) ==
  IF userOp.paymaster_and_data = <<>> THEN 0 ELSE MaxCost(userOp) - cost

Receipt(usage, cost, due, tokens) ==
  [settled |-> TRUE, usage |-> usage, cost |-> cost, due |-> due,
   tokens |-> tokens]

(* The tokens of an operation that the step moves to the paymaster.        *)
Moved(context) ==
  IF context = NoContext THEN 0
  ELSE collected'[<<context[1], context[2]>>] - collected[<<context[1], context[2]>>]

(* postOp returns.  The EntryPoint does not call it without a context.     *)
PostOpReturns(usage) ==
  LET op == Settled.op
      userOp == UserOpOf(op)
      cost == Cost(userOp, usage)
      due == TokensDue(contexts[op], cost) IN
  /\ PostOp(contexts[op], due)
  /\ deposit' = deposit + Refund(userOp, cost)
  /\ receipts' = [receipts EXCEPT ![op] = Receipt(usage, cost, due, Moved(contexts[op]))]
  /\ UNCHANGED <<avars, sponsoredAccounts, tokenGasPrice, verifierVars>>

Undo(frame) ==
  /\ Restore(frame.call)
  /\ entryPoint' = frame.account.entryPoint
  /\ userClaims' = frame.account.userClaims
  /\ balance' = frame.account.balance
  /\ opResult' = [opResult EXCEPT ![Settled.op] = "reverted"]
  /\ RestoreSponsor(beforeCall[1])
  /\ UNCHANGED <<now, signed, issued, callStack, batches, bundle, phase, chained>>

(* postOp reverts with TokenTransferFailed, and whatever the call did is   *)
(* undone with it.                                                         *)
PostOpReverts(usage) ==
  LET op == Settled.op
      userOp == UserOpOf(op)
      cost == Cost(userOp, usage)
      due == TokensDue(contexts[op], cost) IN
  /\ ~ TransferPossible(contexts[op], due)
  /\ IF Settled.undo = <<>>
     THEN /\ deposit' = deposit + Refund(userOp, cost)
          /\ UNCHANGED <<avars, sponsoredAccounts, tokenGasPrice, collectable,
                         collected, verifierVars>>
     ELSE /\ Undo(Settled.undo[1])
          /\ deposit' = beforeCall[1].deposit + Refund(userOp, cost)
  /\ receipts' = [receipts EXCEPT ![op] = Receipt(usage, cost, due, 0)]

Settle ==
  /\ settling # <<>>
  /\ \E usage \in Usage(UserOpOf(Settled.op)) :
       PostOpReturns(usage) \/ PostOpReverts(usage)
  /\ settling' = <<>>
  /\ beforeCall' = <<>>
  /\ UNCHANGED <<contexts, prices>>

-----------------------------------------------------------------------------
(* The paymaster's and the verifier's other callers, between transactions  *)
(* or from within the call of an operation.                                *)

(* An operation validated and not settled yet sees every change of price.  *)
Open(op) ==
  PaidInTokens(op) /\ ~ receipts[op].settled

PriceChange(caller) ==
  \E token \in Token, price \in TokenPrice :
    /\ SetTokenGasPrice(caller, token, price)
    /\ prices' = [op \in UserOp |->
         IF Open(op) /\ contexts[op][2] = token THEN prices[op] \cup {price}
         ELSE prices[op]]

PaymasterCalls(callers) ==
  \/ \E caller \in callers :
       \/ PriceChange(caller)
       \/ /\ \/ \E account \in Account, sponsored \in BOOLEAN :
                  SetSponsoredAccount(caller, account, sponsored)
             \/ \E amount \in DepositAmount : Withdraw(caller, amount)
          /\ UNCHANGED prices
  \/ /\ \/ \E amount \in DepositAmount : Deposit(amount)
        \/ /\ callStack # <<>>
           /\ \E account \in Account, token \in Token : TokensMove(account, token)
     /\ UNCHANGED prices

Others ==
  /\ Prepared /\ OthersTurn /\ settling = <<>>
  /\ \/ PaymasterCalls(Callers) /\ UNCHANGED verifierVars
     \/ VNext(Callers) /\ UNCHANGED <<paymasterVars, prices>>
  /\ UNCHANGED <<avars, contexts, receipts, beforeCall, settling>>

SNext ==
  \/ Prepare
  \/ \E op \in UserOp :
       ValidateSponsored(op) \/ SponsoredCall(op) \/ CallRefused(op)
  \/ ExecutionBegins
  \/ CallReturns
  \/ CallReverts
  \/ Settle
  \/ Others

SSpec == SInit /\ [][SNext]_svars

-----------------------------------------------------------------------------
(* Properties.                                                             *)

(* What a call paid for in tokens did is kept only if they were collected: *)
(* a session key that backs an executed call was spent by an operation for *)
(* which all that was due has moved, also when an earlier operation with   *)
(* the same key was undone.  The call may itself have spent the tokens.    *)
KeptOnlyIfPaid ==
  settling = <<>> =>
    \A k \in SessionKey :
      executed[k] > 0 =>
        \E op \in UserOp :
          /\ op.call.session.session = k
          /\ receipts[op].settled /\ receipts[op].tokens = receipts[op].due

(* Tokens are collected for the gas an operation used, never for what it   *)
(* might have used, at a price that was in force at some time between its  *)
(* validation and its settlement: postOp reads the price again, and the    *)
(* call of the operation can have changed it.                              *)
ChargedAtAPriceInForce ==
  \A op \in UserOp :
    receipts[op].settled /\ PaidInTokens(op) =>
      \/ receipts[op].tokens = 0
      \/ \E price \in prices[op] :
           receipts[op].tokens = (receipts[op].cost * price) \div Precision

(* A proof is verified once, whatever is registered, revoked and           *)
(* registered again, by whichever issuer, and however many operations that *)
(* showed it were undone, which leaves it unused.                          *)
ProofUsedOnce ==
  /\ \A h \in Commitment : verifications[h] <= 1
  /\ usedProofs = {h \in Commitment : verifications[h] > 0}

-----------------------------------------------------------------------------
(* Statements of documents and comments that the code does not keep.       *)


(* IAccount.sol and the builder name the format of ERC-4337 v0.7, in which *)
(* each limit a client sets is read back as that limit: gas is charged     *)
(* within the limits and the fee that were set.  The halves of the packed  *)
(* words are in the other order.                                           *)
SpentWithinLimits ==
  \A op \in UserOp :
    receipts[op].settled =>
      /\ receipts[op].usage.call <= op.builder.call_gas_limit
      /\ receipts[op].usage.verification <= op.builder.verification_gas_limit
      /\ receipts[op].usage.fee <= op.builder.max_fee_per_gas

(* HuntKeyPaymaster.sol: a token's price is a price per unit of gas.  In   *)
(* postOp() it is multiplied by the cost, which is gas times fee.          *)
GasUsed(op) ==
  receipts[op].usage.call + receipts[op].usage.verification
    + UserOpOf(op).pre_verification_gas

ChargedPerGasUnit ==
  \A op \in UserOp :
    receipts[op].settled /\ PaidInTokens(op) =>
      \E price \in prices[op] :
        receipts[op].tokens <= (GasUsed(op) * price) \div Precision

=============================================================================
