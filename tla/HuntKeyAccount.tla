--------------------------- MODULE HuntKeyAccount ---------------------------
(***************************************************************************)
(* The smart account (contracts/src/HuntKeyAccount.sol): the gateway plus  *)
(* credential claims, batches of calls paid from the account's own ether,  *)
(* and user operations submitted through an ERC-4337 EntryPoint.           *)
(*                                                                         *)
(* The EntryPoint is not part of the repository.  Its handleOps first has  *)
(* every operation of a bundle validated, reverts the whole bundle if one  *)
(* is refused, and then makes the calls one by one, going on when one of   *)
(* them reverts.  Only bundles that pass validation are steps here.        *)
(***************************************************************************)
EXTENDS ExecutionGateway

CONSTANTS
  Claim,       \* Credential claims
  NoClaim,     \* bytes32(0)
  Batch,       \* The batches that may be passed to executeMulticall
  UserOp,      \* The user operations that may be submitted
  EntryPoint,  \* The EntryPoint contract
  UInt48,      \* 2^48, the range of validUntil
  MaxBalance   \* Bound on the ether the account holds

AbiEncode(calls) == [calls |-> calls]

IsBatch(calls) ==
  calls \in Seq([target : Address, value : CallValue, data : CallData])

(* An operation names the chain of signatures and the call to make.        *)
IsUserOp(op) ==
  /\ op.session \in Session /\ op.intent \in Intent /\ op.funds \in Nat
  /\ \/ /\ op.call.fn = "execute"
        /\ op.call.session \in Session /\ op.call.intent \in Intent
        /\ op.call.target \in Address /\ op.call.data \in CallData
     \/ /\ op.call.fn \in {"cancelRecovery", "finalizeRecovery"}
        /\ op.call.root \in Address
     \/ op.call.fn = "supportRecovery" /\ op.call.req \in RecoveryRequest

ASSUME AccountAssumption ==
  /\ NoClaim \notin Claim /\ EntryPoint \in Address \ Contract
  /\ \A i \in Intent : i.requiredClaim \in Claim \cup {NoClaim}
  /\ 0 \in CallValue
  /\ \A calls \in Batch : IsBatch(calls)
  /\ \A op \in UserOp : IsUserOp(op)
  /\ UInt48 \in Nat /\ MaxTime < UInt48
  /\ MaxBalance \in Nat

VARIABLES
  entryPoint,  \* address(0) until the owner sets it
  userClaims,  \* The <<account, claim>> pairs mapped to true
  balance,     \* The ether of the account
  batches,     \* Per call on callStack: the calls of its batch still to make,
               \* and the storage of the account to put back
  bundle,      \* The validated operations whose calls are still to be made
  phase,       \* What the EntryPoint is doing
  opResult,    \* Per operation: how its submission went
  chained      \* The operations whose whole chain of signatures was checked

accountVars == <<entryPoint, userClaims, balance>>
entryPointVars == <<bundle, phase, opResult, chained>>
avars == <<gvars, accountVars, batches, entryPointVars>>

ATypeOK ==
  /\ GTypeOK
  /\ entryPoint \in Address \cup {NoAddress}
  /\ userClaims \subseteq Address \X Claim
  /\ balance \in 0..MaxBalance
  /\ Len(batches) = Len(callStack)
  /\ \A i \in DOMAIN bundle : bundle[i] \in UserOp
  /\ phase \in {"idle", "validation", "execution"}
  /\ opResult \in [UserOp ->
                     {"none", "validated", "succeeded", "reverted", "refused"}]
  /\ chained \subseteq UserOp

AInit ==
  /\ GInit
  /\ entryPoint = NoAddress
  /\ userClaims = {}
  /\ balance = 0
  /\ batches = <<>>
  /\ bundle = <<>>
  /\ phase = "idle"
  /\ opResult = [op \in UserOp |-> "none"]
  /\ chained = {}

AccountStorage ==
  [entryPoint |-> entryPoint, userClaims |-> userClaims, balance |-> balance]

-----------------------------------------------------------------------------
(* Administration by the owner, and ether sent to the account.             *)

SetEntryPoint(caller, a) ==
  /\ caller = Owner
  /\ entryPoint' = a
  /\ UNCHANGED <<gvars, userClaims, balance, batches, entryPointVars>>

SetClaim(caller, account, claim, value) ==
  /\ caller = Owner
  /\ userClaims' = IF value THEN userClaims \cup {<<account, claim>>}
                   ELSE userClaims \ {<<account, claim>>}
  /\ UNCHANGED <<gvars, entryPoint, balance, batches, entryPointVars>>

(* validateIntent and validateDelegatedIntent leave what they are sent with *)
(* the account.                                                            *)
PaidValidation(value) ==
  /\ Validation(value)
  /\ balance + value <= MaxBalance
  /\ balance' = balance + value
  /\ UNCHANGED <<gatewayVars, entryPoint, userClaims, batches, entryPointVars>>

Receive(value) ==
  /\ balance + value <= MaxBalance
  /\ balance' = balance + value
  /\ UNCHANGED <<gvars, entryPoint, userClaims, batches, entryPointVars>>

CheckClaim(account, claim) ==
  claim = NoClaim \/ <<account, claim>> \in userClaims

-----------------------------------------------------------------------------
(* execute() and executeMulticall().                                       *)

SingleCall == [rest |-> <<>>, saved |-> AccountStorage]

AExecute(session, intent, target, data, value) ==
  /\ Execute(session, intent, target, data, value)
  /\ batches' = Append(batches, SingleCall)
  /\ UNCHANGED <<accountVars, entryPointVars>>

(* The checks of executeMulticall, in which the certificate's target does  *)
(* not occur.                                                              *)
MulticallAllowed(session, intent, calls, value) ==
  /\ session \in {c[1] : c \in issued}
  /\ identityState[session.parent] = "Active"
  /\ SessionAuthorized(session)
  /\ IntentAuthorized(session, intent)
  /\ value <= intent.maxValue
  /\ intent.functionSig = session.scope
  /\ WithinCapAndEpoch(session, intent)
  /\ Keccak(AbiEncode(calls)) = intent.callDataHash
  /\ CheckClaim(session.parent, intent.requiredClaim)

(* A call of a batch can be made: the target is the intent's and the       *)
(* account can pay, for else the EVM makes no call.                        *)
CallPossible(intent, call, funds) ==
  /\ call.target = intent.targetContract
  /\ call.value <= funds

(* executeMulticall() up to and including its first call.                  *)
ExecuteMulticall(session, intent, calls, value) ==
  /\ calls # <<>>
  /\ MulticallAllowed(session, intent, calls, value)
  /\ CallPossible(intent, Head(calls), balance + value)
  /\ balance + value <= MaxBalance
  /\ BurnSessionKey(session)
  /\ balance' = balance + value - Head(calls).value
  /\ callStack' = Append(callStack,
                    [session |-> session, intent |-> intent,
                     target |-> Head(calls).target, data |-> Head(calls).data,
                     value |-> Head(calls).value, saved |-> Storage])
  /\ batches' = Append(batches, [rest |-> Tail(calls), saved |-> AccountStorage])
  /\ UNCHANGED <<vars, executed, issued, entryPoint, userClaims, entryPointVars>>

(* An empty batch only burns the key.                                      *)
ExecuteNothing(session, intent, value) ==
  /\ MulticallAllowed(session, intent, <<>>, value)
  /\ balance + value <= MaxBalance
  /\ BurnSessionKey(session)
  /\ balance' = balance + value
  /\ executed' = [executed EXCEPT ![session.session] = @ + 1]
  /\ UNCHANGED <<vars, callStack, issued, entryPoint, userClaims, batches,
                 entryPointVars>>

LastBatch == batches[Len(batches)]
PopBatch == SubSeq(batches, 1, Len(batches) - 1)

(* A call of a batch returned and the loop makes the next one.  Neither    *)
(* the state of the identity nor the claim is looked at again.             *)
NextCall ==
  LET call == Head(LastBatch.rest) IN
  /\ callStack # <<>>
  /\ LastBatch.rest # <<>>
  /\ CallPossible(Top.intent, call, balance)
  /\ balance' = balance - call.value
  /\ callStack' = [callStack EXCEPT ![Len(callStack)] =
                     [@ EXCEPT !.target = call.target, !.data = call.data,
                               !.value = call.value]]
  /\ batches' = [batches EXCEPT ![Len(batches)].rest = Tail(@)]
  /\ UNCHANGED <<vars, usedSessionKeys, executed, issued, entryPoint, userClaims,
                 entryPointVars>>

(* The head of the bundle is dealt with, and the EntryPoint goes on.       *)
OpDone(result) ==
  /\ opResult' = [opResult EXCEPT ![Head(bundle)] = result]
  /\ bundle' = Tail(bundle)
  /\ phase' = IF Tail(bundle) = <<>> THEN "idle" ELSE "execution"
  /\ UNCHANGED chained

(* A call to execute() or executeMulticall() ends: one that the EntryPoint *)
(* made decides how the operation went.                                    *)
CallDone(result) ==
  IF phase = "execution" /\ Len(callStack) = 1
  THEN OpDone(result)
  ELSE UNCHANGED entryPointVars

ACallSucceeds ==
  /\ CallSucceeds
  /\ LastBatch.rest = <<>>
  /\ batches' = PopBatch
  /\ CallDone("succeeded")
  /\ UNCHANGED accountVars

StopAtFailure ==   \* mutant: a failed call ends the batch, the rest stands
  /\ callStack # <<>>
  /\ callStack' = Pop
  /\ batches' = PopBatch
  /\ CallDone("reverted")
  /\ UNCHANGED <<vars, usedSessionKeys, executed, issued, accountVars>>

(* The call fails, or the next one of the batch cannot be made: execute()  *)
(* or executeMulticall() reverts.                                          *)
ACallFails ==
  /\ CallFails
  /\ batches' = PopBatch
  /\ entryPoint' = LastBatch.saved.entryPoint
  /\ userClaims' = LastBatch.saved.userClaims
  /\ balance' = LastBatch.saved.balance
  /\ CallDone("reverted")

-----------------------------------------------------------------------------
(* User operations.                                                        *)

RecoveryManagement == {"cancelRecovery", "supportRecovery", "finalizeRecovery"}

NoLimit(session) == 0   \* mutant: no validUntil is returned

(* The validUntil of the packed validation data; 0 stands for no limit.    *)
ValidUntil(session) == session.expiration % UInt48

(* The EntryPoint's reading of it.                                         *)
InValidityRange(session) ==
  LET validUntil == ValidUntil(session) IN validUntil = 0 \/ now <= validUntil

ChainValid(session, intent) ==
  /\ session \in {c[1] : c \in issued}
  /\ identityState[session.parent] = "Active"
  /\ SessionAuthorized(session)
  /\ IntentAuthorized(session, intent)
  /\ WithinScope(session, intent)
  /\ WithinCapAndEpoch(session, intent)
  /\ CheckClaim(session.parent, intent.requiredClaim)

(* validateUserOp() answering success.  While the recovery of the parent   *)
(* is pending, a recovery call is let through with no look at the chain.   *)
ValidateUserOp(op) ==
  /\ callStack = <<>> /\ phase \in {"idle", "validation"}
  /\ entryPoint = EntryPoint
  /\ opResult[op] = "none"
  /\ \/ /\ identityState[op.session.parent] = "RecoveryPending"
        /\ op.call.fn \in RecoveryManagement
        /\ UNCHANGED <<usedSessionKeys, chained>>
     \/ /\ ChainValid(op.session, op.intent)
        /\ BurnSessionKey(op.session)
        /\ chained' = chained \cup {op}
  /\ op.funds <= balance
  /\ balance' = balance - op.funds
  /\ InValidityRange(op.session)
  /\ opResult' = [opResult EXCEPT ![op] = "validated"]
  /\ bundle' = Append(bundle, op)
  /\ phase' = "validation"
  /\ UNCHANGED <<vars, executed, callStack, issued, entryPoint, userClaims, batches>>

BeginExecution ==
  /\ phase = "validation"
  /\ phase' = "execution"
  /\ UNCHANGED <<gvars, accountVars, batches, bundle, opResult, chained>>

NextOp ==
  phase = "execution" /\ callStack = <<>>

(* The EntryPoint calls execute(), with no ether.                          *)
OpExecute(op) ==
  /\ NextOp /\ op = Head(bundle)
  /\ op.call.fn = "execute"
  /\ AExecute(op.call.session, op.call.intent, op.call.target, op.call.data, 0)

(* The EntryPoint calls a function of the recovery.                        *)
OpRecovery(op) ==
  /\ NextOp /\ op = Head(bundle)
  /\ \/ op.call.fn = "cancelRecovery" /\ CancelRecovery(entryPoint, op.call.root)
     \/ op.call.fn = "finalizeRecovery" /\ FinalizeRecovery(op.call.root)
     \/ /\ op.call.fn = "supportRecovery"
        /\ SupportRecovery(op.call.req.oldRoot, op.call.req)
  /\ OpDone("succeeded")
  /\ UNCHANGED <<gatewayVars, accountVars, batches>>

(* The function reverts before it calls anything.                          *)
OpRefused(op) ==
  /\ NextOp /\ op = Head(bundle)
  /\ ~ ENABLED (OpExecute(op) \/ OpRecovery(op))
  /\ OpDone("refused")
  /\ UNCHANGED <<gvars, accountVars, batches>>

EntryPointNext ==
  \/ \E op \in UserOp : ValidateUserOp(op) \/ OpExecute(op) \/ OpRecovery(op)
                          \/ OpRefused(op)
  \/ BeginExecution

-----------------------------------------------------------------------------
(* Nobody else gets a turn while the EntryPoint is between two calls.      *)
OthersTurn == phase = "idle" \/ callStack # <<>>

(* The functions of the store that take no ether.                          *)
UnpaidCalls(callers) ==
  \/ Administration(callers)
  \/ GatedPurchase
  \/ GuardianCalls
  \/ RecoveryEnd(callers)

OwnerCalls(callers) ==
  \E caller \in callers :
    \/ \E a \in {EntryPoint, NoAddress} : SetEntryPoint(caller, a)
    \/ \E account \in Key, claim \in Claim, value \in BOOLEAN :
         SetClaim(caller, account, claim, value)

ExecutionCalls ==
  \E session \in Session, intent \in Intent, value \in CallValue :
    \/ \E target \in Address, data \in CallData :
         AExecute(session, intent, target, data, value)
    \/ \E calls \in Batch : ExecuteMulticall(session, intent, calls, value)
    \/ ExecuteNothing(session, intent, value)

ANext ==
  \/ /\ OthersTurn
     /\ \/ /\ \/ callStack = <<>> /\ Environment
              \/ UnpaidCalls(Callers)
           /\ UNCHANGED <<gatewayVars, accountVars, batches, entryPointVars>>
        \/ \E value \in CallValue : PaidValidation(value)
        \/ /\ \E session \in Session : IssueSession(session)
           /\ UNCHANGED <<accountVars, batches, entryPointVars>>
        \/ OwnerCalls(Callers)
        \/ \E value \in CallValue : Receive(value)
        \/ ExecutionCalls
        \/ NextCall
        \/ ACallSucceeds
        \/ ACallFails
  \/ EntryPointNext

ASpec == AInit /\ [][ANext]_avars

-----------------------------------------------------------------------------
(* Properties.                                                             *)

Endorsing(k) == {op \in chained : op.session.session = k}

(* execute(), executeMulticall() and validateUserOp() burn keys in one     *)
(* table: whichever of them a session key is spent on first, it is good    *)
(* for no second call, batch or operation, nested or not.                  *)
KeyServesOnePurpose ==
  \A k \in SessionKey :
    executed[k] + Cardinality(InProgress(k)) + Cardinality(Endorsing(k)) <= 1

(* And none is burned for nothing: a batch that fails at any of its calls  *)
(* gives the key back, and an operation's key stays burned even when the   *)
(* call it was validated for reverts.                                      *)
KeysBurnedForUse ==
  usedSessionKeys =
    {k \in SessionKey :
       executed[k] > 0 \/ InProgress(k) # {} \/ Endorsing(k) # {}}

(* No operation is let through once its certificate has expired, not even  *)
(* a recovery call, for which validateUserOp leaves the check to the       *)
(* EntryPoint and to a validUntil cut to 48 bits.  The one exception is a  *)
(* recovery call under an expiration of 0, which reads as no limit.        *)
NoOpAfterExpiry ==
  [][\A op \in UserOp :
       opResult[op] = "none" /\ opResult'[op] = "validated" =>
         \/ now <= op.session.expiration
         \/ /\ op.session.expiration = 0
            /\ op.call.fn \in RecoveryManagement
            /\ op \notin chained']_avars

(* A call or batch happens as a whole or not at all (USER_FLOW.md: "The    *)
(* batch is atomic").  What the code at some depth of the stack finds when *)
(* it has control again is what it left (keys, claims, ether, recoveries   *)
(* and all) unless the call it made was executed, no matter what the calls *)
(* of a batch that failed half way, and those nested in them, have done.   *)
LeftAt(depth) ==
  IF depth > Len(callStack) THEN <<Storage, AccountStorage>>
  ELSE <<callStack[depth].saved, batches[depth].saved>>

TopExecuted ==
  executed'[Top.session.session] = executed[Top.session.session] + 1

FailedCallLeavesNoTrace ==
  [][\A depth \in 1..(Len(callStack) + 1) :
       depth <= Len(callStack') + 1 /\ LeftAt(depth)' # LeftAt(depth) =>
         /\ Len(callStack') = depth - 1
         /\ Len(callStack) = depth - 1 \/ TopExecuted]_avars

-----------------------------------------------------------------------------
(* Statements of the documentation that the account does not keep.         *)

(* USER_FLOW.md: while a recovery is pending, all execution is blocked.    *)
(* executeMulticall() looks at the state once: a recovery that one call of *)
(* a batch starts does not keep the batch from making the next one.        *)
BatchStopsForRecovery ==
  [][NextCall => identityState[Top.session.parent] # "RecoveryPending"]_avars

=============================================================================
