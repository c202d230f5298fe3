------------------------ MODULE HuntKeyAccountProofs ------------------------
(***************************************************************************)
(* Proofs about the smart account, for every value of its constants: calls *)
(* and batches nested to any depth, with bundles of operations between     *)
(* them, draw on one table of burned session keys.                         *)
(***************************************************************************)
EXTENDS HuntKeyAccount, ExecutionGatewayProofs

BatchCall == [target : Address, value : CallValue, data : CallData]

SavedAccount ==
  [entryPoint : Address \cup {NoAddress}, userClaims : SUBSET (Address \X Claim),
   balance : 0..MaxBalance]

BatchLeft == [rest : Seq(BatchCall), saved : SavedAccount]

OpResult == {"none", "validated", "succeeded", "reverted", "refused"}

(* The strengthening of ATypeOK: what is left of batches and bundles, that *)
(* an EntryPoint that is not idle has a bundle to deal with, and that an   *)
(* operation whose chain was checked has been submitted.                   *)
OwnTyped ==
  /\ entryPoint \in Address \cup {NoAddress}
  /\ userClaims \subseteq Address \X Claim
  /\ balance \in 0..MaxBalance
  /\ batches \in Seq(BatchLeft) /\ Len(batches) = Len(callStack)

EntryPointTyped ==
  /\ bundle \in Seq(UserOp)
  /\ phase \in {"idle", "validation", "execution"}
  /\ phase = "idle" \/ bundle # <<>>
  /\ opResult \in [UserOp -> OpResult]
  /\ chained \subseteq UserOp
  /\ \A op \in chained : opResult[op] # "none"

AccountTyped == GatewayTyped /\ OwnTyped /\ EntryPointTyped

(* The calls of other accounts that change the store, the owner's table of *)
(* claims or the ether, and leave everything else alone.                   *)
OthersAct ==
  \/ /\ Environment \/ UnpaidCalls(Callers)
     /\ UNCHANGED <<gatewayVars, accountVars, batches, entryPointVars>>
  \/ \E value \in CallValue : PaidValidation(value)
  \/ OwnerCalls(Callers)
  \/ \E value \in CallValue : Receive(value)

Issues == \E session \in Session :
            /\ IssueSession(session)
            /\ UNCHANGED <<accountVars, batches, entryPointVars>>

(* A call of execute(), from another account or from the EntryPoint.       *)
Calling ==
  \E session \in Session, intent \in Intent, target \in Address,
     data \in CallData, value \in CallValue :
    AExecute(session, intent, target, data, value)

StartsBatch ==
  \E session \in Session, intent \in Intent, calls \in Batch, value \in CallValue :
    ExecuteMulticall(session, intent, calls, value)

EmptyBatch ==
  \E session \in Session, intent \in Intent, value \in CallValue :
    ExecuteNothing(session, intent, value)

RecoversByOp == \E op \in UserOp : OpRecovery(op)

(* The steps of the account, sorted by what they do to the session keys.   *)
LEMMA AccountSteps ==
  ASSUME [ANext]_avars
  PROVE  \/ OthersAct \/ Issues \/ Calling \/ StartsBatch \/ EmptyBatch
         \/ NextCall \/ ACallSucceeds \/ ACallFails
         \/ (\E op \in UserOp : ValidateUserOp(op))
         \/ RecoversByOp
         \/ (\E op \in UserOp : OpRefused(op))
         \/ BeginExecution
         \/ UNCHANGED avars
<1>1. ASSUME NEW op \in UserOp, OpExecute(op)
      PROVE  Calling
  <2>1. /\ op.call.session \in Session /\ op.call.intent \in Intent
        /\ op.call.target \in Address /\ op.call.data \in CallData
        /\ 0 \in CallValue
    BY <1>1, AccountAssumption DEF OpExecute, IsUserOp
  <2>2. AExecute(op.call.session, op.call.intent, op.call.target, op.call.data, 0)
    BY <1>1 DEF OpExecute
  <2>3. QED
    BY <2>1, <2>2 DEF Calling
<1>2. CASE EntryPointNext
  BY <1>1, <1>2 DEF EntryPointNext, RecoversByOp
<1>3. CASE ExecutionCalls
  BY <1>3, Zenon DEF ExecutionCalls, Calling, StartsBatch, EmptyBatch
<1>4. QED
  BY <1>2, <1>3, Zenon DEF ANext, OthersAct, Issues

(* What the store's functions and the environment do is a step of Next.    *)
LEMMA StoreCalls ==
  /\ Environment \/ UnpaidCalls(Callers) => Next
  /\ \A value \in CallValue : Validation(value) => Next
  /\ RecoversByOp => Next /\ UNCHANGED <<gatewayVars, accountVars, batches>>
<1>1. ASSUME Environment \/ UnpaidCalls(Callers)
      PROVE  Next
  <2>1. Environment \/ Calls(Callers)
    BY <1>1 DEF UnpaidCalls, Calls, IntentValidation
  <2>2. QED
    BY <2>1, StoreStep, CallersAreAddresses
<1>2. ASSUME NEW value \in CallValue, Validation(value)
      PROVE  Next
  BY <1>2 DEF Next, Calls, IntentValidation
<1>3. ASSUME RecoversByOp
      PROVE  Next /\ UNCHANGED <<gatewayVars, accountVars, batches>>
  <2>1. PICK op \in UserOp : OpRecovery(op)
    BY <1>3 DEF RecoversByOp
  <2>2. CASE op.call.fn = "cancelRecovery" /\ CancelRecovery(entryPoint, op.call.root)
    <3>1. op.call.root \in Address /\ entryPoint = op.call.root
      BY <2>2, AccountAssumption DEF IsUserOp, CancelRecovery
    <3>2. QED
      BY <2>1, <2>2, <3>1 DEF OpRecovery, Next, Calls, RecoveryEnd
  <2>3. CASE op.call.fn = "finalizeRecovery" /\ FinalizeRecovery(op.call.root)
    <3>1. op.call.root \in Address
      BY <2>3, AccountAssumption DEF IsUserOp
    <3>2. QED
      BY <2>1, <2>3, <3>1 DEF OpRecovery, Next, Calls, RecoveryEnd
  <2>4. CASE /\ op.call.fn = "supportRecovery"
             /\ SupportRecovery(op.call.req.oldRoot, op.call.req)
    <3>1. op.call.req \in RecoveryRequest
      BY <2>4, AccountAssumption DEF IsUserOp
    <3>2. QED
      BY <2>1, <2>4, <3>1 DEF OpRecovery, Next, Calls, GuardianCalls
  <2>5. QED
    BY <2>1, <2>2, <2>3, <2>4 DEF OpRecovery
<1>4. QED
  BY <1>1, <1>2, <1>3

-----------------------------------------------------------------------------
(* Type correctness, part by part.                                         *)

(* While a call is under way its batch is there, and may be taken off.     *)
LEMMA BatchesTyped ==
  ASSUME OwnTyped, callStack # <<>>, GatewayTyped
  PROVE  /\ Len(batches) \in Nat \ {0}
         /\ LastBatch \in BatchLeft
         /\ PopBatch \in Seq(BatchLeft) /\ Len(PopBatch) = Len(batches) - 1
         /\ \A i \in 1..(Len(batches) - 1) : PopBatch[i] = batches[i]
<1>1. Len(batches) \in Nat \ {0} /\ batches \in Seq(BatchLeft)
  BY DEF OwnTyped, GatewayTyped
<1>2. Len(batches) \in 1..Len(batches) /\ Len(batches) - 1 \in Nat
  BY <1>1
<1>3. LastBatch \in BatchLeft
  BY <1>1, <1>2 DEF LastBatch
<1>4. /\ PopBatch \in Seq(BatchLeft) /\ Len(PopBatch) = Len(batches) - 1
      /\ \A i \in 1..(Len(batches) - 1) : PopBatch[i] = batches[i]
  <2> DEFINE n == Len(batches) - 1
  <2>1. n \in Nat /\ n \in 0..Len(batches) /\ n - 1 + 1 = n
        /\ 1 \in 1..(Len(batches) + 1)
    BY <1>1
  <2>2. /\ SubSeq(batches, 1, n) \in Seq(BatchLeft)
        /\ Len(SubSeq(batches, 1, n)) = IF 1 <= n THEN n - 1 + 1 ELSE 0
        /\ \A i \in 1..(n - 1 + 1) : SubSeq(batches, 1, n)[i] = batches[1 + i - 1]
    BY <1>1, <2>1, SubSeqProperties
  <2>3. \A i \in 1..n : 1 + i - 1 = i
    BY <2>1
  <2>4. QED
    BY <2>1, <2>2, <2>3 DEF PopBatch
<1>5. QED
  BY <1>1, <1>3, <1>4

(* What a batch saves of the account is of the type of what it restores.   *)
LEMMA AccountSaved ==
  ASSUME OwnTyped
  PROVE  AccountStorage \in SavedAccount
BY DEF OwnTyped, AccountStorage, SavedAccount

(* The first call of a batch, and the rest, are what calls are.            *)
LEMMA BatchCalls ==
  ASSUME NEW calls \in Batch, calls # <<>>
  PROVE  /\ Head(calls) \in BatchCall /\ Tail(calls) \in Seq(BatchCall)
         /\ Head(calls).target \in Address /\ Head(calls).value \in CallValue
         /\ Head(calls).data \in CallData /\ Head(calls).value \in Nat
<1>1. calls \in Seq(BatchCall)
  BY AccountAssumption DEF IsBatch, BatchCall
<1>2. Head(calls) \in BatchCall /\ Tail(calls) \in Seq(BatchCall)
  BY <1>1
<1>3. QED
  BY <1>2, MessageAssumption DEF BatchCall

(* The gateway under the account: what its own functions do to it, and     *)
(* what batches and validations do besides.                                *)
LEMMA GatewayPartStep ==
  ASSUME AccountTyped, [ANext]_avars
  PROVE  GatewayTyped'
<1>1. GatewayTyped
  BY DEF AccountTyped
<1>2. ASSUME Next \/ UNCHANGED vars, UNCHANGED gatewayVars
      PROVE  GatewayTyped'
  BY <1>1, <1>2, GatewayUntouched
<1>3. ASSUME UNCHANGED <<vars, callStack, issued>>,
             usedSessionKeys' \in SUBSET Address,
             executed' \in [SessionKey -> Nat]
      PROVE  GatewayTyped'
  <2>1. TypeOK'
    BY <1>1, <1>3, TypeStep DEF GatewayTyped, GTypeOK
  <2>2. QED
    BY <1>1, <1>3, <2>1 DEF GatewayTyped, GTypeOK, IsFrame
<1>4. ASSUME UNCHANGED <<vars, issued>>, executed' = executed,
             usedSessionKeys' \in SUBSET Address, callStack' \in Seq(Frame)
      PROVE  GatewayTyped'
  <2>1. TypeOK'
    BY <1>1, <1>4, TypeStep DEF GatewayTyped, GTypeOK
  <2>2. \A i \in DOMAIN callStack' : IsFrame(callStack'[i])
    BY <1>4, FramesTyped
  <2>3. QED
    BY <1>1, <1>4, <2>1, <2>2 DEF GatewayTyped, GTypeOK
<1>5. CASE OthersAct
  <2>1. ASSUME NEW value \in CallValue, PaidValidation(value)
        PROVE  GatewayTyped'
    BY <1>2, <2>1, StoreCalls DEF PaidValidation
  <2>2. ASSUME \/ OwnerCalls(Callers)
               \/ \E value \in CallValue : Receive(value)
        PROVE  GatewayTyped'
    BY <1>2, <2>2 DEF OwnerCalls, SetEntryPoint, SetClaim, Receive, gvars
  <2>3. QED
    BY <1>2, <1>5, <2>1, <2>2, StoreCalls DEF OthersAct
<1>6. CASE Issues \/ Calling
  <2>1. GNext
    BY <1>6 DEF Issues, Calling, AExecute, GNext
  <2>2. QED
    BY <1>1, <2>1, GatewayTypeStep
<1>7. ASSUME NEW session \in Session, NEW intent \in Intent, NEW calls \in Batch,
             NEW value \in CallValue,
             ExecuteMulticall(session, intent, calls, value)
      PROVE  GatewayTyped'
  <2> DEFINE frame == [session |-> session, intent |-> intent,
                       target |-> Head(calls).target, data |-> Head(calls).data,
                       value |-> Head(calls).value, saved |-> Storage]
  <2>1. frame \in Frame
    BY <1>1, <1>7, BatchCalls, StorageTyped DEF Frame, ExecuteMulticall
  <2>2. callStack' = Append(callStack, frame)
    BY <1>7 DEF ExecuteMulticall
  <2> HIDE DEF frame
  <2>3. callStack' \in Seq(Frame)
    BY <1>1, <2>1, <2>2 DEF GatewayTyped
  <2>4. usedSessionKeys' \in SUBSET Address
    BY <1>1, <1>7, SessionKeysAreAddresses
    DEF ExecuteMulticall, BurnSessionKey, GatewayTyped, GTypeOK
  <2>5. QED
    BY <1>4, <1>7, <2>3, <2>4 DEF ExecuteMulticall
<1>8. ASSUME NEW session \in Session, NEW intent \in Intent,
             NEW value \in CallValue, ExecuteNothing(session, intent, value)
      PROVE  GatewayTyped'
  <2>1. usedSessionKeys' \in SUBSET Address
    BY <1>1, <1>8, SessionKeysAreAddresses
    DEF ExecuteNothing, BurnSessionKey, GatewayTyped, GTypeOK
  <2>2. executed' \in [SessionKey -> Nat]
    BY <1>1, <1>8, SessionKeysAreAddresses
    DEF ExecuteNothing, GatewayTyped, GTypeOK
  <2>3. QED
    BY <1>3, <1>8, <2>1, <2>2 DEF ExecuteNothing
<1>9. CASE NextCall
  <2> DEFINE call == Head(LastBatch.rest)
             top == [Top EXCEPT !.target = call.target, !.data = call.data,
                                !.value = call.value]
  <2>1. callStack # <<>> /\ LastBatch.rest # <<>>
    BY <1>9 DEF NextCall
  <2>2. call \in BatchCall
    BY <1>1, <2>1, BatchesTyped DEF AccountTyped, BatchLeft
  <2>3. Top \in Frame
    BY <1>1, <2>1, TopAndPop
  <2>4. top \in Frame
    BY <2>2, <2>3 DEF Frame, BatchCall
  <2>5. callStack' = [callStack EXCEPT ![Len(callStack)] = top]
    BY <1>9 DEF NextCall, Top
  <2> HIDE DEF top
  <2>6. callStack' \in Seq(Frame)
    <3>1. callStack \in Seq(Frame) /\ Len(callStack) \in 1..Len(callStack)
      BY <1>1, <2>1, TopAndPop DEF GatewayTyped
    <3>2. QED
      BY <2>4, <2>5, <3>1, ExceptSeq
  <2>7. usedSessionKeys' \in SUBSET Address
    BY <1>1, <1>9 DEF NextCall, GatewayTyped, GTypeOK
  <2>8. QED
    BY <1>4, <1>9, <2>6, <2>7 DEF NextCall
<1>10. CASE ACallSucceeds \/ ACallFails
  <2>1. GNext
    BY <1>10 DEF ACallSucceeds, ACallFails, GNext
  <2>2. QED
    BY <1>1, <2>1, GatewayTypeStep
<1>11. ASSUME NEW op \in UserOp, ValidateUserOp(op)
       PROVE  GatewayTyped'
  <2>1. op.session \in Session
    BY AccountAssumption DEF IsUserOp
  <2>2. usedSessionKeys' \in SUBSET Address
    BY <1>1, <1>11, <2>1, SessionKeysAreAddresses
    DEF ValidateUserOp, BurnSessionKey, GatewayTyped, GTypeOK
  <2>3. executed' \in [SessionKey -> Nat]
    BY <1>1, <1>11 DEF ValidateUserOp, GatewayTyped, GTypeOK
  <2>4. QED
    BY <1>3, <1>11, <2>2, <2>3 DEF ValidateUserOp
<1>12. CASE RecoversByOp
  BY <1>2, <1>12, StoreCalls
<1>13. CASE \/ \E op \in UserOp : OpRefused(op)
            \/ BeginExecution \/ UNCHANGED avars
  BY <1>2, <1>13 DEF OpRefused, BeginExecution, avars, gvars
<1>14. QED
  BY <1>5, <1>6, <1>7, <1>8, <1>9, <1>10, <1>11, <1>12, <1>13, AccountSteps
  DEF StartsBatch, EmptyBatch

(* The ether, the claims and the batches of the account.                   *)
LEMMA OwnPartStep ==
  ASSUME AccountTyped, [ANext]_avars
  PROVE  OwnTyped'
<1>0. /\ GatewayTyped /\ OwnTyped /\ Len(callStack) \in Nat
      /\ callStack \in Seq(Frame) /\ batches \in Seq(BatchLeft)
      /\ balance \in Nat /\ MaxBalance \in Nat /\ CallValue \subseteq Nat
      /\ Len(batches) = Len(callStack)
  BY AccountAssumption, MessageAssumption DEF AccountTyped, GatewayTyped, OwnTyped
<1>1. ASSUME UNCHANGED <<accountVars, batches, callStack>>
      PROVE  OwnTyped'
  BY <1>0, <1>1 DEF OwnTyped, accountVars
<1>2. ASSUME UNCHANGED <<entryPoint, userClaims, batches, callStack>>,
             balance' \in 0..MaxBalance
      PROVE  OwnTyped'
  BY <1>0, <1>2 DEF OwnTyped
<1>3. CASE OthersAct
  <2>1. ASSUME Environment \/ UnpaidCalls(Callers),
               UNCHANGED <<gatewayVars, accountVars, batches, entryPointVars>>
        PROVE  OwnTyped'
    BY <1>1, <2>1 DEF gatewayVars
  <2>2. ASSUME NEW value \in CallValue, PaidValidation(value) \/ Receive(value)
        PROVE  OwnTyped'
    <3>1. balance' = balance + value /\ balance + value <= MaxBalance
      BY <2>2 DEF PaidValidation, Receive
    <3>2. balance' \in 0..MaxBalance
      BY <1>0, <3>1
    <3>3. QED
      BY <1>2, <2>2, <3>2 DEF PaidValidation, Receive, gvars, gatewayVars
  <2>3. ASSUME NEW caller \in Callers, NEW a \in {EntryPoint, NoAddress},
               SetEntryPoint(caller, a)
        PROVE  OwnTyped'
    BY <1>0, <2>3, AccountAssumption DEF SetEntryPoint, OwnTyped, gvars, gatewayVars
  <2>4. ASSUME NEW caller \in Callers, NEW account \in Key, NEW claim \in Claim,
               NEW value \in BOOLEAN, SetClaim(caller, account, claim, value)
        PROVE  OwnTyped'
    <3>1. userClaims' \subseteq Address \X Claim
      BY <1>0, <2>4, AddressAssumption DEF SetClaim, OwnTyped
    <3>2. QED
      BY <1>0, <2>4, <3>1 DEF SetClaim, OwnTyped, gvars, gatewayVars
  <2>5. QED
    BY <1>3, <2>1, <2>2, <2>3, <2>4 DEF OthersAct, OwnerCalls
<1>4. CASE Issues
  BY <1>1, <1>4 DEF Issues, IssueSession
<1>5. CASE Calling
  <2>1. PICK frame : callStack' = Append(callStack, frame)
    BY <1>5 DEF Calling, AExecute, Execute
  <2>2. batches' = Append(batches, SingleCall) /\ UNCHANGED accountVars
    BY <1>5 DEF Calling, AExecute
  <2>3. SingleCall \in BatchLeft
    BY <1>0, AccountSaved DEF SingleCall, BatchLeft
  <2>4. batches' \in Seq(BatchLeft) /\ Len(batches') = Len(batches) + 1
    BY <1>0, <2>2, <2>3
  <2>5. Len(callStack') = Len(callStack) + 1
    BY <1>0, <2>1
  <2>6. QED
    BY <1>0, <2>2, <2>4, <2>5 DEF OwnTyped, accountVars
<1>6. ASSUME NEW session \in Session, NEW intent \in Intent, NEW calls \in Batch,
             NEW value \in CallValue,
             ExecuteMulticall(session, intent, calls, value)
      PROVE  OwnTyped'
  <2>1. /\ Tail(calls) \in Seq(BatchCall) /\ Head(calls).value \in Nat
        /\ Head(calls).value <= balance + value
    BY <1>6, BatchCalls DEF ExecuteMulticall, CallPossible
  <2> DEFINE left == [rest |-> Tail(calls), saved |-> AccountStorage]
  <2>2. left \in BatchLeft
    BY <1>0, <2>1, AccountSaved DEF BatchLeft
  <2>3. batches' = Append(batches, left)
    BY <1>6 DEF ExecuteMulticall
  <2> HIDE DEF left
  <2>4. batches' \in Seq(BatchLeft) /\ Len(batches') = Len(batches) + 1
    BY <1>0, <2>2, <2>3
  <2>5. PICK frame : callStack' = Append(callStack, frame)
    BY <1>6 DEF ExecuteMulticall
  <2>6. Len(callStack') = Len(callStack) + 1
    BY <1>0, <2>5
  <2>7. balance' = balance + value - Head(calls).value /\ balance + value <= MaxBalance
    BY <1>6 DEF ExecuteMulticall
  <2>8. balance' \in 0..MaxBalance
    BY <1>0, <2>1, <2>7
  <2>9. QED
    BY <1>0, <1>6, <2>4, <2>6, <2>8 DEF ExecuteMulticall, OwnTyped
<1>7. ASSUME NEW session \in Session, NEW intent \in Intent,
             NEW value \in CallValue, ExecuteNothing(session, intent, value)
      PROVE  OwnTyped'
  <2>1. balance' = balance + value /\ balance + value <= MaxBalance
    BY <1>7 DEF ExecuteNothing
  <2>2. balance' \in 0..MaxBalance
    BY <1>0, <2>1
  <2>3. QED
    BY <1>2, <1>7, <2>2 DEF ExecuteNothing
<1>8. CASE NextCall
  <2> DEFINE left == [LastBatch EXCEPT !.rest = Tail(@)]
  <2>1. callStack # <<>> /\ LastBatch.rest # <<>>
    BY <1>8 DEF NextCall
  <2>2. LastBatch \in BatchLeft /\ Len(batches) \in 1..Len(batches)
    BY <1>0, <2>1, BatchesTyped
  <2>3. LastBatch.rest \in Seq(BatchCall)
    BY <2>2 DEF BatchLeft
  <2>4. Head(LastBatch.rest) \in BatchCall /\ Tail(LastBatch.rest) \in Seq(BatchCall)
    BY <2>1, <2>3
  <2>5. left \in BatchLeft
    BY <2>2, <2>4 DEF BatchLeft
  <2>6. batches' = [batches EXCEPT ![Len(batches)] = left]
    BY <1>8 DEF NextCall, LastBatch
  <2> HIDE DEF left
  <2>7. batches' \in Seq(BatchLeft) /\ Len(batches') = Len(batches)
    BY <1>0, <2>2, <2>5, <2>6, ExceptSeq
  <2>8. Len(callStack') = Len(callStack)
    <3> DEFINE top == [Top EXCEPT !.target = Head(LastBatch.rest).target,
                                  !.data = Head(LastBatch.rest).data,
                                  !.value = Head(LastBatch.rest).value]
    <3>1. callStack' = [callStack EXCEPT ![Len(callStack)] = top]
      BY <1>8 DEF NextCall, Top
    <3> HIDE DEF top
    <3>2. QED
      BY <1>0, <3>1
  <2>9. balance' \in 0..MaxBalance
    <3>1. Head(LastBatch.rest).value \in Nat
      BY <1>0, <2>4 DEF BatchCall
    <3>2. /\ balance' = balance - Head(LastBatch.rest).value
          /\ Head(LastBatch.rest).value <= balance
      BY <1>8 DEF NextCall, CallPossible
    <3>3. balance \in 0..MaxBalance
      BY <1>0 DEF OwnTyped
    <3>4. QED
      BY <1>0, <3>1, <3>2, <3>3
  <2>10. QED
    BY <1>0, <1>8, <2>7, <2>8, <2>9 DEF NextCall, OwnTyped
<1>9. ASSUME callStack # <<>>, callStack' = Pop, batches' = PopBatch
      PROVE  batches' \in Seq(BatchLeft) /\ Len(batches') = Len(callStack')
  BY <1>0, <1>9, BatchesTyped, TopAndPop
<1>10. CASE ACallSucceeds
  <2>1. callStack # <<>> /\ callStack' = Pop /\ batches' = PopBatch
    BY <1>10 DEF ACallSucceeds, CallSucceeds
  <2>2. QED
    BY <1>0, <1>9, <1>10, <2>1 DEF ACallSucceeds, OwnTyped, accountVars
<1>11. CASE ACallFails
  <2>1. callStack # <<>> /\ callStack' = Pop /\ batches' = PopBatch
    BY <1>11 DEF ACallFails, CallFails
  <2>2. LastBatch.saved \in SavedAccount
    BY <1>0, <2>1, BatchesTyped DEF BatchLeft
  <2>3. QED
    BY <1>9, <1>11, <2>1, <2>2 DEF ACallFails, OwnTyped, SavedAccount
<1>12. ASSUME NEW op \in UserOp, ValidateUserOp(op)
       PROVE  OwnTyped'
  <2>1. /\ op.funds \in Nat /\ op.funds <= balance
        /\ balance' = balance - op.funds
    BY <1>12, AccountAssumption DEF ValidateUserOp, IsUserOp
  <2>2. balance' \in 0..MaxBalance
    <3>1. balance \in 0..MaxBalance
      BY <1>0 DEF OwnTyped
    <3>2. QED
      BY <1>0, <2>1, <3>1
  <2>3. QED
    BY <1>2, <1>12, <2>2 DEF ValidateUserOp
<1>13. CASE RecoversByOp
  BY <1>1, <1>13, StoreCalls DEF gatewayVars
<1>14. CASE \/ \E op \in UserOp : OpRefused(op)
            \/ BeginExecution \/ UNCHANGED avars
  BY <1>1, <1>14 DEF OpRefused, BeginExecution, avars, gvars, gatewayVars
<1>15. QED
  BY <1>3, <1>4, <1>5, <1>6, <1>7, <1>8, <1>10, <1>11, <1>12, <1>13, <1>14,
     AccountSteps
  DEF StartsBatch, EmptyBatch

(* Where the EntryPoint stands.                                            *)
LEMMA OpDoneTyped ==
  ASSUME EntryPointTyped, phase = "execution",
         NEW result \in OpResult \ {"none"}, OpDone(result)
  PROVE  EntryPointTyped'
<1>1. bundle \in Seq(UserOp) /\ bundle # <<>>
  BY DEF EntryPointTyped
<1>2. Head(bundle) \in UserOp /\ Tail(bundle) \in Seq(UserOp)
  BY <1>1
<1>3. opResult' \in [UserOp -> OpResult]
  BY <1>2 DEF OpDone, EntryPointTyped
<1>4. \A op \in chained' : opResult'[op] # "none"
  BY <1>2 DEF OpDone, EntryPointTyped
<1>5. QED
  BY <1>2, <1>3, <1>4 DEF OpDone, EntryPointTyped

(* Every step keeps the types of bundle, phase and results.                *)
LEMMA EntryPointPartStep ==
  ASSUME AccountTyped, [ANext]_avars
  PROVE  EntryPointTyped'
<1>0. EntryPointTyped
  BY DEF AccountTyped
<1>1. ASSUME UNCHANGED entryPointVars
      PROVE  EntryPointTyped'
  BY <1>0, <1>1 DEF EntryPointTyped, entryPointVars
<1>2. CASE OthersAct
  BY <1>1, <1>2 DEF OthersAct, PaidValidation, OwnerCalls, SetEntryPoint, SetClaim,
                    Receive
<1>3. CASE Issues
  BY <1>1, <1>3 DEF Issues
<1>4. CASE Calling
  BY <1>1, <1>4 DEF Calling, AExecute
<1>5. CASE StartsBatch \/ EmptyBatch
  BY <1>1, <1>5 DEF StartsBatch, EmptyBatch, ExecuteMulticall, ExecuteNothing
<1>6. CASE NextCall
  BY <1>1, <1>6 DEF NextCall
<1>7. CASE ACallSucceeds \/ ACallFails
  <2>1. PICK result \in {"succeeded", "reverted"} : CallDone(result)
    BY <1>7 DEF ACallSucceeds, ACallFails
  <2>2. QED
    BY <1>0, <1>1, <2>1, OpDoneTyped DEF CallDone, OpResult
<1>8. ASSUME NEW op \in UserOp, ValidateUserOp(op)
      PROVE  EntryPointTyped'
  <2>1. bundle' \in Seq(UserOp) /\ bundle' # <<>>
    BY <1>0, <1>8 DEF ValidateUserOp, EntryPointTyped
  <2>2. opResult' \in [UserOp -> OpResult]
    BY <1>0, <1>8 DEF ValidateUserOp, EntryPointTyped, OpResult
  <2>3. /\ chained' \subseteq UserOp
        /\ \A o \in chained' : opResult'[o] # "none"
    BY <1>0, <1>8 DEF ValidateUserOp, EntryPointTyped
  <2>4. phase' = "validation"
    BY <1>8 DEF ValidateUserOp
  <2>5. QED
    BY <2>1, <2>2, <2>3, <2>4 DEF EntryPointTyped
<1>9. CASE RecoversByOp
  BY <1>0, <1>9, OpDoneTyped DEF RecoversByOp, OpRecovery, NextOp, OpResult
<1>10. ASSUME NEW op \in UserOp, OpRefused(op)
       PROVE  EntryPointTyped'
  BY <1>0, <1>10, OpDoneTyped DEF OpRefused, NextOp, OpResult
<1>11. CASE BeginExecution
  BY <1>0, <1>11 DEF BeginExecution, EntryPointTyped
<1>12. CASE UNCHANGED avars
  BY <1>1, <1>12 DEF avars
<1>13. QED
  BY <1>2, <1>3, <1>4, <1>5, <1>6, <1>7, <1>8, <1>9, <1>10, <1>11, <1>12,
     AccountSteps

(* The types hold initially,                                               *)
LEMMA AccountInitTyped ==
  ASSUME AInit
  PROVE  AccountTyped
<1>1. GatewayTyped
  BY GatewayInitTyped DEF AInit
<1>2. OwnTyped
  <2>1. callStack = <<>> /\ batches = <<>> /\ 0 \in 0..MaxBalance
    BY AccountAssumption DEF AInit, GInit
  <2>2. batches \in Seq(BatchLeft) /\ Len(batches) = Len(callStack)
    BY <2>1
  <2>3. QED
    BY <2>1, <2>2 DEF AInit, OwnTyped
<1>3. EntryPointTyped
  <2>1. bundle \in Seq(UserOp)
    BY DEF AInit
  <2>2. QED
    BY <2>1 DEF AInit, EntryPointTyped, OpResult
<1>4. QED
  BY <1>1, <1>2, <1>3 DEF AccountTyped

(* and every step keeps them.                                              *)
LEMMA AccountTypeStep ==
  ASSUME AccountTyped, [ANext]_avars
  PROVE  AccountTyped'
BY GatewayPartStep, OwnPartStep, EntryPointPartStep DEF AccountTyped

(* Every variable of the account keeps its type: the ether stays in range  *)
(* through payments, batches and reverts, and a frame of the stack has its *)
(* batch.                                                                  *)
THEOREM AccountTypeCorrect == ASpec => []ATypeOK
<1>1. ASSUME AccountTyped
      PROVE  ATypeOK
  <2>1. \A i \in DOMAIN bundle : bundle[i] \in UserOp
    BY <1>1 DEF AccountTyped, EntryPointTyped
  <2>2. QED
    BY <1>1, <2>1
    DEF AccountTyped, GatewayTyped, OwnTyped, EntryPointTyped, ATypeOK, OpResult
<1>2. QED
  BY <1>1, AccountInitTyped, AccountTypeStep, PTL DEF ASpec

-----------------------------------------------------------------------------
(* The burned keys.  Those of the operations let through are set aside:    *)
(* they are validated between transactions, so no revert gives them back,  *)
(* and the rest of the table is accounted for as in the gateway.           *)
Endorsed == {op.session.session : op \in chained}

SetAside(used, exec, stack, n) ==
  Endorsed \subseteq used /\ SpentOnce(used \ Endorsed, exec, stack, n)

SavedSetAside(stack, n) ==
  SetAside(stack[n].saved.usedSessionKeys, stack[n].saved.executed, stack, n - 1)

AccountKeysSpentOnce ==
  /\ \A o, p \in chained : o.session.session = p.session.session => o = p
  /\ SetAside(usedSessionKeys, executed, callStack, Len(callStack))
  /\ \A n \in 1..Len(callStack) : SavedSetAside(callStack, n)

(* As in the gateway, only the keys of frames further out matter.          *)
LEMMA SetAsideAsBefore ==
  ASSUME NEW used, NEW exec, NEW s, NEW t, NEW n \in Nat,
         \A i \in 1..n : KeyOf(t[i]) = KeyOf(s[i]), SetAside(used, exec, s, n)
  PROVE  SetAside(used, exec, t, n)
BY OuterFramesDecide DEF SetAside

(* A frame keeps its account as long as it and those further out keep      *)
(* their keys and what they saved.                                         *)
LEMMA SavedSetAsideAsBefore ==
  ASSUME NEW s, NEW t, NEW m \in Nat, NEW n \in 1..m,
         \A i \in 1..m : KeyOf(t[i]) = KeyOf(s[i]) /\ t[i].saved = s[i].saved,
         SavedSetAside(s, n)
  PROVE  SavedSetAside(t, n)
<1>1. /\ n - 1 \in Nat /\ t[n].saved = s[n].saved
      /\ \A i \in 1..(n - 1) : KeyOf(t[i]) = KeyOf(s[i])
  OBVIOUS
<1>2. QED
  BY <1>1, SetAsideAsBefore DEF SavedSetAside

(* Beginning a call under a key that is not burned, as execute() and       *)
(* executeMulticall() do it.                                               *)
LEMMA CallPushed ==
  ASSUME AccountTyped, AccountKeysSpentOnce, NEW frame,
         callStack' = Append(callStack, frame), frame.saved = Storage,
         KeyOf(frame) \in SessionKey, KeyOf(frame) \notin usedSessionKeys,
         usedSessionKeys' = usedSessionKeys \cup {KeyOf(frame)},
         UNCHANGED <<executed, chained>>
  PROVE  AccountKeysSpentOnce'
<1> DEFINE depth == Len(callStack)
           k == KeyOf(frame)
<1>1. /\ depth \in Nat /\ executed \in [SessionKey -> Nat]
      /\ callStack \in Seq(Frame)
  BY DEF AccountTyped, GatewayTyped, GTypeOK
<1>2. /\ Len(callStack') = depth + 1 /\ callStack'[depth + 1] = frame
      /\ \A i \in 1..depth : callStack'[i] = callStack[i]
  BY <1>1
<1>3. /\ \A i \in 1..depth : KeyOf(callStack'[i]) = KeyOf(callStack[i])
                               /\ callStack'[i].saved = callStack[i].saved
      /\ KeyOf(callStack'[depth + 1]) = k
  BY <1>2
<1>4. /\ Endorsed \subseteq usedSessionKeys
      /\ SpentOnce(usedSessionKeys \ Endorsed, executed, callStack, depth)
      /\ k \notin usedSessionKeys \ Endorsed
  BY DEF AccountKeysSpentOnce, SetAside
<1>5. SpentOnce((usedSessionKeys \ Endorsed) \cup {k}, executed, callStack', depth + 1)
  BY <1>1, <1>3, <1>4, CallBegins
<1>6. /\ Endorsed' = Endorsed
      /\ usedSessionKeys' \ Endorsed = (usedSessionKeys \ Endorsed) \cup {k}
  BY <1>4 DEF Endorsed
<1>7. SetAside(usedSessionKeys, executed, callStack, Len(callStack))'
  BY <1>2, <1>4, <1>5, <1>6 DEF SetAside
<1>8. /\ frame.saved.usedSessionKeys = usedSessionKeys
      /\ frame.saved.executed = executed
  BY DEF Storage
<1>9. ASSUME NEW n \in 1..(depth + 1)
      PROVE  SavedSetAside(callStack, n)'
  <2>1. CASE n \in 1..depth
    <3>1. SavedSetAside(callStack', n)
      BY <1>1, <1>3, <2>1, SavedSetAsideAsBefore DEF AccountKeysSpentOnce
    <3>2. QED
      BY <1>6, <3>1 DEF SavedSetAside, SetAside
  <2>2. CASE n = depth + 1
    <3>1. SetAside(usedSessionKeys, executed, callStack', depth)
      BY <1>1, <1>3, SetAsideAsBefore DEF AccountKeysSpentOnce
    <3>2. SetAside(callStack'[n].saved.usedSessionKeys, callStack'[n].saved.executed,
                   callStack', n - 1)
      BY <1>1, <1>2, <1>8, <2>2, <3>1
    <3>3. QED
      BY <1>6, <3>2 DEF SavedSetAside, SetAside
  <2>3. QED
    BY <1>1, <2>1, <2>2
<1>10. QED
  BY <1>2, <1>7, <1>9 DEF AccountKeysSpentOnce

(* Every step keeps the account of keys.                                   *)
LEMMA AccountKeysStep ==
  ASSUME AccountTyped, AccountKeysSpentOnce, [ANext]_avars
  PROVE  AccountKeysSpentOnce'
<1> DEFINE depth == Len(callStack)
<1>0. /\ depth \in Nat /\ executed \in [SessionKey -> Nat]
      /\ callStack \in Seq(Frame) /\ GatewayTyped
      /\ Endorsed \subseteq usedSessionKeys
      /\ SpentOnce(usedSessionKeys \ Endorsed, executed, callStack, depth)
  BY DEF AccountTyped, GatewayTyped, GTypeOK, AccountKeysSpentOnce, SetAside
<1>1. ASSUME UNCHANGED <<usedSessionKeys, executed, callStack, chained>>
      PROVE  AccountKeysSpentOnce'
  BY <1>1 DEF AccountKeysSpentOnce, SavedSetAside, SetAside, Endorsed
<1>2. CASE OthersAct \/ Issues
  BY <1>1, <1>2
  DEF OthersAct, Issues, IssueSession, PaidValidation, OwnerCalls, SetEntryPoint,
      SetClaim, Receive, gvars, gatewayVars, entryPointVars
<1>3. ASSUME NEW session \in Session, NEW intent \in Intent,
             NEW target \in Address, NEW data \in CallData,
             NEW value \in CallValue,
             AExecute(session, intent, target, data, value)
      PROVE  AccountKeysSpentOnce'
  <2> DEFINE frame == [session |-> session, intent |-> intent,
                       target |-> target, data |-> data, value |-> value,
                       saved |-> Storage]
  <2>1. callStack' = Append(callStack, frame) /\ UNCHANGED <<executed, chained>>
    BY <1>3 DEF AExecute, Execute, entryPointVars
  <2>2. frame.saved = Storage /\ KeyOf(frame) = session.session
    BY DEF KeyOf
  <2> HIDE DEF frame
  <2>3. /\ session.session \notin usedSessionKeys
        /\ usedSessionKeys' = usedSessionKeys \cup {session.session}
    BY <1>3 DEF AExecute, Execute, ExecuteAllowed, SessionAuthorized, BurnSessionKey
  <2>4. QED
    BY <2>1, <2>2, <2>3, CallPushed, SessionKeysAreAddresses
<1>4. ASSUME NEW session \in Session, NEW intent \in Intent, NEW calls \in Batch,
             NEW value \in CallValue,
             ExecuteMulticall(session, intent, calls, value)
      PROVE  AccountKeysSpentOnce'
  <2> DEFINE frame == [session |-> session, intent |-> intent,
                       target |-> Head(calls).target, data |-> Head(calls).data,
                       value |-> Head(calls).value, saved |-> Storage]
  <2>1. callStack' = Append(callStack, frame) /\ UNCHANGED <<executed, chained>>
    BY <1>4 DEF ExecuteMulticall, entryPointVars
  <2>2. frame.saved = Storage /\ KeyOf(frame) = session.session
    BY DEF KeyOf
  <2> HIDE DEF frame
  <2>3. /\ session.session \notin usedSessionKeys
        /\ usedSessionKeys' = usedSessionKeys \cup {session.session}
    BY <1>4
    DEF ExecuteMulticall, MulticallAllowed, SessionAuthorized, BurnSessionKey
  <2>4. QED
    BY <2>1, <2>2, <2>3, CallPushed, SessionKeysAreAddresses
<1>5. ASSUME UNCHANGED chained, NEW m \in 0..depth,
             Len(callStack') = m,
             \A i \in 1..m : /\ KeyOf(callStack'[i]) = KeyOf(callStack[i])
                             /\ callStack'[i].saved = callStack[i].saved,
             SetAside(usedSessionKeys', executed', callStack, m)
      PROVE  AccountKeysSpentOnce'
  <2>1. Endorsed' = Endorsed
    BY <1>5 DEF Endorsed
  <2>2. m \in Nat
    BY <1>0
  <2>3. SetAside(usedSessionKeys', executed', callStack', m)
    BY <1>5, <2>2, SetAsideAsBefore
  <2>4. SetAside(usedSessionKeys, executed, callStack, Len(callStack))'
    BY <1>5, <2>1, <2>3 DEF SetAside
  <2>5. ASSUME NEW n \in 1..m
        PROVE  SavedSetAside(callStack, n)'
    <3>1. SavedSetAside(callStack, n)
      BY <1>0, <1>5 DEF AccountKeysSpentOnce
    <3>2. SavedSetAside(callStack', n)
      BY <1>5, <2>2, <3>1, SavedSetAsideAsBefore
    <3>3. QED
      BY <2>1, <3>2 DEF SavedSetAside, SetAside
  <2>6. QED
    BY <1>5, <2>4, <2>5 DEF AccountKeysSpentOnce
<1>6. ASSUME NEW session \in Session, NEW intent \in Intent,
             NEW value \in CallValue, ExecuteNothing(session, intent, value)
      PROVE  AccountKeysSpentOnce'
  <2> DEFINE k == session.session
  <2>1. /\ k \in SessionKey /\ k \notin usedSessionKeys
        /\ usedSessionKeys' = usedSessionKeys \cup {k}
        /\ executed' = [executed EXCEPT ![k] = @ + 1]
        /\ UNCHANGED <<callStack, chained>>
    BY <1>6, SessionKeysAreAddresses
    DEF ExecuteNothing, MulticallAllowed, SessionAuthorized, BurnSessionKey,
        entryPointVars
  <2> HIDE DEF k
  <2>2. executed[k] = 0 /\ \A i \in 1..depth : KeyOf(callStack[i]) # k
    BY <1>0, <2>1 DEF SpentOnce
  <2>3. /\ executed'[k] = 1
        /\ \A x \in SessionKey \ {k} : executed'[x] = executed[x]
    BY <1>0, <2>1, <2>2
  <2>4. \A i \in 1..depth : KeyOf(callStack[i]) \in SessionKey
    <3>1. ASSUME NEW i \in 1..depth
          PROVE  callStack[i].session \in Session
      BY <1>0, FramesTyped DEF IsFrame
    <3>2. QED
      BY <3>1, SessionKeysAreAddresses DEF KeyOf
  <2>5. /\ \A x \in SessionKey : executed'[x] <= 1
        /\ \A i \in 1..depth : executed'[KeyOf(callStack[i])] = 0
    BY <1>0, <2>2, <2>3, <2>4 DEF SpentOnce
  <2>6. usedSessionKeys' \ Endorsed = (usedSessionKeys \ Endorsed) \cup {k}
    BY <1>0, <2>1
  <2>7. (usedSessionKeys \ Endorsed) \cup {k} =
          {x \in SessionKey :
             executed'[x] > 0 \/ \E i \in 1..depth : KeyOf(callStack[i]) = x}
    <3>1. ASSUME NEW x \in SessionKey \ {k}
          PROVE  executed'[x] > 0 <=> executed[x] > 0
      BY <2>3
    <3>2. executed'[k] > 0
      BY <2>3
    <3>3. QED
      BY <1>0, <2>1, <3>1, <3>2 DEF SpentOnce
  <2>8. SetAside(usedSessionKeys', executed', callStack, depth)
    BY <1>0, <2>1, <2>5, <2>6, <2>7 DEF SetAside, SpentOnce
  <2>9. QED
    BY <1>0, <1>5, <2>1, <2>8
<1>7. CASE NextCall
  <2> DEFINE top == [Top EXCEPT !.target = Head(LastBatch.rest).target,
                                !.data = Head(LastBatch.rest).data,
                                !.value = Head(LastBatch.rest).value]
  <2>1. /\ callStack # <<>> /\ UNCHANGED <<usedSessionKeys, executed, chained>>
        /\ callStack' = [callStack EXCEPT ![depth] = top]
    BY <1>7 DEF NextCall, Top, entryPointVars
  <2>2. Top \in Frame /\ Top = callStack[depth]
    BY <1>0, <2>1, TopAndPop
  <2>3. KeyOf(top) = KeyOf(callStack[depth]) /\ top.saved = callStack[depth].saved
    BY <2>2 DEF KeyOf, Frame
  <2> HIDE DEF top
  <2>4. /\ Len(callStack') = depth
        /\ \A i \in 1..depth : /\ KeyOf(callStack'[i]) = KeyOf(callStack[i])
                               /\ callStack'[i].saved = callStack[i].saved
    BY <1>0, <2>1, <2>3
  <2>5. SetAside(usedSessionKeys', executed', callStack, depth)
    BY <2>1 DEF AccountKeysSpentOnce
  <2>6. depth \in 0..depth /\ chained' = chained
    BY <1>0, <2>1
  <2> HIDE DEF depth
  <2>7. QED
    BY <1>5, <2>4, <2>5, <2>6
<1>8. ASSUME callStack # <<>>, callStack' = Pop
      PROVE  /\ depth \in Nat \ {0} /\ Top = callStack[depth]
             /\ depth - 1 \in 0..depth /\ Len(callStack') = depth - 1
             /\ \A i \in 1..(depth - 1) :
                  /\ KeyOf(callStack'[i]) = KeyOf(callStack[i])
                  /\ callStack'[i].saved = callStack[i].saved
  <2>1. /\ depth \in Nat \ {0} /\ Top = callStack[depth]
        /\ Len(callStack') = depth - 1
        /\ \A i \in 1..(depth - 1) : callStack'[i] = callStack[i]
    BY <1>0, <1>8, TopAndPop
  <2>2. QED
    BY <2>1
<1>9. CASE ACallSucceeds
  <2>1. /\ usedSessionKeys' = usedSessionKeys
        /\ executed' = [executed EXCEPT ![KeyOf(callStack[depth])] = @ + 1]
        /\ callStack # <<>> /\ callStack' = Pop
    BY <1>8, <1>9 DEF ACallSucceeds, CallSucceeds, KeyOf
  <2>2. chained' = chained
    BY <1>9 DEF ACallSucceeds, CallDone, OpDone, entryPointVars
  <2>3. \A i \in 1..depth : KeyOf(callStack[i]) \in SessionKey
    <3>1. ASSUME NEW i \in 1..depth
          PROVE  callStack[i].session \in Session
      BY <1>0, FramesTyped DEF IsFrame
    <3>2. QED
      BY <3>1, SessionKeysAreAddresses DEF KeyOf
  <2>4. SpentOnce(usedSessionKeys \ Endorsed, executed', callStack, depth - 1)
    BY <1>0, <1>8, <2>1, <2>3, CallEnds
  <2>5. SetAside(usedSessionKeys', executed', callStack, depth - 1)
    BY <1>0, <2>1, <2>4 DEF SetAside
  <2>6. QED
    BY <1>5, <1>8, <2>1, <2>2, <2>5
<1>10. CASE ACallFails
  <2>1. callStack # <<>> /\ callStack' = Pop
    BY <1>10 DEF ACallFails, CallFails
  <2>2. /\ usedSessionKeys' = callStack[depth].saved.usedSessionKeys
        /\ executed' = callStack[depth].saved.executed
    BY <1>8, <1>10, <2>1 DEF ACallFails, CallFails, Restore
  <2>3. chained' = chained
    BY <1>10 DEF ACallFails, CallDone, OpDone, entryPointVars
  <2>4. SavedSetAside(callStack, depth)
    BY <1>8, <2>1 DEF AccountKeysSpentOnce
  <2>5. SetAside(usedSessionKeys', executed', callStack, depth - 1)
    BY <2>2, <2>4 DEF SavedSetAside
  <2>6. QED
    BY <1>5, <1>8, <2>1, <2>3, <2>5
<1>11. ASSUME NEW op \in UserOp, ValidateUserOp(op)
       PROVE  AccountKeysSpentOnce'
  <2>1. CASE UNCHANGED <<usedSessionKeys, chained>>
    BY <1>1, <1>11, <2>1 DEF ValidateUserOp
  <2>2. CASE /\ ChainValid(op.session, op.intent)
             /\ BurnSessionKey(op.session)
             /\ chained' = chained \cup {op}
    <3> DEFINE k == op.session.session
    <3>1. /\ k \notin usedSessionKeys /\ usedSessionKeys' = usedSessionKeys \cup {k}
          /\ executed' = executed /\ callStack' = callStack /\ callStack = <<>>
      BY <1>11, <2>2
      DEF ValidateUserOp, ChainValid, SessionAuthorized, BurnSessionKey
    <3>2. Endorsed' = Endorsed \cup {k}
      BY <2>2 DEF Endorsed
    <3>3. /\ Endorsed' \subseteq usedSessionKeys'
          /\ usedSessionKeys' \ Endorsed' = usedSessionKeys \ Endorsed
      BY <1>0, <3>1, <3>2
    <3>4. SetAside(usedSessionKeys, executed, callStack, Len(callStack))'
      BY <1>0, <3>1, <3>3 DEF SetAside
    <3>5. \A o, p \in chained' : o.session.session = p.session.session => o = p
      <4>1. \A o \in chained : o.session.session # k
        BY <1>0, <3>1 DEF Endorsed
      <4>2. QED
        BY <2>2, <4>1 DEF AccountKeysSpentOnce
    <3>6. Len(callStack') = 0
      BY <3>1
    <3>7. QED
      BY <3>4, <3>5, <3>6 DEF AccountKeysSpentOnce
  <2>3. QED
    BY <1>11, <2>1, <2>2 DEF ValidateUserOp
<1>12. CASE RecoversByOp
  <2>1. chained' = chained
    BY <1>12 DEF RecoversByOp, OpRecovery, OpDone
  <2>2. QED
    BY <1>1, <1>12, <2>1, StoreCalls DEF gatewayVars
<1>13. CASE \/ \E op \in UserOp : OpRefused(op)
            \/ BeginExecution \/ UNCHANGED avars
  BY <1>1, <1>13
  DEF OpRefused, OpDone, BeginExecution, avars, gvars, gatewayVars, entryPointVars
<1>14. QED
  BY <1>2, <1>3, <1>4, <1>6, <1>7, <1>9, <1>10, <1>11, <1>12, <1>13, AccountSteps
  DEF Calling, StartsBatch, EmptyBatch

-----------------------------------------------------------------------------
AccountInv == AccountTyped /\ AccountKeysSpentOnce

(* So types and keys are right in every state that is reached.             *)
LEMMA AccountInvariant == ASpec => []AccountInv
<1>1. ASSUME AInit
      PROVE  AccountInv
  <2>1. /\ Len(callStack) = 0 /\ usedSessionKeys = {} /\ Endorsed = {}
        /\ chained = {} /\ \A k \in SessionKey : executed[k] = 0
    BY <1>1 DEF AInit, GInit, Endorsed
  <2>2. AccountKeysSpentOnce
    BY <2>1 DEF AccountKeysSpentOnce, SetAside, SpentOnce
  <2>3. QED
    BY <1>1, <2>2, AccountInitTyped DEF AccountInv
<1>2. AccountInv /\ [ANext]_avars => AccountInv'
  BY AccountTypeStep, AccountKeysStep DEF AccountInv
<1>3. QED
  BY <1>1, <1>2, PTL DEF ASpec

(* The frames of a key, by their numbers.                                  *)
LEMMA FramesInProgress ==
  ASSUME AccountInv, NEW k
  PROVE  /\ InProgress(k) # {} <=> \E i \in 1..Len(callStack) : KeyOf(callStack[i]) = k
         /\ InProgress(k) = {i \in 1..Len(callStack) : KeyOf(callStack[i]) = k}
<1>1. DOMAIN callStack = 1..Len(callStack)
  BY DEF AccountInv, AccountTyped, GatewayTyped
<1>2. QED
  BY <1>1 DEF InProgress, KeyOf

(* What the account of keys says of the table, in any state it holds in.   *)
LEMMA InvBurned ==
  ASSUME AccountInv
  PROVE  KeysBurnedForUse
<1>1. /\ Endorsed \subseteq usedSessionKeys
      /\ SpentOnce(usedSessionKeys \ Endorsed, executed, callStack, Len(callStack))
      /\ chained \subseteq UserOp
  BY DEF AccountInv, AccountKeysSpentOnce, SetAside, AccountTyped, EntryPointTyped
<1>2. Endorsed \subseteq SessionKey
  BY <1>1, AccountAssumption, SessionKeysAreAddresses DEF Endorsed, IsUserOp
<1>3. ASSUME NEW k
      PROVE  Endorsing(k) # {} <=> k \in Endorsed
  BY DEF Endorsing, Endorsed
<1>4. QED
  BY <1>1, <1>2, <1>3, FramesInProgress DEF SpentOnce, KeysBurnedForUse

(* And of how often a key is used.                                         *)
LEMMA InvOnePurpose ==
  ASSUME AccountInv
  PROVE  KeyServesOnePurpose
<1> SUFFICES ASSUME NEW k \in SessionKey
             PROVE  executed[k] + Cardinality(InProgress(k))
                      + Cardinality(Endorsing(k)) <= 1
  BY DEF KeyServesOnePurpose
<1>1. /\ SpentOnce(usedSessionKeys \ Endorsed, executed, callStack, Len(callStack))
      /\ executed[k] \in Nat /\ executed[k] <= 1
      /\ \A o, p \in chained : o.session.session = p.session.session => o = p
  BY DEF AccountInv, AccountKeysSpentOnce, SetAside, AccountTyped, GatewayTyped,
      GTypeOK, SpentOnce
<1>2. /\ InProgress(k) = {} /\ Cardinality(InProgress(k)) = 0
      \/ /\ executed[k] = 0 /\ InProgress(k) # {}
         /\ Cardinality(InProgress(k)) = 1
  <2>1. CASE InProgress(k) = {}
    BY <2>1, FS_EmptySet
  <2>2. CASE InProgress(k) # {}
    <3>1. PICK i : i \in InProgress(k)
      BY <2>2
    <3>2. executed[k] = 0 /\ InProgress(k) = {i}
      BY <1>1, <3>1, FramesInProgress DEF SpentOnce
    <3>3. Cardinality({i}) = 1
      BY FS_Singleton
    <3>4. QED
      BY <3>2, <3>3
  <2>3. QED
    BY <2>1, <2>2
<1>3. CASE Endorsing(k) = {}
  <2>1. Cardinality(Endorsing(k)) = 0
    BY <1>3, FS_EmptySet
  <2>2. QED
    BY <1>1, <1>2, <2>1
<1>4. CASE Endorsing(k) # {}
  <2>1. PICK op : op \in Endorsing(k)
    BY <1>4
  <2>2. Endorsing(k) = {op}
    BY <1>1, <2>1 DEF Endorsing
  <2>3. Cardinality(Endorsing(k)) = 1
    BY <2>2, FS_Singleton
  <2>4. k \in Endorsed
    BY <2>1 DEF Endorsing, Endorsed
  <2>5. executed[k] = 0 /\ InProgress(k) = {}
    BY <1>1, <2>4, FramesInProgress DEF SpentOnce
  <2>6. QED
    BY <1>2, <2>3, <2>5
<1>5. QED
  BY <1>3, <1>4

(* The burned keys are those of calls and batches executed or under way    *)
(* and of operations let through, no others, whatever reverts.             *)
THEOREM KeysBurnedExactly == ASpec => []KeysBurnedForUse
BY InvBurned, AccountInvariant, PTL

(* A session key serves one call, batch or operation.                      *)
THEOREM OnePurposePerKey == ASpec => []KeyServesOnePurpose
BY InvOnePurpose, AccountInvariant, PTL

-----------------------------------------------------------------------------
(* Cutting a number to a range loses it only if it does not fit.           *)
LEMMA Truncation ==
  ASSUME NEW e \in Nat, NEW u \in Nat \ {0}
  PROVE  /\ (e % u) <= e
         /\ (e % u) = 0 => e = 0 \/ u <= e
<1>1. /\ e = (u * (e \div u)) + (e % u)
      /\ (e % u) \in 0..(u - 1)
  OBVIOUS
<1>2. (e \div u) \in Nat
  OBVIOUS
<1>3. CASE (e \div u) = 0
  <2>1. e = (e % u)
    BY <1>1, <1>3
  <2>2. QED
    BY <1>1, <2>1
<1>4. CASE (e \div u) >= 1
  <2>1. u * (e \div u) >= u
    BY <1>2, <1>4
  <2>2. QED
    BY <1>1, <1>2, <2>1
<1>5. QED
  BY <1>2, <1>3, <1>4

(* An operation is let through by its validation and by nothing else.      *)
LEMMA OnlyValidationAdmits ==
  ASSUME AccountTyped, [ANext]_avars, NEW op \in UserOp,
         opResult[op] = "none", opResult'[op] = "validated"
  PROVE  ValidateUserOp(op)
<1>1. ASSUME UNCHANGED opResult
      PROVE  FALSE
  BY <1>1
<1>2. opResult \in [UserOp -> OpResult]
  BY DEF AccountTyped, EntryPointTyped
<1>3. ASSUME NEW result \in OpResult \ {"validated"}, OpDone(result)
      PROVE  FALSE
  BY <1>2, <1>3 DEF OpDone
<1>4. CASE OthersAct \/ Issues \/ Calling \/ StartsBatch \/ EmptyBatch
  BY <1>1, <1>4
  DEF OthersAct, Issues, Calling, StartsBatch, EmptyBatch, PaidValidation,
      OwnerCalls, SetEntryPoint, SetClaim, Receive, AExecute, ExecuteMulticall,
      ExecuteNothing, entryPointVars
<1>5. CASE NextCall \/ BeginExecution \/ UNCHANGED avars
  BY <1>1, <1>5 DEF NextCall, BeginExecution, avars, entryPointVars
<1>6. CASE ACallSucceeds \/ ACallFails
  BY <1>1, <1>3, <1>6
  DEF ACallSucceeds, ACallFails, CallDone, OpResult, entryPointVars
<1>7. ASSUME NEW p \in UserOp, OpRecovery(p) \/ OpRefused(p)
      PROVE  FALSE
  BY <1>3, <1>7 DEF OpRecovery, OpRefused, OpResult
<1>8. ASSUME NEW p \in UserOp, ValidateUserOp(p)
      PROVE  p = op
  BY <1>2, <1>8 DEF ValidateUserOp
<1>9. QED
  BY <1>4, <1>5, <1>6, <1>7, <1>8, AccountSteps DEF RecoversByOp

(* An operation that is let through under a certificate that has expired   *)
(* is a recovery call under an expiration of 0: with a clock below 2^48    *)
(* the 48 bits of validUntil lose nothing that matters.                    *)
InTime(op) ==
  \/ now <= op.session.expiration
  \/ /\ op.session.expiration = 0
     /\ op.call.fn \in RecoveryManagement
     /\ op \notin chained'

(* The EntryPoint lets an operation through in time only.                  *)
LEMMA AdmittedInTime ==
  ASSUME AccountTyped, NEW op \in UserOp, opResult[op] = "none", ValidateUserOp(op)
  PROVE  InTime(op)
<1>1. /\ now \in Nat /\ now < UInt48 /\ now # 0
      /\ UInt48 \in Nat \ {0} /\ op.session.expiration \in Nat
  <2>1. now \in 1..MaxTime
    BY DEF AccountTyped, GatewayTyped, GTypeOK, TypeOK
  <2>2. op.session \in Session
    BY AccountAssumption DEF IsUserOp
  <2>3. op.session.expiration \in Nat
    BY <2>2, GatewayAssumption DEF IsSession
  <2>4. QED
    BY <2>1, <2>3, AccountAssumption, ParameterAssumption
<1>2. CASE ChainValid(op.session, op.intent)
  BY <1>2 DEF ChainValid, SessionAuthorized, InTime
<1>3. CASE op.call.fn \in RecoveryManagement /\ UNCHANGED chained
  <2>1. \/ (op.session.expiration % UInt48) = 0
        \/ now <= (op.session.expiration % UInt48)
    BY DEF ValidateUserOp, InValidityRange, ValidUntil
  <2>2. /\ (op.session.expiration % UInt48) <= op.session.expiration
        /\ (op.session.expiration % UInt48) = 0 =>
             op.session.expiration = 0 \/ UInt48 <= op.session.expiration
    BY <1>1, Truncation
  <2>3. op \notin chained'
    <3>1. op \notin chained
      BY DEF AccountTyped, EntryPointTyped
    <3>2. QED
      BY <1>3, <3>1
  <2>4. (op.session.expiration % UInt48) \in Nat
    BY <1>1
  <2>5. QED
    BY <1>1, <1>3, <2>1, <2>2, <2>3, <2>4 DEF InTime
<1>4. QED
  BY <1>2, <1>3 DEF ValidateUserOp

(* No operation is let through once its certificate has expired, save such *)
(* a recovery call.                                                        *)
THEOREM NoneAfterExpiry == ASpec => NoOpAfterExpiry
<1>1. ASSUME AccountInv, [ANext]_avars, NEW op \in UserOp,
             opResult[op] = "none", opResult'[op] = "validated"
      PROVE  InTime(op)
  BY <1>1, OnlyValidationAdmits, AdmittedInTime DEF AccountInv
<1>2. AccountInv /\ [ANext]_avars =>
        [\A op \in UserOp :
           opResult[op] = "none" /\ opResult'[op] = "validated" => InTime(op)]_avars
  BY <1>1
<1>3. QED
  BY <1>2, AccountInvariant, PTL DEF ASpec, NoOpAfterExpiry, InTime

-----------------------------------------------------------------------------
(* Calls and batches happen as a whole or not at all.  The storage that is *)
(* put back has the fields of the storage that was saved, so putting it    *)
(* back gives the very same.                                               *)
LEMMA PutBack ==
  ASSUME AccountTyped, ACallFails
  PROVE  /\ Storage' = Top.saved
         /\ AccountStorage' = LastBatch.saved
<1>1. callStack # <<>> /\ GatewayTyped /\ OwnTyped
  BY DEF ACallFails, CallFails, AccountTyped
<1>2. Top.saved \in SavedStorage
  BY <1>1, TopAndPop DEF Frame
<1>3. LastBatch.saved \in SavedAccount
  BY <1>1, BatchesTyped DEF BatchLeft
<1>4. Storage' = Top.saved
  BY <1>2 DEF ACallFails, CallFails, Restore, RestoreStore, Storage, SavedStorage
<1>5. AccountStorage' = LastBatch.saved
  BY <1>3 DEF ACallFails, AccountStorage, SavedAccount
<1>6. QED
  BY <1>4, <1>5

(* The steps neither begin nor end a call unless they are of these four:   *)
(* a call or batch begins, goes on with its next call, succeeds or fails.  *)
LEMMA StackSteps ==
  ASSUME AccountTyped, [ANext]_avars
  PROVE  \/ UNCHANGED <<callStack, batches>>
         \/ \E frame, left : /\ callStack' = Append(callStack, frame)
                             /\ frame.saved = Storage
                             /\ batches' = Append(batches, left)
                             /\ left.saved = AccountStorage
         \/ NextCall \/ ACallSucceeds \/ ACallFails
<1> DEFINE Begins == \E frame, left : /\ callStack' = Append(callStack, frame)
                                      /\ frame.saved = Storage
                                      /\ batches' = Append(batches, left)
                                      /\ left.saved = AccountStorage
<1>1. ASSUME OthersAct \/ Issues
      PROVE  UNCHANGED <<callStack, batches>>
  BY <1>1
  DEF OthersAct, Issues, IssueSession, PaidValidation, OwnerCalls, SetEntryPoint,
      SetClaim, Receive, gvars, gatewayVars
<1>2. ASSUME NEW session \in Session, NEW intent \in Intent,
             NEW target \in Address, NEW data \in CallData, NEW value \in CallValue,
             AExecute(session, intent, target, data, value)
      PROVE  Begins
  <2> DEFINE frame == [session |-> session, intent |-> intent,
                       target |-> target, data |-> data, value |-> value,
                       saved |-> Storage]
  <2>1. callStack' = Append(callStack, frame) /\ batches' = Append(batches, SingleCall)
    BY <1>2 DEF AExecute, Execute
  <2>2. frame.saved = Storage /\ SingleCall.saved = AccountStorage
    BY DEF SingleCall
  <2> HIDE DEF frame
  <2>3. QED
    BY <2>1, <2>2
<1>3. ASSUME NEW session \in Session, NEW intent \in Intent,
             NEW calls \in Batch, NEW value \in CallValue,
             ExecuteMulticall(session, intent, calls, value)
      PROVE  Begins
  <2> DEFINE frame == [session |-> session, intent |-> intent,
                       target |-> Head(calls).target, data |-> Head(calls).data,
                       value |-> Head(calls).value, saved |-> Storage]
             left == [rest |-> Tail(calls), saved |-> AccountStorage]
  <2>1. callStack' = Append(callStack, frame) /\ batches' = Append(batches, left)
    BY <1>3 DEF ExecuteMulticall
  <2>2. frame.saved = Storage /\ left.saved = AccountStorage
    OBVIOUS
  <2> HIDE DEF frame, left
  <2>3. QED
    BY <2>1, <2>2
<1>4. ASSUME EmptyBatch
      PROVE  UNCHANGED <<callStack, batches>>
  BY <1>4 DEF EmptyBatch, ExecuteNothing
<1>5. ASSUME NEW op \in UserOp, ValidateUserOp(op)
      PROVE  UNCHANGED <<callStack, batches>>
  BY <1>5 DEF ValidateUserOp
<1>6. ASSUME RecoversByOp
      PROVE  UNCHANGED <<callStack, batches>>
  BY <1>6, StoreCalls DEF gatewayVars
<1>7. ASSUME \/ \E op \in UserOp : OpRefused(op)
             \/ BeginExecution \/ UNCHANGED avars
      PROVE  UNCHANGED <<callStack, batches>>
  BY <1>7 DEF OpRefused, BeginExecution, avars, gvars, gatewayVars
<1> HIDE DEF Begins
<1>8. \/ UNCHANGED <<callStack, batches>> \/ Begins
      \/ NextCall \/ ACallSucceeds \/ ACallFails
  BY <1>1, <1>2, <1>3, <1>4, <1>5, <1>6, <1>7, AccountSteps
  DEF Calling, StartsBatch
<1>9. QED
  BY <1>8 DEF Begins

(* What is left at a depth of the stack changes by the steps of the code   *)
(* at that depth, and by the call above it being executed.                 *)
NoTrace(depth) ==
  depth <= Len(callStack') + 1 /\ LeftAt(depth)' # LeftAt(depth) =>
    /\ Len(callStack') = depth - 1
    /\ Len(callStack) = depth - 1 \/ TopExecuted

(* No step of the account leaves a trace of a failed call.                 *)
LEMMA NoTraceStep ==
  ASSUME AccountTyped, [ANext]_avars, NEW depth \in 1..(Len(callStack) + 1)
  PROVE  NoTrace(depth)
<1> DEFINE n == Len(callStack)
<1>0. /\ GatewayTyped /\ OwnTyped
      /\ callStack \in Seq(Frame) /\ batches \in Seq(BatchLeft)
      /\ n \in Nat /\ Len(batches) = n /\ depth \in Nat
  BY DEF AccountTyped, GatewayTyped, OwnTyped
<1>1. ASSUME Len(callStack') = n, depth <= n => LeftAt(depth)' = LeftAt(depth)
      PROVE  NoTrace(depth)
  BY <1>0, <1>1 DEF NoTrace
<1>2. ASSUME depth <= n, Len(callStack') >= depth, Len(callStack') \in Nat,
             callStack'[depth].saved = callStack[depth].saved,
             batches'[depth].saved = batches[depth].saved
      PROVE  LeftAt(depth)' = LeftAt(depth)
  <2>1. ~(depth > Len(callStack)) /\ ~(depth > Len(callStack'))
    BY <1>0, <1>2
  <2>2. QED
    BY <1>2, <2>1 DEF LeftAt
<1>3. CASE UNCHANGED <<callStack, batches>>
  BY <1>0, <1>1, <1>2, <1>3
<1>4. ASSUME NEW frame, NEW left,
             callStack' = Append(callStack, frame), frame.saved = Storage,
             batches' = Append(batches, left), left.saved = AccountStorage
      PROVE  LeftAt(depth)' = LeftAt(depth)
  <2>1. /\ Len(callStack') = n + 1
        /\ callStack'[n + 1] = frame /\ batches'[n + 1] = left
        /\ \A i \in 1..n : callStack'[i] = callStack[i] /\ batches'[i] = batches[i]
    BY <1>0, <1>4
  <2>2. CASE depth <= n
    <3>1. depth \in 1..n
      BY <1>0, <2>2
    <3>2. QED
      BY <1>0, <1>2, <2>1, <2>2, <3>1
  <2>3. CASE depth = n + 1
    <3>1. depth > Len(callStack) /\ ~(depth > Len(callStack'))
      BY <1>0, <2>1, <2>3
    <3>2. LeftAt(depth) = <<Storage, AccountStorage>>
      BY <3>1 DEF LeftAt
    <3>3. LeftAt(depth)' = <<callStack'[depth].saved, batches'[depth].saved>>
      BY <3>1 DEF LeftAt
    <3>4. QED
      BY <1>4, <2>1, <2>3, <3>2, <3>3
  <2>4. QED
    BY <1>0, <2>2, <2>3
<1>5. CASE NextCall
  <2> DEFINE top == [Top EXCEPT !.target = Head(LastBatch.rest).target,
                                !.data = Head(LastBatch.rest).data,
                                !.value = Head(LastBatch.rest).value]
             left == [LastBatch EXCEPT !.rest = Tail(@)]
  <2>1. callStack # <<>>
    BY <1>5 DEF NextCall
  <2>2. Top \in Frame /\ LastBatch \in BatchLeft
    BY <1>0, <2>1, TopAndPop, BatchesTyped
  <2>3. /\ callStack' = [callStack EXCEPT ![n] = top]
        /\ batches' = [batches EXCEPT ![n] = left]
    BY <1>0, <1>5 DEF NextCall, Top, LastBatch
  <2>4. /\ top.saved = callStack[n].saved
        /\ left.saved = batches[n].saved
    BY <1>0, <2>2 DEF Frame, BatchLeft, Top, LastBatch
  <2> HIDE DEF top, left
  <2>5. /\ Len(callStack') = n
        /\ \A i \in 1..n : /\ callStack'[i].saved = callStack[i].saved
                           /\ batches'[i].saved = batches[i].saved
    BY <1>0, <2>3, <2>4
  <2>6. depth <= n => depth \in 1..n
    BY <1>0
  <2>7. QED
    BY <1>0, <1>1, <1>2, <2>5, <2>6
<1>6. ASSUME callStack # <<>>, callStack' = Pop, batches' = PopBatch
      PROVE  /\ n \in Nat \ {0} /\ Len(callStack') = n - 1
             /\ depth < n => LeftAt(depth)' = LeftAt(depth)
  <2>1. /\ n \in Nat \ {0} /\ Len(callStack') = n - 1
        /\ \A i \in 1..(n - 1) : callStack'[i] = callStack[i] /\ batches'[i] = batches[i]
    BY <1>0, <1>6, TopAndPop, BatchesTyped
  <2>2. ASSUME depth < n
        PROVE  LeftAt(depth)' = LeftAt(depth)
    <3>1. depth \in 1..(n - 1) /\ depth <= n
      BY <1>0, <2>2
    <3>2. Len(callStack') >= depth /\ Len(callStack') \in Nat
      BY <1>0, <2>1, <3>1
    <3>3. QED
      BY <1>2, <2>1, <3>1, <3>2
  <2>3. QED
    BY <2>1, <2>2
<1>7. CASE ACallSucceeds
  <2>1. callStack # <<>> /\ callStack' = Pop /\ batches' = PopBatch
    BY <1>7 DEF ACallSucceeds, CallSucceeds
  <2>2. TopExecuted
    <3>1. Top.session.session \in SessionKey
      BY <1>0, <2>1, TopAndPop, SessionKeysAreAddresses DEF Frame
    <3>2. executed \in [SessionKey -> Nat]
      BY <1>0 DEF GatewayTyped, GTypeOK
    <3>3. QED
      BY <1>7, <3>1, <3>2 DEF ACallSucceeds, CallSucceeds, TopExecuted
  <2>3. QED
    BY <1>0, <1>6, <2>1, <2>2 DEF NoTrace
<1>8. CASE ACallFails
  <2>1. callStack # <<>> /\ callStack' = Pop /\ batches' = PopBatch
    BY <1>8 DEF ACallFails, CallFails
  <2>2. ASSUME depth = n
        PROVE  LeftAt(depth)' = LeftAt(depth)
    <3>1. depth > Len(callStack') /\ ~(depth > Len(callStack))
      BY <1>0, <1>6, <2>1, <2>2
    <3>2. LeftAt(depth)' = <<Storage', AccountStorage'>>
      BY <3>1 DEF LeftAt
    <3>3. LeftAt(depth) = <<Top.saved, LastBatch.saved>>
      BY <1>0, <2>2, <3>1 DEF LeftAt, Top, LastBatch
    <3>4. QED
      BY <1>8, <3>2, <3>3, PutBack
  <2>3. QED
    BY <1>0, <1>6, <2>1, <2>2 DEF NoTrace
<1>9. ASSUME NEW frame, NEW left,
             callStack' = Append(callStack, frame), frame.saved = Storage,
             batches' = Append(batches, left), left.saved = AccountStorage
      PROVE  NoTrace(depth)
  BY <1>4, <1>9 DEF NoTrace
<1>10. QED
  BY <1>3, <1>5, <1>7, <1>8, <1>9, StackSteps

(* A call or batch that fails, at whichever of its calls, leaves keys,     *)
(* claims, ether and recoveries as they were, nested to any depth.         *)
THEOREM FailedCallsLeaveNoTrace == ASpec => FailedCallLeavesNoTrace
<1>1. AccountInv /\ [ANext]_avars =>
        [\A depth \in 1..(Len(callStack) + 1) : NoTrace(depth)]_avars
  BY NoTraceStep DEF AccountInv
<1>2. QED
  BY <1>1, AccountInvariant, PTL DEF ASpec, FailedCallLeavesNoTrace, NoTrace

=============================================================================
