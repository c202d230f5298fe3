------------------------- MODULE IdentityStoreProofs -------------------------
(***************************************************************************)
(* Proofs about IdentityStore, for every value of its constants.           *)
(***************************************************************************)
EXTENDS IdentityStore, FiniteSetTheorems, TLAPS

(* A counter kept per address (a nonce, an epoch, a number of approvals)   *)
(* counts one further: contracts write += 1 or ++ on a mapping.            *)
LEMMA CounterAdvances ==
  ASSUME NEW count \in [Address -> Nat], NEW a \in Address
  PROVE  /\ count[a] + 1 \in Nat
         /\ [count EXCEPT ![a] = @ + 1] \in [Address -> Nat]
<1>1. count[a] + 1 \in Nat
  OBVIOUS
<1>2. QED
  BY <1>1

(* No call takes a variable out of its type. *)
LEMMA TypeStep ==
  ASSUME TypeOK, [Next]_vars
  PROVE  TypeOK'
<1> USE DEF TypeOK
<1>1. CASE Tick
  BY <1>1, ParameterAssumption DEF Tick, storeVars, keyVars, recoveryVars
<1>2. ASSUME NEW caller \in Address, NEW key \in Key,
             AuthorizeKey(caller, key) \/ RevokeKey(caller, key)
      PROVE  TypeOK'
  BY <1>2, AddressAssumption DEF AuthorizeKey, RevokeKey, recoveryVars
<1>3. ASSUME NEW caller \in Address, NEW root \in Root,
             RegisterProver(caller, root) \/ RevokeProver(caller, root)
      PROVE  TypeOK'
  BY <1>3, AddressAssumption DEF RegisterProver, RevokeProver, keyVars, recoveryVars
<1>4. ASSUME NEW caller \in Address, NEW root \in Root,
             NEW list \in GuardianList, SetGuardians(caller, root, list)
      PROVE  TypeOK'
  BY <1>4, AddressAssumption, MessageAssumption
  DEF SetGuardians, keyVars, recoveryVars
<1>5. ASSUME NEW caller \in Address, NEW root \in Root,
             FreezeIdentity(caller, root) \/ UnfreezeIdentity(caller, root)
      PROVE  TypeOK'
  BY <1>5, AddressAssumption DEF FreezeIdentity, UnfreezeIdentity,
            IdentityState, keyVars, recoveryVars
<1>6. ASSUME NEW caller \in Address, NEW a \in Key \cup Root,
             CancelAllSessions(caller, a)
      PROVE  TypeOK'
  <2>1. a \in Address
    BY AddressAssumption
  <2>2. sessionEpoch' \in [Address -> Nat]
    <3>1. sessionEpoch' = [sessionEpoch EXCEPT ![a] = @ + 1]
      BY <1>6 DEF CancelAllSessions
    <3>2. QED
      BY <2>1, <3>1, CounterAdvances
  <2>3. UNCHANGED <<now, signed, keyVars, recoveryVars, authorizedProvers,
                    _guardians, recoveryNonces, identityState>>
    BY <1>6 DEF CancelAllSessions
  <2>4. QED
    BY <2>2, <2>3 DEF keyVars, recoveryVars
<1>7. ASSUME NEW intent \in Intent, NEW value \in CallValue,
             ValidateIntent(intent, value)
      PROVE  TypeOK'
  <2>1. intent.signer \in Address
    BY MessageAssumption DEF IsIntent
  <2>2. nonces' \in [Address -> Nat]
    <3>1. nonces' = [nonces EXCEPT ![intent.signer] = @ + 1]
      BY <1>7 DEF ValidateIntent, ConsumeNonce
    <3>2. QED
      BY <2>1, <3>1, CounterAdvances
  <2>3. UNCHANGED <<now, signed, authorizedKeys, delegationNonces, _gateOpen,
                    recoveryVars, authorizedProvers, _guardians,
                    recoveryNonces, identityState, sessionEpoch>>
    BY <1>7 DEF ValidateIntent
  <2>4. QED
    BY <2>2, <2>3 DEF recoveryVars
<1>8. ASSUME NEW intent \in Intent, NEW value \in CallValue,
             NEW delegation \in Delegation,
             ValidateDelegatedIntent(delegation, intent, value)
      PROVE  TypeOK'
  <2>1. delegation.prover \in Address /\ delegation.delegate \in Address
    BY MessageAssumption DEF IsDelegation
  <2>2. nonces' \in [Address -> Nat]
    <3>1. nonces' = [nonces EXCEPT ![delegation.delegate] = @ + 1]
      BY <1>8 DEF ValidateDelegatedIntent, ConsumeNonce
    <3>2. QED
      BY <2>1, <3>1, CounterAdvances
  <2>3. delegationNonces' \in [Address -> Nat] /\ _gateOpen' \in BOOLEAN
    <3>1. /\ delegationNonces' =
                [delegationNonces EXCEPT ![delegation.prover] = @ + 1]
          /\ _gateOpen' = TRUE
      BY <1>8 DEF ValidateDelegatedIntent
    <3>2. QED
      BY <2>1, <3>1, CounterAdvances
  <2>4. UNCHANGED <<now, signed, authorizedKeys, recoveryVars,
                    authorizedProvers, _guardians, recoveryNonces,
                    identityState, sessionEpoch>>
    BY <1>8 DEF ValidateDelegatedIntent
  <2>5. QED
    BY <2>2, <2>3, <2>4 DEF recoveryVars
<1>9. CASE GatedPurchase
  BY <1>9 DEF GatedPurchase, recoveryVars
<1>10. ASSUME NEW req \in RecoveryRequest, SignRecoveryRequest(req)
       PROVE  TypeOK'
  BY <1>10 DEF SignRecoveryRequest, storeVars, keyVars, recoveryVars
<1>11. ASSUME NEW req \in RecoveryRequest,
              InitiateRecovery(req.oldRoot, req.newRoot, req)
       PROVE  TypeOK'
  <2>1. /\ req.oldRoot \in Address /\ req.signer \in Address
        /\ req.newRoot \in Address \cup {NoAddress}
    BY MessageAssumption DEF IsRecoveryRequest
  <2>2. /\ pendingNewRoot' \in [Address -> Address \cup {NoAddress}]
        /\ recoveryApprovals' \in [Address -> Nat]
    BY <1>11, <2>1 DEF InitiateRecovery
  <2>3. recoveryApproved' \in [Address -> SUBSET Address]
    BY <1>11, <2>1 DEF InitiateRecovery
  <2>4. identityState' \in [Address -> IdentityState]
    BY <1>11 DEF InitiateRecovery, IdentityState
  <2>5. UNCHANGED <<now, signed, keyVars, recoveryInitiatedAt,
                    authorizedProvers, _guardians, recoveryNonces,
                    sessionEpoch>>
    BY <1>11 DEF InitiateRecovery
  <2>6. QED
    BY <2>2, <2>3, <2>4, <2>5 DEF keyVars
<1>12. ASSUME NEW req \in RecoveryRequest, SupportRecovery(req.oldRoot, req)
       PROVE  TypeOK'
  <2>1. req.oldRoot \in Address /\ req.signer \in Address
    BY MessageAssumption DEF IsRecoveryRequest
  <2>2. recoveryApprovals[req.oldRoot] + 1 \in Nat
    BY <2>1, CounterAdvances
  <2>3. recoveryApprovals' \in [Address -> Nat]
    BY <1>12, <2>2 DEF SupportRecovery
  <2>4. recoveryInitiatedAt' \in [Address -> Nat]
    <3>1. now \in Nat
      BY ParameterAssumption
    <3>2. PICK t \in Nat : recoveryInitiatedAt' =
               [recoveryInitiatedAt EXCEPT ![req.oldRoot] = t]
      BY <1>12, <2>1, <3>1 DEF SupportRecovery, TimelockStart
    <3>3. QED
      BY <3>2
  <2>5. recoveryApproved' \in [Address -> SUBSET Address]
    BY <1>12, <2>1 DEF SupportRecovery
  <2>6. UNCHANGED <<now, signed, keyVars, pendingNewRoot, authorizedProvers,
                    _guardians, recoveryNonces, identityState, sessionEpoch>>
    BY <1>12 DEF SupportRecovery
  <2>7. QED
    BY <2>3, <2>4, <2>5, <2>6 DEF keyVars
<1>13. ASSUME NEW oldRoot \in Address, NEW caller \in Address,
              CancelRecovery(caller, oldRoot)
       PROVE  TypeOK'
  BY <1>13 DEF CancelRecovery, ClearRecovery, IdentityState, keyVars
<1>14. ASSUME NEW oldRoot \in Address, FinalizeRecovery(oldRoot)
       PROVE  TypeOK'
  <2>1. pendingNewRoot[oldRoot] \in Address
    BY <1>14 DEF FinalizeRecovery
  <2>2. _guardians' \in [Address -> Seq(Address)]
    <3> DEFINE taken == [_guardians EXCEPT
                            ![pendingNewRoot[oldRoot]] = _guardians[oldRoot]]
    <3>1. <<>> \in Seq(Address)
      OBVIOUS
    <3>2. taken \in [Address -> Seq(Address)]
      BY <2>1
    <3>3. _guardians' = [taken EXCEPT ![oldRoot] = <<>>]
      BY <1>14 DEF FinalizeRecovery
    <3>4. QED
      BY <3>1, <3>2, <3>3
  <2>3. recoveryNonces' \in [Address -> Nat]
    BY <1>14, CounterAdvances DEF FinalizeRecovery, ConsumeRecoveryNonce
  <2>4. /\ nonces' \in [Address -> Nat]
        /\ delegationNonces' \in [Address -> Nat]
    BY <1>14 DEF FinalizeRecovery
  <2>5. /\ recoveryApproved' \in [Address -> SUBSET Address]
        /\ recoveryApprovals' \in [Address -> Nat]
        /\ recoveryInitiatedAt' \in [Address -> Nat]
        /\ pendingNewRoot' \in [Address -> Address \cup {NoAddress}]
    BY <1>14 DEF FinalizeRecovery, ClearRecovery
  <2>6. identityState' \in [Address -> IdentityState]
    BY <1>14 DEF FinalizeRecovery, IdentityState
  <2>7. /\ authorizedProvers' \subseteq Address
        /\ UNCHANGED <<now, signed, authorizedKeys, _gateOpen, sessionEpoch>>
    BY <1>14, <2>1 DEF FinalizeRecovery
  <2>8. QED
    BY <2>2, <2>3, <2>4, <2>5, <2>6, <2>7
<1>15. CASE UNCHANGED vars
  BY <1>15 DEF vars, storeVars, keyVars, recoveryVars
<1>16. QED
  BY <1>1, <1>2, <1>3, <1>4, <1>5, <1>6, <1>7, <1>8, <1>9, <1>10, <1>11,
     <1>12, <1>13, <1>14, <1>15
  DEF Next, Environment, Calls, Administration, IntentValidation, Validation,
      GuardianCalls, RecoveryEnd

(* A contract just deployed has its variables in their types.             *)
LEMMA InitTyped ==
  ASSUME Init
  PROVE  TypeOK
<1>1. now \in 1..MaxTime
  BY ParameterAssumption DEF Init
<1>2. /\ nonces \in [Address -> Nat]
      /\ delegationNonces \in [Address -> Nat]
      /\ recoveryApprovals \in [Address -> Nat]
      /\ recoveryInitiatedAt \in [Address -> Nat]
      /\ recoveryNonces \in [Address -> Nat]
      /\ sessionEpoch \in [Address -> Nat]
  BY DEF Init
<1>3. _guardians \in [Address -> Seq(Address)]
  BY DEF Init
<1>4. identityState \in [Address -> IdentityState]
  BY DEF Init, IdentityState
<1>5. QED
  BY <1>1, <1>2, <1>3, <1>4 DEF Init, TypeOK

(* Every variable keeps its type: Solidity's types, with the zero address  *)
(* apart, survive every call.                                              *)
THEOREM TypeCorrect == Spec => []TypeOK
BY InitTyped, TypeStep, PTL DEF Spec

-----------------------------------------------------------------------------
(* What one step does to the recovery of one root: nothing, or one of the  *)
(* four calls about that root.                                             *)
Untouched(root) ==
  /\ pendingNewRoot'[root] = pendingNewRoot[root]
  /\ recoveryApprovals'[root] = recoveryApprovals[root]
  /\ recoveryInitiatedAt'[root] = recoveryInitiatedAt[root]
  /\ recoveryApproved'[root] = recoveryApproved[root]
  /\ recoveryNonces'[root] = recoveryNonces[root]
  /\ identityState'[root] = "RecoveryPending" =>
       identityState[root] = "RecoveryPending"

Initiated(root) ==
  \E req \in RecoveryRequest :
    req.oldRoot = root /\ InitiateRecovery(root, req.newRoot, req)

Supported(root) ==
  \E req \in RecoveryRequest :
    req.oldRoot = root /\ SupportRecovery(root, req)

Cancelled(root) == \E caller \in Address : CancelRecovery(caller, root)

(* Only the calls of social recovery about a root touch its recovery, and  *)
(* they touch no other; signatures and time are never taken back.          *)
LEMMA RecoveryStep ==
  ASSUME TypeOK, [Next]_vars, NEW root \in Address
  PROVE  /\ \/ Untouched(root) \/ Initiated(root) \/ Supported(root)
            \/ Cancelled(root) \/ FinalizeRecovery(root)
         /\ signed \subseteq signed'
         /\ now <= now'
<1> DEFINE Goal ==
      /\ \/ Untouched(root) \/ Initiated(root) \/ Supported(root)
         \/ Cancelled(root) \/ FinalizeRecovery(root)
      /\ signed \subseteq signed'
      /\ now <= now'
<1>0. now \in Nat /\ now <= now
  BY ParameterAssumption DEF TypeOK
<1>1. CASE Tick
  BY <1>0, <1>1 DEF Tick, Untouched, storeVars, recoveryVars
<1>2. ASSUME NEW caller \in Address, NEW key \in Key,
             AuthorizeKey(caller, key) \/ RevokeKey(caller, key)
      PROVE  Goal
  BY <1>0, <1>2 DEF AuthorizeKey, RevokeKey, Untouched, recoveryVars
<1>3. ASSUME NEW caller \in Address, NEW r \in Root,
             \/ RegisterProver(caller, r) \/ RevokeProver(caller, r)
             \/ \E list \in GuardianList : SetGuardians(caller, r, list)
      PROVE  Goal
  BY <1>0, <1>3 DEF RegisterProver, RevokeProver, SetGuardians, Untouched,
                    recoveryVars
<1>4. ASSUME NEW caller \in Address, NEW r \in Root,
             FreezeIdentity(caller, r) \/ UnfreezeIdentity(caller, r)
      PROVE  Goal
  <2>1. identityState'[root] \in {identityState[root], "Frozen", "Active"}
    BY <1>4 DEF FreezeIdentity, UnfreezeIdentity, TypeOK
  <2>2. QED
    BY <1>0, <1>4, <2>1 DEF FreezeIdentity, UnfreezeIdentity, Untouched,
                            recoveryVars
<1>5. ASSUME NEW caller \in Address, NEW a \in Key \cup Root,
             CancelAllSessions(caller, a)
      PROVE  Goal
  BY <1>0, <1>5 DEF CancelAllSessions, Untouched, recoveryVars
<1>6. ASSUME NEW intent \in Intent, NEW value \in CallValue,
             \/ ValidateIntent(intent, value)
             \/ \E delegation \in Delegation :
                  ValidateDelegatedIntent(delegation, intent, value)
      PROVE  Goal
  BY <1>0, <1>6 DEF ValidateIntent, ValidateDelegatedIntent, Untouched,
                    recoveryVars
<1>7. CASE GatedPurchase
  BY <1>0, <1>7 DEF GatedPurchase, Untouched, recoveryVars
<1>8. ASSUME NEW req \in RecoveryRequest, SignRecoveryRequest(req)
      PROVE  Goal
  BY <1>0, <1>8 DEF SignRecoveryRequest, Untouched, storeVars, recoveryVars
<1>9. ASSUME NEW req \in RecoveryRequest,
             InitiateRecovery(req.oldRoot, req.newRoot, req)
      PROVE  Goal
  <2>1. CASE req.oldRoot = root
    BY <1>0, <1>9, <2>1 DEF Initiated, InitiateRecovery
  <2>2. CASE req.oldRoot # root
    BY <1>0, <1>9, <2>2 DEF InitiateRecovery, Untouched, TypeOK
  <2>3. QED
    BY <2>1, <2>2
<1>10. ASSUME NEW req \in RecoveryRequest, SupportRecovery(req.oldRoot, req)
       PROVE  Goal
  <2>1. CASE req.oldRoot = root
    BY <1>0, <1>10, <2>1 DEF Supported, SupportRecovery
  <2>2. CASE req.oldRoot # root
    BY <1>0, <1>10, <2>2 DEF SupportRecovery, Untouched, TypeOK
  <2>3. QED
    BY <2>1, <2>2
<1>11. ASSUME NEW oldRoot \in Address, NEW caller \in Address,
              CancelRecovery(caller, oldRoot)
       PROVE  Goal
  <2>1. CASE oldRoot = root
    BY <1>0, <1>11, <2>1 DEF Cancelled, CancelRecovery
  <2>2. CASE oldRoot # root
    BY <1>0, <1>11, <2>2 DEF CancelRecovery, ClearRecovery, Untouched, TypeOK
  <2>3. QED
    BY <2>1, <2>2
<1>12. ASSUME NEW oldRoot \in Address, FinalizeRecovery(oldRoot)
       PROVE  Goal
  <2>1. CASE oldRoot = root
    BY <1>0, <1>12, <2>1 DEF FinalizeRecovery
  <2>2. CASE oldRoot # root
    <3>1. identityState'[root] \in {identityState[root], "Active"}
      BY <1>12, <2>2 DEF FinalizeRecovery, TypeOK
    <3>2. QED
      BY <1>0, <1>12, <2>2, <3>1 DEF FinalizeRecovery, ClearRecovery, Untouched,
                                     ConsumeRecoveryNonce, TypeOK
  <2>3. QED
    BY <2>1, <2>2
<1>13. CASE UNCHANGED vars
  BY <1>0, <1>13 DEF vars, storeVars, recoveryVars, Untouched
<1>14. QED
  BY <1>1, <1>2, <1>3, <1>4, <1>5, <1>6, <1>7, <1>8, <1>9, <1>10, <1>11,
     <1>12, <1>13
  DEF Next, Environment, Calls, Administration, IntentValidation, Validation,
        GuardianCalls, RecoveryEnd

-----------------------------------------------------------------------------
(* No call makes the mappings of a recovery disagree.                      *)
LEMMA CoherentStep ==
  ASSUME TypeOK, RecoveryCoherent, [Next]_vars
  PROVE  RecoveryCoherent'
<1> SUFFICES ASSUME NEW root \in Address
             PROVE  RecoveryCoherentAt(root)'
  BY DEF RecoveryCoherent
<1>1. RecoveryCoherentAt(root)
  BY DEF RecoveryCoherent
<1>2. /\ now \in Nat /\ now # 0
      /\ now' \in Nat /\ now <= now'
      /\ recoveryApprovals[root] \in Nat
      /\ recoveryInitiatedAt[root] \in Nat
      /\ GuardianThreshold \in Nat /\ GuardianThreshold >= 2
  <2>1. now' = now \/ now' = now + 1
    BY DEF Next, Environment, Calls, Tick, vars, Administration,
           AuthorizeKey, RevokeKey, RegisterProver, RevokeProver,
           SetGuardians, FreezeIdentity, UnfreezeIdentity, CancelAllSessions,
           IntentValidation, Validation, ValidateIntent, ValidateDelegatedIntent,
           GatedPurchase, SignRecoveryRequest, GuardianCalls,
           InitiateRecovery, SupportRecovery, RecoveryEnd, CancelRecovery,
           FinalizeRecovery
  <2>2. QED
    BY <2>1, ParameterAssumption DEF TypeOK
<1>3. CASE Untouched(root)
  BY <1>1, <1>2, <1>3 DEF Untouched, RecoveryCoherentAt, Pending
<1>4. CASE Initiated(root)
  <2>1. PICK req \in RecoveryRequest :
          req.oldRoot = root /\ InitiateRecovery(root, req.newRoot, req)
    BY <1>4 DEF Initiated
  <2>2. /\ pendingNewRoot[root] = NoAddress
        /\ pendingNewRoot'[root] # NoAddress
        /\ recoveryApprovals'[root] = 1
        /\ recoveryInitiatedAt'[root] = recoveryInitiatedAt[root]
    BY <2>1 DEF InitiateRecovery, TypeOK
  <2>3. QED
    BY <1>1, <1>2, <2>2 DEF RecoveryCoherentAt, Pending
<1>5. CASE Supported(root)
  <2>1. PICK req \in RecoveryRequest :
          req.oldRoot = root /\ SupportRecovery(root, req)
    BY <1>5 DEF Supported
  <2>2. /\ pendingNewRoot[root] # NoAddress
        /\ pendingNewRoot'[root] = pendingNewRoot[root]
        /\ recoveryApprovals'[root] = recoveryApprovals[root] + 1
    BY <2>1 DEF SupportRecovery, TypeOK
  <2>3. recoveryInitiatedAt'[root] =
          IF /\ recoveryApprovals[root] + 1 >= GuardianThreshold
             /\ recoveryInitiatedAt[root] = 0
          THEN now ELSE recoveryInitiatedAt[root]
    BY <2>1 DEF SupportRecovery, TimelockStart, TypeOK
  <2>4. QED
    BY <1>1, <1>2, <2>2, <2>3 DEF RecoveryCoherentAt, Pending
<1>6. CASE Cancelled(root) \/ FinalizeRecovery(root)
  <2>1. /\ pendingNewRoot'[root] = NoAddress
        /\ recoveryApprovals'[root] = 0
        /\ recoveryInitiatedAt'[root] = 0
        /\ identityState'[root] = "Active"
    BY <1>6 DEF Cancelled, CancelRecovery, FinalizeRecovery, ClearRecovery,
                TypeOK
  <2>2. QED
    BY <1>2, <2>1 DEF RecoveryCoherentAt, Pending
<1>7. QED
  BY <1>3, <1>4, <1>5, <1>6, RecoveryStep

(* The four recovery mappings agree in every reachable state.              *)
THEOREM RecoveryIsCoherent == Spec => []RecoveryCoherent
<1>1. Init => RecoveryCoherent
  BY ParameterAssumption
  DEF Init, RecoveryCoherent, RecoveryCoherentAt, Pending
<1>2. QED
  BY <1>1, CoherentStep, TypeCorrect, PTL DEF Spec

-----------------------------------------------------------------------------
(* As long as the pending request and its nonce stay, signatures and       *)
(* approvals only add supporters.                                          *)
LEMMA SupportersGrow ==
  ASSUME TypeOK, TypeOK', NEW root \in Address,
         signed \subseteq signed',
         pendingNewRoot'[root] = pendingNewRoot[root],
         recoveryNonces'[root] = recoveryNonces[root],
         recoveryApproved[root] \subseteq recoveryApproved'[root]
  PROVE  /\ Supporters(root) \subseteq Supporters(root)'
         /\ IsFiniteSet(Supporters(root)')
         /\ Cardinality(Supporters(root)) \in Nat
         /\ Cardinality(Supporters(root)') \in Nat
         /\ Cardinality(Supporters(root)) <= Cardinality(Supporters(root)')
<1>1. Supporters(root) \subseteq Supporters(root)'
  BY DEF Supporters, IsCurrentRequest
<1>2. Supporters(root)' \subseteq Address
  BY DEF Supporters, TypeOK
<1>3. IsFiniteSet(Supporters(root)')
  BY <1>2, AddressAssumption, FS_Subset
<1>4. /\ IsFiniteSet(Supporters(root))
      /\ Cardinality(Supporters(root)) <= Cardinality(Supporters(root)')
  BY <1>1, <1>3, FS_Subset
<1>5. QED
  BY <1>1, <1>3, <1>4, FS_CardinalityType

(* A step that counts an approval adds its supporter.                      *)
LEMMA ConsentsStep ==
  ASSUME TypeOK, TypeOK', ApprovalsAreConsents, [Next]_vars
  PROVE  ApprovalsAreConsents'
<1> SUFFICES ASSUME NEW root \in Address, Pending(root)'
             PROVE  recoveryApprovals'[root] <= Cardinality(Supporters(root)')
  BY DEF ApprovalsAreConsents, ConsentsCover
<1>1. Pending(root) => recoveryApprovals[root] <= Cardinality(Supporters(root))
  BY DEF ApprovalsAreConsents, ConsentsCover
<1>2. signed \subseteq signed'
  BY RecoveryStep
<1>3. recoveryApprovals[root] \in Nat
  BY DEF TypeOK
<1>4. CASE Untouched(root)
  <2>1. Pending(root)
    BY <1>4 DEF Pending, Untouched
  <2>2. /\ Cardinality(Supporters(root)) <= Cardinality(Supporters(root)')
        /\ Cardinality(Supporters(root)) \in Nat
        /\ Cardinality(Supporters(root)') \in Nat
    BY <1>2, <1>4, SupportersGrow DEF Untouched
  <2>3. recoveryApprovals'[root] = recoveryApprovals[root]
    BY <1>4 DEF Untouched
  <2>4. QED
    BY <1>1, <1>3, <2>1, <2>2, <2>3
<1>5. CASE Initiated(root)
  <2>1. PICK req \in RecoveryRequest :
          req.oldRoot = root /\ InitiateRecovery(root, req.newRoot, req)
    BY <1>5 DEF Initiated
  <2>2. req.signer \in Supporters(root)'
    BY <2>1 DEF Supporters, IsCurrentRequest, InitiateRecovery, TypeOK
  <2>3. recoveryApprovals'[root] = 1
    BY <2>1 DEF InitiateRecovery, TypeOK
  <2>4. IsFiniteSet(Supporters(root)')
    <3>1. Supporters(root)' \subseteq Address
      BY DEF Supporters, TypeOK
    <3>2. QED
      BY <3>1, AddressAssumption, FS_Subset
  <2>5. /\ Cardinality(Supporters(root)') \in Nat
        /\ Cardinality(Supporters(root)') # 0
    BY <2>2, <2>4, FS_CardinalityType, FS_EmptySet
  <2>6. QED
    BY <2>3, <2>5
<1>6. CASE Supported(root)
  <2>1. PICK req \in RecoveryRequest :
          req.oldRoot = root /\ SupportRecovery(root, req)
    BY <1>6 DEF Supported
  <2>2. /\ pendingNewRoot' = pendingNewRoot
        /\ recoveryNonces' = recoveryNonces
        /\ recoveryApproved'[root] = recoveryApproved[root] \cup {req.signer}
        /\ recoveryApprovals'[root] = recoveryApprovals[root] + 1
        /\ req.signer \notin recoveryApproved[root]
        /\ Pending(root)
    BY <2>1 DEF SupportRecovery, NotYetApproved, Pending, TypeOK
  <2>3. /\ Supporters(root) \subseteq Supporters(root)'
        /\ IsFiniteSet(Supporters(root)')
        /\ Cardinality(Supporters(root)) \in Nat
        /\ Cardinality(Supporters(root)') \in Nat
    BY <1>2, <2>2, SupportersGrow
  <2>4. req.signer \in Supporters(root)' /\ req.signer \notin Supporters(root)
    BY <2>1, <2>2 DEF Supporters, IsCurrentRequest, SupportRecovery, TypeOK
  <2>5. Cardinality(Supporters(root)) < Cardinality(Supporters(root)')
    BY <2>3, <2>4, FS_Subset
  <2>6. QED
    BY <1>1, <1>3, <2>2, <2>3, <2>5
<1>7. CASE Cancelled(root) \/ FinalizeRecovery(root)
  <2>1. pendingNewRoot'[root] = NoAddress
    BY <1>7 DEF Cancelled, CancelRecovery, FinalizeRecovery, ClearRecovery,
                TypeOK
  <2>2. QED
    BY <2>1 DEF Pending
<1>8. QED
  BY <1>4, <1>5, <1>6, <1>7, RecoveryStep

(* Every approval that counts is the consent of a different account to the *)
(* very request that is pending.                                           *)
THEOREM ApprovalsBacked == Spec => []ApprovalsAreConsents
<1>1. Init => ApprovalsAreConsents
  BY DEF Init, ApprovalsAreConsents, ConsentsCover, Pending
<1>2. QED
  BY <1>1, ConsentsStep, TypeCorrect, PTL DEF Spec

-----------------------------------------------------------------------------
(* Nobody amends a pending recovery or moves its timelock.                 *)
THEOREM RequestIsFixed == Spec => PendingRequestIsFixed
<1>1. TypeOK /\ RecoveryCoherent /\ [Next]_vars =>
        [\A root \in Address :
           Pending(root) /\ Pending(root)' =>
             /\ pendingNewRoot'[root] = pendingNewRoot[root]
             /\ recoveryInitiatedAt[root] # 0 =>
                  recoveryInitiatedAt'[root] = recoveryInitiatedAt[root]]_vars
  <2> SUFFICES ASSUME TypeOK, [Next]_vars, NEW root \in Address,
                      Pending(root), Pending(root)'
               PROVE  /\ pendingNewRoot'[root] = pendingNewRoot[root]
                      /\ recoveryInitiatedAt[root] # 0 =>
                           recoveryInitiatedAt'[root] = recoveryInitiatedAt[root]
    OBVIOUS
  <2>1. CASE Untouched(root)
    BY <2>1 DEF Untouched
  <2>2. CASE Initiated(root)
    BY <2>2 DEF Initiated, InitiateRecovery, Pending
  <2>3. CASE Supported(root)
    BY <2>3 DEF Supported, SupportRecovery, TimelockStart, TypeOK
  <2>4. CASE Cancelled(root) \/ FinalizeRecovery(root)
    BY <2>4 DEF Cancelled, CancelRecovery, FinalizeRecovery, ClearRecovery,
                Pending, TypeOK
  <2>5. QED
    BY <2>1, <2>2, <2>3, <2>4, RecoveryStep
<1>2. QED
  BY <1>1, TypeCorrect, RecoveryIsCoherent, PTL
  DEF Spec, PendingRequestIsFixed

(* The step that carries a recovery through finds a quorum of consents and *)
(* the window over.                                                        *)
LEMMA QuorumStep ==
  ASSUME TypeOK, ApprovalsAreConsents, [Next]_vars, NEW root \in Address,
         recoveryNonces'[root] # recoveryNonces[root]
  PROVE  /\ pendingNewRoot[root] \in authorizedProvers'
         /\ Cardinality(Supporters(root)) >= GuardianThreshold
         /\ recoveryInitiatedAt[root] # 0
         /\ recoveryInitiatedAt[root] + RecoveryWindow <= now
<1>1. FinalizeRecovery(root)
  <2>1. ~ Untouched(root)
    BY DEF Untouched
  <2>2. ~ Initiated(root) /\ ~ Supported(root) /\ ~ Cancelled(root)
    BY DEF Initiated, InitiateRecovery, Supported, SupportRecovery,
           Cancelled, CancelRecovery
  <2>3. QED
    BY <2>1, <2>2, RecoveryStep
<1>2. Pending(root) /\ recoveryApprovals[root] >= GuardianThreshold
  BY <1>1 DEF FinalizeRecovery, Pending
<1>3. recoveryApprovals[root] <= Cardinality(Supporters(root))
  BY <1>2 DEF ApprovalsAreConsents, ConsentsCover
<1>4. Cardinality(Supporters(root)) \in Nat
  <2>1. Supporters(root) \subseteq Address
    BY DEF Supporters, TypeOK
  <2>2. QED
    BY <2>1, AddressAssumption, FS_Subset, FS_CardinalityType
<1>5. Cardinality(Supporters(root)) >= GuardianThreshold
  BY <1>2, <1>3, <1>4, ParameterAssumption DEF TypeOK
<1>6. /\ now \in Nat
      /\ recoveryInitiatedAt[root] + RecoveryWindow \in Nat
  BY ParameterAssumption DEF TypeOK
<1>7. QED
  BY <1>1, <1>5, <1>6 DEF FinalizeRecovery, TimelockExpired

(* It is so from whatever state the contract starts in.                    *)
LEMMA QuorumFromAnyState ==
  TypeOK /\ ApprovalsAreConsents /\ [][Next]_vars => RecoveryNeedsQuorumAndWindow
<1>1. TypeOK /\ ApprovalsAreConsents /\ [Next]_vars =>
        [\A root \in Address :
           recoveryNonces'[root] # recoveryNonces[root] =>
             /\ pendingNewRoot[root] \in authorizedProvers'
             /\ Cardinality(Supporters(root)) >= GuardianThreshold
             /\ recoveryInitiatedAt[root] # 0
             /\ recoveryInitiatedAt[root] + RecoveryWindow <= now]_vars
  BY QuorumStep
<1>2. TypeOK /\ ApprovalsAreConsents /\ [Next]_vars
        => (TypeOK /\ ApprovalsAreConsents)'
  BY TypeStep, ConsentsStep
<1>3. QED
  BY <1>1, <1>2, PTL DEF RecoveryNeedsQuorumAndWindow

(* A recovery takes effect only with a quorum of consents and after the    *)
(* whole window.                                                           *)
THEOREM QuorumAndWindow == Spec => RecoveryNeedsQuorumAndWindow
<1>1. Init => TypeOK /\ ApprovalsAreConsents
  BY InitTyped DEF Init, ApprovalsAreConsents, ConsentsCover, Pending
<1>2. QED
  BY <1>1, QuorumFromAnyState, PTL DEF Spec

-----------------------------------------------------------------------------
(* A call about one root is the abstract step of its kind.                 *)
LEMMA CallIsAbstractStep ==
  ASSUME TypeOK, NEW root \in Address,
         Initiated(root) \/ Supported(root)
           \/ Cancelled(root) \/ FinalizeRecovery(root)
  PROVE  [SR!Next]_SR!vars
<1>1. CASE Initiated(root)
  <2>1. PICK req \in RecoveryRequest :
          req.oldRoot = root /\ InitiateRecovery(root, req.newRoot, req)
    BY <1>1 DEF Initiated
  <2>2. req.newRoot \in Address
    BY <2>1, MessageAssumption DEF IsRecoveryRequest, InitiateRecovery
  <2>3. SR!Propose(root, req.newRoot)
    BY <2>1 DEF InitiateRecovery, SR!Propose
  <2>4. QED
    BY <2>2, <2>3 DEF SR!Next
<1>2. CASE Supported(root)
  <2>1. PICK req \in RecoveryRequest :
          req.oldRoot = root /\ SupportRecovery(root, req)
    BY <1>2 DEF Supported
  <2>2. /\ UNCHANGED <<now, pendingNewRoot, recoveryNonces>>
        /\ pendingNewRoot[root] # NoAddress
        /\ recoveryInitiatedAt' =
             [recoveryInitiatedAt EXCEPT
                ![root] = TimelockStart(root, recoveryApprovals[root] + 1)]
    BY <2>1 DEF SupportRecovery
  <2>3. \/ SR!StartTimelock(root)
        \/ UNCHANGED recoveryInitiatedAt
    BY <2>2 DEF TimelockStart, SR!StartTimelock, TypeOK
  <2>4. QED
    BY <2>2, <2>3 DEF SR!Next, SR!vars
<1>3. CASE Cancelled(root)
  <2>1. SR!Abandon(root)
    BY <1>3 DEF Cancelled, CancelRecovery, ClearRecovery, SR!Abandon, SR!Forget
  <2>2. QED
    BY <2>1 DEF SR!Next
<1>4. CASE FinalizeRecovery(root)
  <2>1. SR!Move(root)
    BY <1>4 DEF FinalizeRecovery, TimelockExpired, ClearRecovery,
                ConsumeRecoveryNonce, SR!Move, SR!Forget
  <2>2. QED
    BY <2>1 DEF SR!Next
<1>5. QED
  BY <1>1, <1>2, <1>3, <1>4

(* So every step is an abstract step or none.                              *)
LEMMA AbstractStep ==
  ASSUME TypeOK, TypeOK', [Next]_vars
  PROVE  [SR!Next]_SR!vars
<1>1. CASE Tick
  BY <1>1 DEF Tick, storeVars, recoveryVars, SR!Next, SR!Tick
<1>2. CASE \E root \in Address :
             Initiated(root) \/ Supported(root)
               \/ Cancelled(root) \/ FinalizeRecovery(root)
  BY <1>2, CallIsAbstractStep
<1>3. CASE ~ Tick /\ \A root \in Address : Untouched(root)
  <2>1. now' = now
    BY <1>3
    DEF Next, Environment, Calls, vars, Administration,
        AuthorizeKey, RevokeKey, RegisterProver, RevokeProver,
        SetGuardians, FreezeIdentity, UnfreezeIdentity, CancelAllSessions,
        IntentValidation, Validation, ValidateIntent, ValidateDelegatedIntent,
        GatedPurchase, SignRecoveryRequest, GuardianCalls,
        InitiateRecovery, SupportRecovery, RecoveryEnd, CancelRecovery,
        FinalizeRecovery
  <2>2. pendingNewRoot' = pendingNewRoot
    BY <1>3 DEF Untouched, TypeOK
  <2>3. recoveryInitiatedAt' = recoveryInitiatedAt
    BY <1>3 DEF Untouched, TypeOK
  <2>4. recoveryNonces' = recoveryNonces
    BY <1>3 DEF Untouched, TypeOK
  <2>5. QED
    BY <2>1, <2>2, <2>3, <2>4 DEF SR!vars
<1>4. QED
  BY <1>1, <1>2, <1>3, RecoveryStep

(* The contract implements the abstract social recovery.                   *)
THEOREM ImplementsSocialRecovery == Spec => SocialRecoveryKept
<1>1. Init => SR!Init
  BY DEF Init, SR!Init
<1>2. QED
  BY <1>1, AbstractStep, TypeCorrect, PTL
  DEF Spec, SocialRecoveryKept, SR!Spec

=============================================================================
