------------------------ MODULE IdentityHistoryProofs ------------------------
(***************************************************************************)
(* Proofs about IdentityHistory: how often a signed message can be used.   *)
(***************************************************************************)
EXTENDS IdentityHistory, IdentityStoreProofs

(* How often a slot may have been used that its counter has passed or not, *)
(* if the counter was set back to zero `resets' times.                     *)
UsesAllowed(counter, n, resets) == (IF counter <= n THEN 0 ELSE 1) + resets

(* The strengthening of NonceSpentOncePerReset: a nonce the counter has    *)
(* not reached was used once less.                                         *)
IntentSlotsAccounted ==
  \A s \in IntentSlot :
    intentsValidated[s] <= UsesAllowed(nonces[s[1]], s[2], becameRoot[s[1]])

DelegationSlotsAccounted ==
  \A s \in DelegationSlot :
    delegationsEndorsed[s]
      <= UsesAllowed(delegationNonces[s[1]], s[2], becameRoot[s[1]])

(* The strengthening of FinalizedRecoveryNotReplayed: the nonce of every   *)
(* recovery that was carried through lies behind.                          *)
FinalizedAreOver ==
  \A r \in recoveriesFinalized : r[3] < recoveryNonces[r[1]]

HistoryInv ==
  /\ HTypeOK
  /\ IntentSlotsAccounted
  /\ DelegationSlotsAccounted
  /\ FinalizedAreOver
  /\ PurchasesAreEndorsed

(* The slots belong to addresses and their nonces are numbers.             *)
LEMMA Slots ==
  /\ \A i \in Intent : <<i.signer, i.nonce>> \in IntentSlot
  /\ \A d \in Delegation : <<d.prover, d.nonce>> \in DelegationSlot
  /\ \A s \in IntentSlot : s = <<s[1], s[2]>> /\ s[1] \in Address /\ s[2] \in Nat
  /\ \A s \in DelegationSlot :
       s = <<s[1], s[2]>> /\ s[1] \in Address /\ s[2] \in Nat
BY MessageAssumption DEF IntentSlot, DelegationSlot, IsIntent, IsDelegation

(* A step of the history is a step of the contract.                        *)
LEMMA HistoryStep ==
  ASSUME [HNext]_hvars
  PROVE  [Next]_vars
<1>1. CASE UNCHANGED hvars
  BY <1>1 DEF hvars
<1>2. CASE HOther
  BY <1>2 DEF HOther, Next, Calls, RecoveryEnd
<1>3. CASE HGatedPurchase
  BY <1>3 DEF HGatedPurchase, Next, Calls, IntentValidation
<1>4. ASSUME NEW intent \in Intent, NEW value \in CallValue,
             \/ HValidateIntent(intent, value)
             \/ \E delegation \in Delegation :
                  HValidateDelegatedIntent(delegation, intent, value)
      PROVE  Next
  BY <1>4 DEF HValidateIntent, HValidateDelegatedIntent, Next, Calls,
              IntentValidation, Validation
<1>5. ASSUME NEW oldRoot \in Address, HFinalizeRecovery(oldRoot)
      PROVE  Next
  BY <1>5 DEF HFinalizeRecovery, Next, Calls, RecoveryEnd
<1>6. QED
  BY <1>1, <1>2, <1>3, <1>4, <1>5 DEF HNext

(* The calls that no history variable counts leave the counters alone.     *)
LEMMA OtherKeepsCounters ==
  ASSUME HOther \/ UNCHANGED hvars
  PROVE  /\ UNCHANGED <<nonces, delegationNonces, recoveryNonces, _gateOpen>>
         /\ UNCHANGED historyVars
<1>1. CASE UNCHANGED hvars
  BY <1>1 DEF hvars, vars, storeVars, keyVars
<1>2. CASE HOther
  <2>1. CASE Environment
    BY <1>2, <2>1 DEF HOther, Environment, Tick, SignRecoveryRequest, storeVars,
                      keyVars
  <2>2. CASE Administration(Address)
    BY <1>2, <2>2
    DEF HOther, Administration, AuthorizeKey, RevokeKey, RegisterProver,
        RevokeProver, SetGuardians, FreezeIdentity, UnfreezeIdentity,
        CancelAllSessions, keyVars
  <2>3. CASE GuardianCalls
    BY <1>2, <2>3
    DEF HOther, GuardianCalls, InitiateRecovery, SupportRecovery, keyVars
  <2>4. CASE \E caller, oldRoot \in Address : CancelRecovery(caller, oldRoot)
    BY <1>2, <2>4 DEF HOther, CancelRecovery, keyVars
  <2>5. QED
    BY <1>2, <2>1, <2>2, <2>3, <2>4 DEF HOther
<1>3. QED
  BY <1>1, <1>2

(* Using a slot that the counter stands at, and setting the counter back,  *)
(* both keep the account.                                                  *)
LEMMA UseAndReset ==
  ASSUME NEW used \in Nat, NEW counter \in Nat, NEW n \in Nat, NEW resets \in Nat,
         used <= UsesAllowed(counter, n, resets)
  PROVE  /\ used <= UsesAllowed(counter + 1, n, resets)
         /\ counter = n => used + 1 <= UsesAllowed(counter + 1, n, resets)
         /\ used <= UsesAllowed(counter, n, resets + 1)
         /\ used <= UsesAllowed(0, n, resets + 1)
         /\ used <= 1 + resets
BY DEF UsesAllowed

(* It holds before anything happened.                                      *)
LEMMA HistoryInit ==
  ASSUME HInit
  PROVE  HistoryInv
<1>1. TypeOK
  BY InitTyped DEF HInit
<1>2. HTypeOK
  BY <1>1 DEF HInit, HTypeOK
<1>3. IntentSlotsAccounted /\ DelegationSlotsAccounted
  BY Slots DEF HInit, Init, IntentSlotsAccounted, DelegationSlotsAccounted,
               UsesAllowed
<1>4. FinalizedAreOver /\ PurchasesAreEndorsed
  BY DEF HInit, Init, FinalizedAreOver, PurchasesAreEndorsed
<1>5. QED
  BY <1>2, <1>3, <1>4 DEF HistoryInv

(* HTypeOK, one action at a time.                                          *)
LEMMA HistoryTypeStep ==
  ASSUME HTypeOK, [HNext]_hvars
  PROVE  HTypeOK'
<1>1. TypeOK'
  BY HistoryStep, TypeStep DEF HTypeOK
<1>2. CASE HOther \/ UNCHANGED hvars
  BY <1>1, <1>2, OtherKeepsCounters DEF HTypeOK, historyVars
<1>3. CASE HGatedPurchase
  BY <1>1, <1>3 DEF HTypeOK, HGatedPurchase
<1>4. ASSUME NEW intent \in Intent, NEW value \in CallValue,
             HValidateIntent(intent, value)
      PROVE  HTypeOK'
  <2>1. intentsValidated' \in [IntentSlot -> Nat]
    BY <1>4, Slots DEF HTypeOK, HValidateIntent
  <2>2. QED
    BY <1>1, <1>4, <2>1 DEF HTypeOK, HValidateIntent
<1>5. ASSUME NEW intent \in Intent, NEW value \in CallValue,
             NEW delegation \in Delegation,
             HValidateDelegatedIntent(delegation, intent, value)
      PROVE  HTypeOK'
  <2>1. intentsValidated' \in [IntentSlot -> Nat]
    BY <1>5, Slots DEF HTypeOK, HValidateDelegatedIntent
  <2>2. delegationsEndorsed' \in [DelegationSlot -> Nat]
    BY <1>5, Slots DEF HTypeOK, HValidateDelegatedIntent
  <2>3. gateOpened' \in Nat
    BY <1>5 DEF HTypeOK, HValidateDelegatedIntent
  <2>4. QED
    BY <1>1, <1>5, <2>1, <2>2, <2>3 DEF HTypeOK, HValidateDelegatedIntent
<1>6. ASSUME NEW oldRoot \in Address, HFinalizeRecovery(oldRoot)
      PROVE  HTypeOK'
  <2>1. pendingNewRoot[oldRoot] \in Address /\ recoveryNonces[oldRoot] \in Nat
    BY <1>6 DEF HFinalizeRecovery, FinalizeRecovery, HTypeOK, TypeOK
  <2>2. recoveriesFinalized' \subseteq Address \X Address \X Nat
    BY <1>6, <2>1 DEF HFinalizeRecovery, PendingRecovery, HTypeOK
  <2>3. becameRoot' \in [Address -> Nat]
    BY <1>6, <2>1 DEF HFinalizeRecovery, HTypeOK
  <2>4. QED
    BY <1>1, <1>6, <2>2, <2>3 DEF HTypeOK, HFinalizeRecovery
<1>7. QED
  BY <1>2, <1>3, <1>4, <1>5, <1>6 DEF HNext

(* No step takes the account of the intent slots out of balance.           *)
LEMMA IntentSlotsStep ==
  ASSUME HistoryInv, [HNext]_hvars
  PROVE  IntentSlotsAccounted'
<1> SUFFICES ASSUME NEW s \in IntentSlot
             PROVE  intentsValidated'[s]
                      <= UsesAllowed(nonces'[s[1]], s[2], becameRoot'[s[1]])
  BY DEF IntentSlotsAccounted
<1>1. /\ s = <<s[1], s[2]>> /\ s[1] \in Address /\ s[2] \in Nat
      /\ intentsValidated[s] \in Nat
      /\ nonces[s[1]] \in Nat /\ becameRoot[s[1]] \in Nat
      /\ intentsValidated \in [IntentSlot -> Nat]
      /\ nonces \in [Address -> Nat] /\ becameRoot \in [Address -> Nat]
  BY Slots DEF HistoryInv, HTypeOK, TypeOK
<1>2. intentsValidated[s] <= UsesAllowed(nonces[s[1]], s[2], becameRoot[s[1]])
  BY DEF HistoryInv, IntentSlotsAccounted
<1>3. CASE HOther \/ UNCHANGED hvars
  BY <1>2, <1>3, OtherKeepsCounters DEF historyVars
<1>4. CASE HGatedPurchase
  BY <1>2, <1>4 DEF HGatedPurchase, GatedPurchase
<1>5. ASSUME NEW i \in Intent, i.nonce = nonces[i.signer],
             nonces' = [nonces EXCEPT ![i.signer] = @ + 1],
             intentsValidated' =
               [intentsValidated EXCEPT ![<<i.signer, i.nonce>>] = @ + 1],
             becameRoot' = becameRoot
      PROVE  intentsValidated'[s]
               <= UsesAllowed(nonces'[s[1]], s[2], becameRoot'[s[1]])
  <2>1. CASE s[1] # i.signer
    BY <1>1, <1>2, <1>5, <2>1
  <2>2. CASE s[1] = i.signer /\ s[2] # i.nonce
    <3>1. nonces'[s[1]] = nonces[s[1]] + 1
      BY <1>1, <1>5, <2>2
    <3>2. intentsValidated'[s] = intentsValidated[s]
      BY <1>1, <1>5, <2>2
    <3>3. QED
      BY <1>1, <1>2, <1>5, <3>1, <3>2, UseAndReset
  <2>3. CASE s = <<i.signer, i.nonce>>
    <3>1. nonces'[s[1]] = nonces[s[1]] + 1 /\ nonces[s[1]] = s[2]
      BY <1>1, <1>5, <2>3
    <3>2. intentsValidated'[s] = intentsValidated[s] + 1
      BY <1>1, <1>5, <2>3
    <3>3. QED
      BY <1>1, <1>2, <1>5, <3>1, <3>2, UseAndReset
  <2>4. QED
    BY <1>1, <2>1, <2>2, <2>3
<1>6. ASSUME NEW intent \in Intent, NEW value \in CallValue,
             HValidateIntent(intent, value)
      PROVE  intentsValidated'[s]
               <= UsesAllowed(nonces'[s[1]], s[2], becameRoot'[s[1]])
  BY <1>5, <1>6 DEF HValidateIntent, ValidateIntent, ConsumeNonce
<1>7. ASSUME NEW intent \in Intent, NEW value \in CallValue,
             NEW delegation \in Delegation,
             HValidateDelegatedIntent(delegation, intent, value)
      PROVE  intentsValidated'[s]
               <= UsesAllowed(nonces'[s[1]], s[2], becameRoot'[s[1]])
  <2>1. intent.signer = delegation.delegate
    BY <1>7 DEF HValidateDelegatedIntent, ValidateDelegatedIntent
  <2>2. QED
    BY <1>5, <1>7, <2>1
    DEF HValidateDelegatedIntent, ValidateDelegatedIntent, ConsumeNonce
<1>8. ASSUME NEW oldRoot \in Address, HFinalizeRecovery(oldRoot)
      PROVE  intentsValidated'[s]
               <= UsesAllowed(nonces'[s[1]], s[2], becameRoot'[s[1]])
  <2>1. /\ nonces' = [nonces EXCEPT ![pendingNewRoot[oldRoot]] = 0]
        /\ becameRoot' = [becameRoot EXCEPT ![pendingNewRoot[oldRoot]] = @ + 1]
        /\ intentsValidated' = intentsValidated
    BY <1>8 DEF HFinalizeRecovery, FinalizeRecovery
  <2>2. CASE s[1] = pendingNewRoot[oldRoot]
    BY <1>1, <1>2, <2>1, <2>2, UseAndReset
  <2>3. CASE s[1] # pendingNewRoot[oldRoot]
    BY <1>1, <1>2, <2>1, <2>3
  <2>4. QED
    BY <2>2, <2>3
<1>9. QED
  BY <1>3, <1>4, <1>6, <1>7, <1>8 DEF HNext

(* The same for the delegation slots.                                      *)
LEMMA DelegationSlotsStep ==
  ASSUME HistoryInv, [HNext]_hvars
  PROVE  DelegationSlotsAccounted'
<1> SUFFICES ASSUME NEW s \in DelegationSlot
             PROVE  delegationsEndorsed'[s]
                      <= UsesAllowed(delegationNonces'[s[1]], s[2],
                                     becameRoot'[s[1]])
  BY DEF DelegationSlotsAccounted
<1>1. /\ s = <<s[1], s[2]>> /\ s[1] \in Address /\ s[2] \in Nat
      /\ delegationsEndorsed[s] \in Nat
      /\ delegationNonces[s[1]] \in Nat /\ becameRoot[s[1]] \in Nat
      /\ delegationsEndorsed \in [DelegationSlot -> Nat]
      /\ delegationNonces \in [Address -> Nat]
      /\ becameRoot \in [Address -> Nat]
  BY Slots DEF HistoryInv, HTypeOK, TypeOK
<1>2. delegationsEndorsed[s]
        <= UsesAllowed(delegationNonces[s[1]], s[2], becameRoot[s[1]])
  BY DEF HistoryInv, DelegationSlotsAccounted
<1>3. CASE HOther \/ UNCHANGED hvars
  BY <1>2, <1>3, OtherKeepsCounters DEF historyVars
<1>4. CASE HGatedPurchase
  BY <1>2, <1>4 DEF HGatedPurchase, GatedPurchase
<1>5. ASSUME NEW intent \in Intent, NEW value \in CallValue,
             HValidateIntent(intent, value)
      PROVE  delegationsEndorsed'[s]
               <= UsesAllowed(delegationNonces'[s[1]], s[2], becameRoot'[s[1]])
  BY <1>2, <1>5 DEF HValidateIntent, ValidateIntent
<1>6. ASSUME NEW intent \in Intent, NEW value \in CallValue,
             NEW d \in Delegation, HValidateDelegatedIntent(d, intent, value)
      PROVE  delegationsEndorsed'[s]
               <= UsesAllowed(delegationNonces'[s[1]], s[2], becameRoot'[s[1]])
  <2>1. /\ d.nonce = delegationNonces[d.prover]
        /\ delegationNonces' = [delegationNonces EXCEPT ![d.prover] = @ + 1]
        /\ delegationsEndorsed' =
             [delegationsEndorsed EXCEPT ![<<d.prover, d.nonce>>] = @ + 1]
        /\ becameRoot' = becameRoot
    BY <1>6 DEF HValidateDelegatedIntent, ValidateDelegatedIntent
  <2>2. CASE s[1] # d.prover
    BY <1>1, <1>2, <2>1, <2>2
  <2>3. CASE s[1] = d.prover /\ s[2] # d.nonce
    <3>1. delegationNonces'[s[1]] = delegationNonces[s[1]] + 1
      BY <1>1, <2>1, <2>3
    <3>2. delegationsEndorsed'[s] = delegationsEndorsed[s]
      BY <1>1, <2>1, <2>3
    <3>3. QED
      BY <1>1, <1>2, <2>1, <3>1, <3>2, UseAndReset
  <2>4. CASE s = <<d.prover, d.nonce>>
    <3>1. /\ delegationNonces'[s[1]] = delegationNonces[s[1]] + 1
          /\ delegationNonces[s[1]] = s[2]
      BY <1>1, <2>1, <2>4
    <3>2. delegationsEndorsed'[s] = delegationsEndorsed[s] + 1
      BY <1>1, <2>1, <2>4
    <3>3. QED
      BY <1>1, <1>2, <2>1, <3>1, <3>2, UseAndReset
  <2>5. QED
    BY <1>1, <2>2, <2>3, <2>4
<1>7. ASSUME NEW oldRoot \in Address, HFinalizeRecovery(oldRoot)
      PROVE  delegationsEndorsed'[s]
               <= UsesAllowed(delegationNonces'[s[1]], s[2], becameRoot'[s[1]])
  <2>1. /\ delegationNonces' =
             [delegationNonces EXCEPT ![pendingNewRoot[oldRoot]] = 0]
        /\ becameRoot' = [becameRoot EXCEPT ![pendingNewRoot[oldRoot]] = @ + 1]
        /\ delegationsEndorsed' = delegationsEndorsed
    BY <1>7 DEF HFinalizeRecovery, FinalizeRecovery
  <2>2. CASE s[1] = pendingNewRoot[oldRoot]
    BY <1>1, <1>2, <2>1, <2>2, UseAndReset
  <2>3. CASE s[1] # pendingNewRoot[oldRoot]
    BY <1>1, <1>2, <2>1, <2>3
  <2>4. QED
    BY <2>2, <2>3
<1>8. QED
  BY <1>3, <1>4, <1>5, <1>6, <1>7 DEF HNext

(* Only finalizeRecovery moves a recovery nonce, and it moves it past the  *)
(* recovery it carries through.                                            *)
LEMMA FinalizedStep ==
  ASSUME HistoryInv, [HNext]_hvars
  PROVE  FinalizedAreOver'
<1> SUFFICES ASSUME NEW r \in recoveriesFinalized'
             PROVE  r[3] < recoveryNonces'[r[1]]
  BY DEF FinalizedAreOver
<1>1. HTypeOK /\ HTypeOK' /\ FinalizedAreOver
  BY HistoryTypeStep DEF HistoryInv
<1>2. CASE UNCHANGED <<recoveriesFinalized, recoveryNonces>>
  BY <1>1, <1>2 DEF FinalizedAreOver
<1>3. CASE HOther \/ UNCHANGED hvars
  BY <1>2, <1>3, OtherKeepsCounters DEF historyVars
<1>4. CASE HGatedPurchase
  BY <1>2, <1>4 DEF HGatedPurchase, GatedPurchase
<1>5. ASSUME NEW intent \in Intent, NEW value \in CallValue,
             \/ HValidateIntent(intent, value)
             \/ \E delegation \in Delegation :
                  HValidateDelegatedIntent(delegation, intent, value)
      PROVE  r[3] < recoveryNonces'[r[1]]
  BY <1>2, <1>5 DEF HValidateIntent, ValidateIntent, HValidateDelegatedIntent,
                    ValidateDelegatedIntent
<1>6. ASSUME NEW oldRoot \in Address, HFinalizeRecovery(oldRoot)
      PROVE  r[3] < recoveryNonces'[r[1]]
  <2>1. /\ recoveryNonces \in [Address -> Nat]
        /\ r[1] \in Address /\ r[3] \in Nat
    BY <1>1 DEF HTypeOK, TypeOK
  <2>2. /\ recoveryNonces' = [recoveryNonces EXCEPT ![oldRoot] = @ + 1]
        /\ recoveriesFinalized' =
             recoveriesFinalized \cup
               {<<oldRoot, pendingNewRoot[oldRoot], recoveryNonces[oldRoot]>>}
    BY <1>6 DEF HFinalizeRecovery, FinalizeRecovery, ConsumeRecoveryNonce,
                PendingRecovery
  <2>3. CASE r \in recoveriesFinalized
    <3>1. r[3] < recoveryNonces[r[1]]
      BY <1>1, <2>3 DEF FinalizedAreOver
    <3>2. recoveryNonces'[r[1]] \in {recoveryNonces[r[1]], recoveryNonces[r[1]] + 1}
      BY <2>1, <2>2
    <3>3. QED
      BY <2>1, <3>1, <3>2
  <2>4. CASE r = <<oldRoot, pendingNewRoot[oldRoot], recoveryNonces[oldRoot]>>
    BY <2>1, <2>2, <2>4
  <2>5. QED
    BY <2>2, <2>3, <2>4
<1>7. QED
  BY <1>3, <1>4, <1>5, <1>6 DEF HNext

(* The flag is raised once per endorsement and lowered once per purchase.  *)
LEMMA PurchasesStep ==
  ASSUME HistoryInv, [HNext]_hvars
  PROVE  PurchasesAreEndorsed'
<1>1. /\ purchases \in Nat /\ gateOpened \in Nat /\ _gateOpen \in BOOLEAN
      /\ purchases + (IF _gateOpen THEN 1 ELSE 0) <= gateOpened
  BY DEF HistoryInv, HTypeOK, TypeOK, PurchasesAreEndorsed
<1>2. CASE HOther \/ UNCHANGED hvars
  <2>1. UNCHANGED <<purchases, gateOpened, _gateOpen>>
    BY <1>2, OtherKeepsCounters DEF historyVars
  <2>2. QED
    BY <1>1, <2>1 DEF PurchasesAreEndorsed
<1>3. CASE HGatedPurchase
  <2>1. /\ _gateOpen /\ ~_gateOpen'
        /\ purchases' = purchases + 1 /\ gateOpened' = gateOpened
    BY <1>3 DEF HGatedPurchase, GatedPurchase
  <2>2. QED
    BY <1>1, <2>1 DEF PurchasesAreEndorsed
<1>4. ASSUME NEW intent \in Intent, NEW value \in CallValue,
             HValidateIntent(intent, value)
      PROVE  PurchasesAreEndorsed'
  BY <1>1, <1>4 DEF HValidateIntent, ValidateIntent, PurchasesAreEndorsed
<1>5. ASSUME NEW intent \in Intent, NEW value \in CallValue,
             NEW delegation \in Delegation,
             HValidateDelegatedIntent(delegation, intent, value)
      PROVE  PurchasesAreEndorsed'
  <2>1. /\ _gateOpen' /\ purchases' = purchases
        /\ gateOpened' = gateOpened + 1
    BY <1>5 DEF HValidateDelegatedIntent, ValidateDelegatedIntent
  <2>2. QED
    BY <1>1, <2>1 DEF PurchasesAreEndorsed
<1>6. ASSUME NEW oldRoot \in Address, HFinalizeRecovery(oldRoot)
      PROVE  PurchasesAreEndorsed'
  BY <1>1, <1>6 DEF HFinalizeRecovery, FinalizeRecovery, PurchasesAreEndorsed
<1>7. QED
  BY <1>2, <1>3, <1>4, <1>5, <1>6 DEF HNext

(* HistoryInv holds in every reachable state.                              *)
LEMMA HistoryInvariant == HSpec => []HistoryInv
<1>1. HInit => HistoryInv
  BY HistoryInit
<1>2. HistoryInv /\ [HNext]_hvars => HistoryInv'
  BY HistoryTypeStep, IntentSlotsStep, DelegationSlotsStep, FinalizedStep,
     PurchasesStep
  DEF HistoryInv
<1>3. QED
  BY <1>1, <1>2, PTL DEF HSpec

-----------------------------------------------------------------------------
(* The contract and its event counts keep their types.                     *)
THEOREM HistoryTypeCorrect == HSpec => []HTypeOK
BY HistoryInvariant, PTL DEF HistoryInv

(* One nonce admits one intent, and one endorsement, each time it is       *)
(* reached: as often as the signer's counter was reset, and once.          *)
THEOREM NoncesAdmitOnce == HSpec => []NonceSpentOncePerReset
<1>1. HistoryInv => NonceSpentOncePerReset
  <2> SUFFICES ASSUME HistoryInv
               PROVE  NonceSpentOncePerReset
    OBVIOUS
  <2>1. ASSUME NEW s \in IntentSlot
        PROVE  intentsValidated[s] <= 1 + becameRoot[s[1]]
    <3>1. /\ intentsValidated[s] \in Nat /\ nonces[s[1]] \in Nat
          /\ s[2] \in Nat /\ becameRoot[s[1]] \in Nat
      BY Slots DEF HistoryInv, HTypeOK, TypeOK
    <3>2. QED
      BY <3>1, UseAndReset DEF HistoryInv, IntentSlotsAccounted
  <2>2. ASSUME NEW s \in DelegationSlot
        PROVE  delegationsEndorsed[s] <= 1 + becameRoot[s[1]]
    <3>1. /\ delegationsEndorsed[s] \in Nat /\ delegationNonces[s[1]] \in Nat
          /\ s[2] \in Nat /\ becameRoot[s[1]] \in Nat
      BY Slots DEF HistoryInv, HTypeOK, TypeOK
    <3>2. QED
      BY <3>1, UseAndReset DEF HistoryInv, DelegationSlotsAccounted
  <2>3. QED
    BY <2>1, <2>2 DEF NonceSpentOncePerReset
<1>2. QED
  BY <1>1, HistoryInvariant, PTL

(* However validations and purchases of several callers are mixed, each    *)
(* purchase has an endorsed intent of its own.                             *)
THEOREM PurchasesEndorsed == HSpec => []PurchasesAreEndorsed
BY HistoryInvariant, PTL DEF HistoryInv

(* The signatures of a recovery that was carried through can never be      *)
(* pending again.                                                          *)
THEOREM RecoveryNotReplayed == HSpec => []FinalizedRecoveryNotReplayed
<1>1. HistoryInv => FinalizedRecoveryNotReplayed
  <2> SUFFICES ASSUME HistoryInv, NEW root \in Address, NEW a \in Address,
                      <<root, a, recoveryNonces[root]>> \in recoveriesFinalized
               PROVE  FALSE
    BY DEF FinalizedRecoveryNotReplayed
  <2>1. recoveryNonces[root] \in Nat
    BY DEF HistoryInv, HTypeOK, TypeOK
  <2>2. recoveryNonces[root] < recoveryNonces[root]
    BY DEF HistoryInv, FinalizedAreOver
  <2>3. QED
    BY <2>1, <2>2
<1>2. QED
  BY <1>1, HistoryInvariant, PTL

(* Counting its events adds no behaviour to the contract: whoever counts   *)
(* them watches IdentityStore, so all that is proved of it holds here too, *)
(* the refinement of SocialRecovery included.                              *)
THEOREM HistoryImplementsStore == HSpec => Spec
<1>1. HInit => Init
  BY DEF HInit
<1>2. ASSUME [HNext]_hvars
      PROVE  [Next]_vars
  <2>1. CASE HOther
    BY <2>1 DEF HOther, Next, Calls, RecoveryEnd
  <2>2. ASSUME NEW intent \in Intent, NEW value \in CallValue,
               \/ HValidateIntent(intent, value)
               \/ \E delegation \in Delegation :
                    HValidateDelegatedIntent(delegation, intent, value)
        PROVE  Next
    BY <2>2
    DEF HValidateIntent, HValidateDelegatedIntent, Next, Calls,
        IntentValidation, Validation
  <2>3. CASE HGatedPurchase
    BY <2>3 DEF HGatedPurchase, Next, Calls, IntentValidation
  <2>4. ASSUME NEW oldRoot \in Address, HFinalizeRecovery(oldRoot)
        PROVE  Next
    BY <2>4 DEF HFinalizeRecovery, Next, Calls, RecoveryEnd
  <2>5. CASE UNCHANGED hvars
    BY <2>5 DEF hvars
  <2>6. QED
    BY <1>2, <2>1, <2>2, <2>3, <2>4, <2>5 DEF HNext
<1>3. QED
  BY <1>1, <1>2, PTL DEF HSpec, Spec

=============================================================================
