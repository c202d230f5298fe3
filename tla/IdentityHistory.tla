--------------------------- MODULE IdentityHistory ---------------------------
(***************************************************************************)
(* IdentityStore with the part of its event log that tells how often a     *)
(* signed message was used.  Each variable counts events that one kind of  *)
(* call emits; none of them is read by the contract, so the behaviours of  *)
(* IdentityStore are unchanged.                                            *)
(***************************************************************************)
EXTENDS IdentityStore

(* What a nonce is meant to make unique: a signer with one of its nonces.  *)
IntentSlot == {<<i.signer, i.nonce>> : i \in Intent}
DelegationSlot == {<<d.prover, d.nonce>> : d \in Delegation}

VARIABLES
  intentsValidated,     \* Per intent slot: IntentValidated events, and those
                        \* DelegatedIntentValidated events that used the slot
  delegationsEndorsed,  \* Per delegation slot: DelegationEndorsed events
  recoveriesFinalized,  \* RecoveryFinalized events, as <<old, new, nonce>>
  becameRoot,           \* Per address: RecoveryFinalized events for it as newRoot
  gateOpened,           \* Number of DelegatedIntentValidated events
  purchases             \* Number of gatedPurchase calls that went through

historyVars == <<intentsValidated, delegationsEndorsed, recoveriesFinalized,
                 becameRoot, gateOpened, purchases>>
hvars == <<vars, historyVars>>

HTypeOK ==
  /\ TypeOK
  /\ intentsValidated \in [IntentSlot -> Nat]
  /\ delegationsEndorsed \in [DelegationSlot -> Nat]
  /\ recoveriesFinalized \subseteq Address \X Address \X Nat
  /\ becameRoot \in [Address -> Nat]
  /\ gateOpened \in Nat
  /\ purchases \in Nat

HInit ==
  /\ Init
  /\ intentsValidated = [s \in IntentSlot |-> 0]
  /\ delegationsEndorsed = [s \in DelegationSlot |-> 0]
  /\ recoveriesFinalized = {}
  /\ becameRoot = [a \in Address |-> 0]
  /\ gateOpened = 0
  /\ purchases = 0

(* The recovery of root that is pending, as its signatures name it.        *)
PendingRecovery(root) == <<root, pendingNewRoot[root], recoveryNonces[root]>>

HValidateIntent(intent, value) ==
  /\ ValidateIntent(intent, value)
  /\ intentsValidated' =
       [intentsValidated EXCEPT ![<<intent.signer, intent.nonce>>] = @ + 1]
  /\ UNCHANGED <<delegationsEndorsed, recoveriesFinalized, becameRoot,
                 gateOpened, purchases>>

HValidateDelegatedIntent(delegation, intent, value) ==
  /\ ValidateDelegatedIntent(delegation, intent, value)
  /\ intentsValidated' =
       [intentsValidated EXCEPT ![<<intent.signer, intent.nonce>>] = @ + 1]
  /\ delegationsEndorsed' =
       [delegationsEndorsed EXCEPT
          ![<<delegation.prover, delegation.nonce>>] = @ + 1]
  /\ gateOpened' = gateOpened + 1
  /\ UNCHANGED <<recoveriesFinalized, becameRoot, purchases>>

HGatedPurchase ==
  /\ GatedPurchase
  /\ purchases' = purchases + 1
  /\ UNCHANGED <<intentsValidated, delegationsEndorsed, recoveriesFinalized,
                 becameRoot, gateOpened>>

HFinalizeRecovery(oldRoot) ==
  /\ FinalizeRecovery(oldRoot)
  /\ recoveriesFinalized' = recoveriesFinalized \cup {PendingRecovery(oldRoot)}
  /\ becameRoot' = [becameRoot EXCEPT ![pendingNewRoot[oldRoot]] = @ + 1]
  /\ UNCHANGED <<intentsValidated, delegationsEndorsed, gateOpened, purchases>>

HOther ==
  /\ \/ Environment \/ Administration(Address) \/ GuardianCalls
     \/ \E caller, oldRoot \in Address : CancelRecovery(caller, oldRoot)
  /\ UNCHANGED historyVars

HNext ==
  \/ HOther
  \/ \E intent \in Intent, value \in CallValue :
       \/ HValidateIntent(intent, value)
       \/ \E delegation \in Delegation :
            HValidateDelegatedIntent(delegation, intent, value)
  \/ HGatedPurchase
  \/ \E oldRoot \in Address : HFinalizeRecovery(oldRoot)

HSpec == HInit /\ [][HNext]_hvars

-----------------------------------------------------------------------------
(* Properties.                                                             *)

(* A signer's nonce admits one intent, over both ways of submitting it     *)
(* (validateIntent and validateDelegatedIntent draw on the same counter),  *)
(* and once more for each time the signer became a root by a recovery,     *)
(* which sets its counter back to zero.  The same for a prover's nonce.    *)
NonceSpentOncePerReset ==
  /\ \A s \in IntentSlot : intentsValidated[s] <= 1 + becameRoot[s[1]]
  /\ \A s \in DelegationSlot : delegationsEndorsed[s] <= 1 + becameRoot[s[1]]

(* What the single _gateOpen flag promises: no purchase goes through that  *)
(* an endorsed intent did not open the gate for, in whatever order the     *)
(* validations and the purchases of several callers are mixed.             *)
PurchasesAreEndorsed ==
  purchases + (IF _gateOpen THEN 1 ELSE 0) <= gateOpened

(* Guardian signatures that carried a recovery through are spent: no       *)
(* recovery is ever pending under signatures of one that was finalized.    *)
FinalizedRecoveryNotReplayed ==
  \A root \in Address :
    Pending(root) => \A a \in Address :
                       <<root, a, recoveryNonces[root]>> \notin recoveriesFinalized

=============================================================================
