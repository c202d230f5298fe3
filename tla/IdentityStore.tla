--------------------------- MODULE IdentityStore ---------------------------
(***************************************************************************)
(* The identity contract (contracts/src/IdentityStore.sol): keys, provers, *)
(* guardians, nonces, delegated intents, freeze, session epochs and social *)
(* recovery.                                                               *)
(*                                                                         *)
(* One action is one external call that does not revert: a revert undoes   *)
(* the whole call, so it is no step at all, and every `if (...) revert` of *)
(* the source is a conjunct of the guard.  Messages checked by ecrecover   *)
(* are records that name their signer.                                     *)
(***************************************************************************)
EXTENDS Naturals, Sequences, FiniteSets

CONSTANTS
  Address,         \* Every account that may call or be named in a call
  NoAddress,       \* address(0)
  Owner,           \* The account that deployed the contract
  Key,             \* The accounts the owner may authorise as keys
  Root,            \* The accounts the owner manages as root identities
  Selector,        \* Function selectors (bytes4), the scopes of certificates
  Intent,          \* The intents that signers have signed
  Delegation,      \* The delegation certificates that provers have signed
  CallValue,       \* The values (wei) a caller may attach to a call
  RecoveryRequest, \* The recovery requests that guardians may come to sign
  GuardianList,    \* The lists the owner may pass to setGuardians
  GuardianThreshold, \* GUARDIAN_THRESHOLD
  RecoveryWindow,    \* RECOVERY_WINDOW, in ticks of the clock
  MaxTime,         \* Bound on block.timestamp
  MaxEpoch         \* Bound on a session epoch

IdentityState == {"Active", "RecoveryPending", "Frozen"}

(* What the contract reads of an intent, of a delegation certificate and   *)
(* of a recovery request.                                                  *)
IsIntent(i) ==
  /\ i.signer \in Address
  /\ i.functionSig \in Selector
  /\ {i.maxValue, i.expiration, i.nonce, i.sessionEpoch} \subseteq Nat

IsDelegation(d) ==
  /\ {d.prover, d.delegate} \subseteq Address
  /\ d.scope \in Selector
  /\ {d.maxValue, d.expiration, d.nonce} \subseteq Nat

IsRecoveryRequest(req) ==
  /\ {req.signer, req.oldRoot} \subseteq Address
  /\ req.newRoot \in Address \cup {NoAddress}
  /\ req.nonce \in Nat

ASSUME AddressAssumption ==
  /\ IsFiniteSet(Address)
  /\ NoAddress \notin Address
  /\ Owner \in Address
  /\ Key \subseteq Address
  /\ Root \subseteq Address

ASSUME MessageAssumption ==
  /\ \A i \in Intent : IsIntent(i)
  /\ \A d \in Delegation : IsDelegation(d)
  /\ \A req \in RecoveryRequest : IsRecoveryRequest(req)
  /\ GuardianList \subseteq Seq(Address)
  /\ CallValue \subseteq Nat

ASSUME ParameterAssumption ==
  /\ GuardianThreshold \in Nat /\ GuardianThreshold >= 2
  /\ RecoveryWindow \in Nat \ {0}
  /\ MaxTime \in Nat \ {0} /\ MaxEpoch \in Nat

VARIABLES
  now,                 \* block.timestamp
  signed,              \* The recovery requests signed so far
  authorizedKeys,      \* The addresses mapped to true
  authorizedProvers,
  nonces,
  delegationNonces,
  _guardians,
  pendingNewRoot,
  recoveryApprovals,
  recoveryInitiatedAt, \* 0 until the threshold is met
  recoveryApproved,    \* For each root, the guardians mapped to true
  recoveryNonces,
  identityState,
  sessionEpoch,
  _gateOpen

keyVars == <<authorizedKeys, nonces, delegationNonces, _gateOpen>>
recoveryVars == <<pendingNewRoot, recoveryApprovals, recoveryInitiatedAt,
                  recoveryApproved>>
storeVars == <<keyVars, recoveryVars, authorizedProvers, _guardians,
               recoveryNonces, identityState, sessionEpoch>>
vars == <<now, signed, storeVars>>

TypeOK ==
  /\ now \in 1..MaxTime
  /\ signed \subseteq RecoveryRequest
  /\ authorizedKeys \subseteq Address
  /\ authorizedProvers \subseteq Address
  /\ nonces \in [Address -> Nat]
  /\ delegationNonces \in [Address -> Nat]
  /\ _guardians \in [Address -> Seq(Address)]
  /\ pendingNewRoot \in [Address -> Address \cup {NoAddress}]
  /\ recoveryApprovals \in [Address -> Nat]
  /\ recoveryInitiatedAt \in [Address -> Nat]
  /\ recoveryApproved \in [Address -> SUBSET Address]
  /\ recoveryNonces \in [Address -> Nat]
  /\ identityState \in [Address -> IdentityState]
  /\ sessionEpoch \in [Address -> Nat]
  /\ _gateOpen \in BOOLEAN

(* The storage of a contract that was just deployed. *)
Init ==
  /\ now = 1
  /\ signed = {}
  /\ authorizedKeys = {}
  /\ authorizedProvers = {}
  /\ nonces = [a \in Address |-> 0]
  /\ delegationNonces = [a \in Address |-> 0]
  /\ _guardians = [a \in Address |-> <<>>]
  /\ pendingNewRoot = [a \in Address |-> NoAddress]
  /\ recoveryApprovals = [a \in Address |-> 0]
  /\ recoveryInitiatedAt = [a \in Address |-> 0]
  /\ recoveryApproved = [a \in Address |-> {}]
  /\ recoveryNonces = [a \in Address |-> 0]
  /\ identityState = [a \in Address |-> "Active"]
  /\ sessionEpoch = [a \in Address |-> 0]
  /\ _gateOpen = FALSE

-----------------------------------------------------------------------------
(* The environment: blocks are produced, and guardians sign off chain.  A  *)
(* signature, once given, can be submitted by anyone at any later time.    *)

Tick ==
  /\ now < MaxTime
  /\ now' = now + 1
  /\ UNCHANGED <<signed, storeVars>>

SignRecoveryRequest(req) ==
  /\ req \notin signed
  /\ signed' = signed \cup {req}
  /\ UNCHANGED <<now, storeVars>>

-----------------------------------------------------------------------------
(* Administration.  onlyOwner guards all of it.                            *)

AuthorizeKey(caller, key) ==
  /\ caller = Owner
  /\ authorizedKeys' = authorizedKeys \cup {key}
  /\ UNCHANGED <<now, signed, nonces, delegationNonces, _gateOpen, recoveryVars,
                 authorizedProvers, _guardians, recoveryNonces, identityState,
                 sessionEpoch>>

RevokeKey(caller, key) ==
  /\ caller = Owner
  /\ authorizedKeys' = authorizedKeys \ {key}
  /\ UNCHANGED <<now, signed, nonces, delegationNonces, _gateOpen, recoveryVars,
                 authorizedProvers, _guardians, recoveryNonces, identityState,
                 sessionEpoch>>

RegisterProver(caller, prover) ==
  /\ caller = Owner
  /\ authorizedProvers' = authorizedProvers \cup {prover}
  /\ UNCHANGED <<now, signed, keyVars, recoveryVars, _guardians, recoveryNonces,
                 identityState, sessionEpoch>>

RevokeProver(caller, prover) ==
  /\ caller = Owner
  /\ authorizedProvers' = authorizedProvers \ {prover}
  /\ UNCHANGED <<now, signed, keyVars, recoveryVars, _guardians, recoveryNonces,
                 identityState, sessionEpoch>>

(* The length of the list is checked, not that its members differ, and a   *)
(* recovery that is pending keeps the approvals it has.                    *)
SetGuardians(caller, root, guardianList) ==
  /\ caller = Owner
  /\ Len(guardianList) \in 3..5
  /\ _guardians' = [_guardians EXCEPT ![root] = guardianList]
  /\ UNCHANGED <<now, signed, keyVars, recoveryVars, authorizedProvers,
                 recoveryNonces, identityState, sessionEpoch>>

FreezeIdentity(caller, root) ==
  /\ caller = Owner
  /\ identityState' = [identityState EXCEPT ![root] = "Frozen"]
  /\ UNCHANGED <<now, signed, keyVars, recoveryVars, authorizedProvers,
                 _guardians, recoveryNonces, sessionEpoch>>

UnfreezeIdentity(caller, root) ==
  /\ caller = Owner
  /\ identityState[root] = "Frozen"
  /\ identityState' = [identityState EXCEPT ![root] = "Active"]
  /\ UNCHANGED <<now, signed, keyVars, recoveryVars, authorizedProvers,
                 _guardians, recoveryNonces, sessionEpoch>>

CancelAllSessions(caller, root) ==
  /\ caller \in {root, Owner}
  /\ sessionEpoch[root] < MaxEpoch
  /\ sessionEpoch' = [sessionEpoch EXCEPT ![root] = @ + 1]
  /\ UNCHANGED <<now, signed, keyVars, recoveryVars, authorizedProvers,
                 _guardians, recoveryNonces, identityState>>

-----------------------------------------------------------------------------
(* Intents: direct, delegated, and the gate that a delegated one opens.    *)

ReuseNonce(signer) == UNCHANGED nonces   \* mutant: the counter stays

ConsumeNonce(signer) == nonces' = [nonces EXCEPT ![signer] = @ + 1]

ValidateIntent(intent, value) ==
  /\ now <= intent.expiration
  /\ value <= intent.maxValue
  /\ intent.signer \in authorizedKeys
  /\ intent.nonce = nonces[intent.signer]
  /\ intent.sessionEpoch = sessionEpoch[intent.signer]
  /\ ConsumeNonce(intent.signer)
  /\ UNCHANGED <<now, signed, authorizedKeys, delegationNonces, _gateOpen,
                 recoveryVars, authorizedProvers, _guardians, recoveryNonces,
                 identityState, sessionEpoch>>

ValidateDelegatedIntent(delegation, intent, value) ==
  /\ now <= delegation.expiration
  /\ delegation.prover \in authorizedProvers
  /\ delegation.nonce = delegationNonces[delegation.prover]
  /\ now <= intent.expiration
  /\ value <= intent.maxValue
  /\ intent.signer = delegation.delegate
  /\ intent.functionSig = delegation.scope
  /\ intent.maxValue <= delegation.maxValue
  /\ intent.nonce = nonces[delegation.delegate]
  /\ delegationNonces' = [delegationNonces EXCEPT ![delegation.prover] = @ + 1]
  /\ ConsumeNonce(delegation.delegate)
  /\ _gateOpen' = TRUE
  /\ UNCHANGED <<now, signed, authorizedKeys, recoveryVars, authorizedProvers,
                 _guardians, recoveryNonces, identityState, sessionEpoch>>

LeaveGateOpen ==   \* mutant: the modifier does not close the gate
  /\ _gateOpen
  /\ UNCHANGED <<now, signed, storeVars>>

GatedPurchase ==
  /\ _gateOpen
  /\ _gateOpen' = FALSE
  /\ UNCHANGED <<now, signed, authorizedKeys, nonces, delegationNonces,
                 recoveryVars, authorizedProvers, _guardians, recoveryNonces,
                 identityState, sessionEpoch>>

-----------------------------------------------------------------------------
(* Social recovery.                                                        *)

Guardians(list) == {list[i] : i \in DOMAIN list}

IsGuardian(root, candidate) == candidate \in Guardians(_guardians[root])

(* The request that a signature must be over to count for oldRoot now.     *)
IsCurrentRequest(req, newRoot) ==
  /\ req \in signed
  /\ req.newRoot = newRoot
  /\ req.nonce = recoveryNonces[req.oldRoot]

CountAnyApproval(root, guardian) == TRUE   \* mutant: no AlreadyApproved check

NotYetApproved(root, guardian) == guardian \notin recoveryApproved[root]

RestartTimelock(root, approvals) ==   \* mutant: each supporter restarts it
  IF approvals >= GuardianThreshold THEN now ELSE recoveryInitiatedAt[root]

(* recoveryInitiatedAt[root] once approvals are counted.                   *)
TimelockStart(root, approvals) ==
  IF approvals >= GuardianThreshold /\ recoveryInitiatedAt[root] = 0
  THEN now ELSE recoveryInitiatedAt[root]

FromThreshold(root) ==   \* mutant: the window is not waited for
  recoveryInitiatedAt[root] # 0

UnlessFrozen(root) ==   \* mutant: a freeze holds a recovery up
  /\ recoveryInitiatedAt[root] # 0
  /\ now >= recoveryInitiatedAt[root] + RecoveryWindow
  /\ identityState[root] # "Frozen"

TimelockExpired(root) ==
  /\ recoveryInitiatedAt[root] # 0
  /\ now >= recoveryInitiatedAt[root] + RecoveryWindow

ReuseRecoveryNonce(root) == UNCHANGED recoveryNonces   \* mutant

ConsumeRecoveryNonce(root) ==
  recoveryNonces' = [recoveryNonces EXCEPT ![root] = @ + 1]

KeepTimelock(oldRoot, guardianList) ==   \* mutant: the timelock runs on
  /\ recoveryApproved' =
       [recoveryApproved EXCEPT ![oldRoot] = @ \ Guardians(guardianList)]
  /\ pendingNewRoot' = [pendingNewRoot EXCEPT ![oldRoot] = NoAddress]
  /\ recoveryApprovals' = [recoveryApprovals EXCEPT ![oldRoot] = 0]
  /\ UNCHANGED recoveryInitiatedAt

UncountGuardians(oldRoot, guardianList) ==   \* mutant: approvals underflow
  /\ recoveryApproved' =
       [recoveryApproved EXCEPT ![oldRoot] = @ \ Guardians(guardianList)]
  /\ pendingNewRoot' = [pendingNewRoot EXCEPT ![oldRoot] = NoAddress]
  /\ recoveryApprovals' =
       [recoveryApprovals EXCEPT ![oldRoot] = @ - Len(guardianList)]
  /\ recoveryInitiatedAt' = [recoveryInitiatedAt EXCEPT ![oldRoot] = 0]

(* _clearRecovery, given the guardians stored when it runs: an approval by *)
(* an account that is no longer among them stays.                          *)
ClearRecovery(oldRoot, guardianList) ==
  /\ recoveryApproved' =
       [recoveryApproved EXCEPT ![oldRoot] = @ \ Guardians(guardianList)]
  /\ pendingNewRoot' = [pendingNewRoot EXCEPT ![oldRoot] = NoAddress]
  /\ recoveryApprovals' = [recoveryApprovals EXCEPT ![oldRoot] = 0]
  /\ recoveryInitiatedAt' = [recoveryInitiatedAt EXCEPT ![oldRoot] = 0]

InitiateRecovery(oldRoot, newRoot, req) ==
  /\ oldRoot \in authorizedProvers
  /\ newRoot # NoAddress
  /\ pendingNewRoot[oldRoot] = NoAddress
  /\ req.oldRoot = oldRoot /\ IsCurrentRequest(req, newRoot)
  /\ IsGuardian(oldRoot, req.signer)
  /\ pendingNewRoot' = [pendingNewRoot EXCEPT ![oldRoot] = newRoot]
  /\ recoveryApprovals' = [recoveryApprovals EXCEPT ![oldRoot] = 1]
  /\ recoveryApproved' =
       [recoveryApproved EXCEPT ![oldRoot] = @ \cup {req.signer}]
  /\ identityState' = [identityState EXCEPT ![oldRoot] = "RecoveryPending"]
  /\ UNCHANGED <<now, signed, keyVars, recoveryInitiatedAt, authorizedProvers,
                 _guardians, recoveryNonces, sessionEpoch>>

SupportRecovery(oldRoot, req) ==
  LET approvals == recoveryApprovals[oldRoot] + 1 IN
  /\ pendingNewRoot[oldRoot] # NoAddress
  /\ req.oldRoot = oldRoot /\ IsCurrentRequest(req, pendingNewRoot[oldRoot])
  /\ IsGuardian(oldRoot, req.signer)
  /\ NotYetApproved(oldRoot, req.signer)
  /\ recoveryApproved' =
       [recoveryApproved EXCEPT ![oldRoot] = @ \cup {req.signer}]
  /\ recoveryApprovals' = [recoveryApprovals EXCEPT ![oldRoot] = approvals]
  /\ recoveryInitiatedAt' = [recoveryInitiatedAt EXCEPT
                               ![oldRoot] = TimelockStart(oldRoot, approvals)]
  /\ UNCHANGED <<now, signed, keyVars, pendingNewRoot, authorizedProvers,
                 _guardians, recoveryNonces, identityState, sessionEpoch>>

CancelRecovery(caller, oldRoot) ==
  /\ caller = oldRoot
  /\ pendingNewRoot[oldRoot] # NoAddress
  /\ ClearRecovery(oldRoot, _guardians[oldRoot])
  /\ identityState' = [identityState EXCEPT ![oldRoot] = "Active"]
  /\ UNCHANGED <<now, signed, keyVars, authorizedProvers, _guardians,
                 recoveryNonces, sessionEpoch>>

(* newRoot may be oldRoot itself: then its guardians are deleted, not      *)
(* moved.  _clearRecovery runs last, when oldRoot has no guardians left.   *)
FinalizeRecovery(oldRoot) ==
  LET newRoot == pendingNewRoot[oldRoot]
      moved == [_guardians EXCEPT ![newRoot] = _guardians[oldRoot],
                                  ![oldRoot] = <<>>]
  IN
  /\ newRoot # NoAddress
  /\ recoveryApprovals[oldRoot] >= GuardianThreshold
  /\ TimelockExpired(oldRoot)
  /\ authorizedProvers' = (authorizedProvers \ {oldRoot}) \cup {newRoot}
  /\ nonces' = [nonces EXCEPT ![newRoot] = 0]
  /\ delegationNonces' = [delegationNonces EXCEPT ![newRoot] = 0]
  /\ _guardians' = moved
  /\ ConsumeRecoveryNonce(oldRoot)
  /\ ClearRecovery(oldRoot, moved[oldRoot])
  /\ identityState' =
       [identityState EXCEPT ![oldRoot] = "Active", ![newRoot] = "Active"]
  /\ UNCHANGED <<now, signed, authorizedKeys, _gateOpen, sessionEpoch>>

-----------------------------------------------------------------------------
(* The external calls that an account of callers can make.                 *)
Administration(callers) ==
  \E caller \in callers :
    \/ \E key \in Key : AuthorizeKey(caller, key) \/ RevokeKey(caller, key)
    \/ \E root \in Root :
         \/ RegisterProver(caller, root)
         \/ RevokeProver(caller, root)
         \/ \E list \in GuardianList : SetGuardians(caller, root, list)
         \/ FreezeIdentity(caller, root)
         \/ UnfreezeIdentity(caller, root)
    \/ \E a \in Key \cup Root : CancelAllSessions(caller, a)

(* The two payable functions, with the value that the contract receives.   *)
Validation(value) ==
  \E intent \in Intent :
    \/ ValidateIntent(intent, value)
    \/ \E delegation \in Delegation :
         ValidateDelegatedIntent(delegation, intent, value)

IntentValidation ==
  (\E value \in CallValue : Validation(value)) \/ GatedPurchase

GuardianCalls ==
  \E req \in RecoveryRequest :
    \/ InitiateRecovery(req.oldRoot, req.newRoot, req)
    \/ SupportRecovery(req.oldRoot, req)

RecoveryEnd(callers) ==
  \E oldRoot \in Address :
    \/ \E caller \in callers : CancelRecovery(caller, oldRoot)
    \/ FinalizeRecovery(oldRoot)

Calls(callers) ==
  \/ Administration(callers)
  \/ IntentValidation
  \/ GuardianCalls
  \/ RecoveryEnd(callers)

Environment ==
  Tick \/ \E req \in RecoveryRequest : SignRecoveryRequest(req)

Next == Environment \/ Calls(Address)

Spec == Init /\ [][Next]_vars

(* Blocks keep coming, and somebody who wants the recovery, the holder of  *)
(* the new root say, keeps calling finalizeRecovery: anyone may.           *)
Fairness ==
  /\ WF_vars(Tick)
  /\ \A oldRoot \in Address : WF_vars(FinalizeRecovery(oldRoot))

FairSpec == Spec /\ Fairness

-----------------------------------------------------------------------------
(* Properties.                                                             *)

Pending(root) == pendingNewRoot[root] # NoAddress

(* The approved accounts whose signature is over the pending request.      *)
Supporters(root) ==
  {a \in recoveryApproved[root] :
     \E req \in signed : /\ req.signer = a
                         /\ req.oldRoot = root
                         /\ IsCurrentRequest(req, pendingNewRoot[root])}

(* Every approval that is counted is the consent of a different account to *)
(* exactly the pending request: a signature for another new root or for an *)
(* earlier recovery, or a second call with the same one, never counts      *)
(* (initiateRecovery, supportRecovery).                                    *)
ConsentsCover(root) ==
  Pending(root) => recoveryApprovals[root] <= Cardinality(Supporters(root))

ApprovalsAreConsents == \A root \in Address : ConsentsCover(root)

(* The four mappings that hold a recovery and identityState agree whatever *)
(* the order of the calls: there are approvals exactly while a new root is *)
(* pending, the timelock runs exactly when the threshold is met, it never  *)
(* starts in the future, and RecoveryPending is never left behind by a     *)
(* recovery that is over.  (USER_FLOW.md has the timelock start with the   *)
(* first approval: TimelockStartsAtInitiation below.)                      *)
RecoveryCoherentAt(root) ==
  /\ Pending(root) <=> recoveryApprovals[root] > 0
  /\ recoveryInitiatedAt[root] # 0
       <=> recoveryApprovals[root] >= GuardianThreshold
  /\ recoveryInitiatedAt[root] <= now
  /\ identityState[root] = "RecoveryPending" => Pending(root)

RecoveryCoherent == \A root \in Address : RecoveryCoherentAt(root)

(* While a recovery is pending nobody changes what it moves the identity   *)
(* to, and nobody moves the start of its timelock: a further supporter can *)
(* neither prolong nor shorten the time the old root has to cancel.        *)
PendingRequestIsFixed ==
  [][\A root \in Address :
       Pending(root) /\ Pending(root)' =>
         /\ pendingNewRoot'[root] = pendingNewRoot[root]
         /\ recoveryInitiatedAt[root] # 0 =>
              recoveryInitiatedAt'[root] = recoveryInitiatedAt[root]]_vars

(* A recovery takes effect (the recovery nonce of a root advances) only if *)
(* at least GUARDIAN_THRESHOLD different accounts signed that very move    *)
(* and the whole RECOVERY_WINDOW has passed since the last one needed.     *)
RecoveryNeedsQuorumAndWindow ==
  [][\A root \in Address :
       recoveryNonces'[root] # recoveryNonces[root] =>
         /\ pendingNewRoot[root] \in authorizedProvers'
         /\ Cardinality(Supporters(root)) >= GuardianThreshold
         /\ recoveryInitiatedAt[root] # 0
         /\ recoveryInitiatedAt[root] + RecoveryWindow <= now]_vars

(* Once the timelock of a recovery runs, the recovery ends, in favour of   *)
(* the new root unless the old root cancels it: no freeze, change of       *)
(* guardians or revocation by the owner, and nothing anybody else does,    *)
(* can hold it up for ever.  (The clock of the model stops at MaxTime.)    *)
RecoveryCompletes ==
  \A root \in Address :
    (/\ recoveryInitiatedAt[root] # 0
     /\ recoveryInitiatedAt[root] + RecoveryWindow <= MaxTime)
      ~> (recoveryInitiatedAt[root] = 0)

-----------------------------------------------------------------------------
(* Refinement.  The contract is a social recovery in the sense of module   *)
(* SocialRecovery: whatever the owner, the guardians and the old root call *)
(* in whatever order, and whatever other recoveries run, a root moves once *)
(* per proposal, only to the proposed account and only when the window has *)
(* passed since the timelock of that proposal started.                     *)
SR == INSTANCE SocialRecovery
        WITH Window <- RecoveryWindow,
             target <- pendingNewRoot,
             since  <- recoveryInitiatedAt,
             moves  <- recoveryNonces

SocialRecoveryKept == SR!Spec

-----------------------------------------------------------------------------
(* Statements of the documentation that the contract does not keep.        *)

(* USER_FLOW.md: initiateRecovery starts the timelock.  It starts with the *)
(* support that meets the threshold (RecoveryCoherent says when).          *)
TimelockStartsAtInitiation ==
  \A root \in Address : Pending(root) => recoveryInitiatedAt[root] # 0

(* USER_FLOW.md: two of N guardians are enough to start the timelock.  The *)
(* guardians who have signed the pending request keep submitting it.       *)
SupportFairness ==
  \A req \in RecoveryRequest : WF_vars(SupportRecovery(req.oldRoot, req))

SupportSpec == Spec /\ SupportFairness

WillingGuardians(root) ==
  {g \in Guardians(_guardians[root]) :
     \E req \in signed : /\ req.signer = g /\ req.oldRoot = root
                         /\ IsCurrentRequest(req, pendingNewRoot[root])}

HasWillingQuorum(root) ==
  Pending(root) /\ Cardinality(WillingGuardians(root)) >= GuardianThreshold

TwoGuardiansStartTimelock ==
  \A root \in Address :
    HasWillingQuorum(root)
      ~> (~ HasWillingQuorum(root) \/ recoveryInitiatedAt[root] # 0)

=============================================================================
