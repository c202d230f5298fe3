--------------------------- MODULE ExecutionGateway ---------------------------
(***************************************************************************)
(* The execution gateway (contracts/src/ExecutionGateway.sol): execute()   *)
(* checks a session certificate signed by an authorised key and an intent  *)
(* signed by the session key, burns the session key and forwards the call. *)
(*                                                                         *)
(* The forwarded call runs code of somebody else, which may call this      *)
(* contract again before it returns, and may fail.  A transaction is the   *)
(* stretch between two states with an empty call stack: in between only    *)
(* contracts call, the clock stands still, and a failing call puts back    *)
(* the storage as it was before execute() began.                           *)
(***************************************************************************)
EXTENDS IdentityStore

CONSTANTS
  Contract,      \* The accounts that hold code, and can call during a call
  Session,       \* The session certificates that keys may come to sign
  ChainId,       \* block.chainid
  CallData       \* The calldata of forwarded calls

(* What the gateway reads of a certificate, of calldata and, further, of an *)
(* intent.  A hash is an injective function of what is hashed.              *)
Keccak(data) == [keccak256 |-> data]

IsSession(s) ==
  /\ {s.signer, s.session, s.parent, s.target} \subseteq Address
  /\ s.scope \in Selector
  /\ {s.maxValue, s.expiration, s.chainId} \subseteq Nat

ASSUME GatewayAssumption ==
  /\ Contract \subseteq Address
  /\ \A s \in Session : IsSession(s)
  /\ \A i \in Intent : i.targetContract \in Address
  /\ \A data \in CallData : data.selector \in Selector
  /\ ChainId \in Nat

VARIABLES
  usedSessionKeys,  \* The addresses mapped to true
  executed,         \* Per session key: the Executed events in the log
  callStack,        \* The calls of execute() that have not returned, the
                    \* innermost last
  issued            \* The certificates signed so far, with the session epoch
                    \* of their parent when they were signed

gatewayVars == <<usedSessionKeys, executed, callStack, issued>>
gvars == <<vars, gatewayVars>>

SessionKey == {s.session : s \in Session}

(* Everything a revert puts back, the event log included.                  *)
Storage ==
  [authorizedKeys |-> authorizedKeys, nonces |-> nonces,
   delegationNonces |-> delegationNonces, gateOpen |-> _gateOpen,
   pendingNewRoot |-> pendingNewRoot, recoveryApprovals |-> recoveryApprovals,
   recoveryInitiatedAt |-> recoveryInitiatedAt,
   recoveryApproved |-> recoveryApproved,
   authorizedProvers |-> authorizedProvers, guardians |-> _guardians,
   recoveryNonces |-> recoveryNonces, identityState |-> identityState,
   sessionEpoch |-> sessionEpoch, usedSessionKeys |-> usedSessionKeys,
   executed |-> executed]

RestoreStore(saved) ==
  /\ authorizedKeys' = saved.authorizedKeys
  /\ nonces' = saved.nonces
  /\ delegationNonces' = saved.delegationNonces
  /\ _gateOpen' = saved.gateOpen
  /\ pendingNewRoot' = saved.pendingNewRoot
  /\ recoveryApprovals' = saved.recoveryApprovals
  /\ recoveryInitiatedAt' = saved.recoveryInitiatedAt
  /\ recoveryApproved' = saved.recoveryApproved
  /\ authorizedProvers' = saved.authorizedProvers
  /\ _guardians' = saved.guardians
  /\ recoveryNonces' = saved.recoveryNonces
  /\ identityState' = saved.identityState
  /\ sessionEpoch' = saved.sessionEpoch

Restore(saved) ==
  /\ RestoreStore(saved)
  /\ usedSessionKeys' = saved.usedSessionKeys
  /\ executed' = saved.executed

(* A call in progress: the messages that allow it, what is called, and the *)
(* storage to put back if it fails.                                        *)
IsFrame(f) ==
  /\ f.session \in Session /\ f.intent \in Intent
  /\ f.target \in Address /\ f.data \in CallData /\ f.value \in CallValue

GTypeOK ==
  /\ TypeOK
  /\ usedSessionKeys \subseteq Address
  /\ executed \in [SessionKey -> Nat]
  /\ \A i \in DOMAIN callStack : IsFrame(callStack[i])
  /\ issued \subseteq Session \X Nat

GInit ==
  /\ Init
  /\ usedSessionKeys = {}
  /\ executed = [k \in SessionKey |-> 0]
  /\ callStack = <<>>
  /\ issued = {}

-----------------------------------------------------------------------------
(* A key signs a session certificate, off chain and once.                  *)
IssueSession(session) ==
  /\ callStack = <<>>
  /\ session \notin {c[1] : c \in issued}
  /\ issued' = issued \cup {<<session, sessionEpoch[session.parent]>>}
  /\ UNCHANGED <<vars, usedSessionKeys, executed, callStack>>

(* Layer 1: the certificate was signed by its parent, an authorised key,   *)
(* and its session key is unused.                                          *)
SessionAuthorized(session) ==
  /\ now <= session.expiration
  /\ session.chainId = ChainId
  /\ session.signer \in authorizedKeys
  /\ session.signer = session.parent
  /\ session.session \notin usedSessionKeys

NoBurn(session) == UNCHANGED usedSessionKeys   \* mutant: not marked as used

BurnSessionKey(session) ==
  usedSessionKeys' = usedSessionKeys \cup {session.session}

AnySigner(session, intent) ==   \* mutant: whoever signed the intent
  now <= intent.expiration

(* Layer 2: the intent was signed by the session key.                      *)
IntentAuthorized(session, intent) ==
  /\ now <= intent.expiration
  /\ intent.signer = session.session

AnyTarget(session, intent) ==   \* mutant: the certificate's target is ignored
  intent.functionSig = session.scope

(* Layer 3: the intent stays within the certificate.                       *)
WithinScope(session, intent) ==
  /\ intent.functionSig = session.scope
  /\ intent.targetContract = session.target

WithinCapAndEpoch(session, intent) ==
  /\ intent.maxValue <= session.maxValue
  /\ intent.sessionEpoch = sessionEpoch[session.parent]

(* The checks of execute() on its arguments and the state.                 *)
ExecuteAllowed(session, intent, target, data, value) ==
  /\ session \in {c[1] : c \in issued}
  /\ identityState[session.parent] = "Active"
  /\ SessionAuthorized(session)
  /\ IntentAuthorized(session, intent)
  /\ value <= intent.maxValue
  /\ WithinScope(session, intent)
  /\ target = intent.targetContract
  /\ data.selector = intent.functionSig
  /\ Keccak(data) = intent.callDataHash
  /\ WithinCapAndEpoch(session, intent)

(* execute() up to and including the forwarded call.                       *)
Execute(session, intent, target, data, value) ==
  /\ ExecuteAllowed(session, intent, target, data, value)
  /\ BurnSessionKey(session)
  /\ callStack' = Append(callStack,
                    [session |-> session, intent |-> intent, target |-> target,
                     data |-> data, value |-> value, saved |-> Storage])
  /\ UNCHANGED <<vars, executed, issued>>

Top == callStack[Len(callStack)]
Pop == SubSeq(callStack, 1, Len(callStack) - 1)

(* The forwarded call returns: the rest of execute() emits its events.     *)
CallSucceeds ==
  /\ callStack # <<>>
  /\ executed' = [executed EXCEPT ![Top.session.session] = @ + 1]
  /\ callStack' = Pop
  /\ UNCHANGED <<vars, usedSessionKeys, issued>>

SwallowFailure ==   \* mutant: execute() returns where it should revert
  /\ callStack # <<>>
  /\ callStack' = Pop
  /\ UNCHANGED <<vars, usedSessionKeys, executed, issued>>

(* The forwarded call fails: execute() reverts with its reason.  The code  *)
(* that called execute() goes on.                                          *)
CallFails ==
  /\ callStack # <<>>
  /\ Restore(Top.saved)
  /\ callStack' = Pop
  /\ UNCHANGED <<now, signed, issued>>

-----------------------------------------------------------------------------
(* Between transactions any account calls; during one, the contracts do.   *)
Callers == IF callStack = <<>> THEN Address ELSE Contract

GNext ==
  \/ /\ callStack = <<>>
     /\ Environment
     /\ UNCHANGED gatewayVars
  \/ \E session \in Session : IssueSession(session)
  \/ Calls(Callers) /\ UNCHANGED gatewayVars
  \/ \E session \in Session, intent \in Intent, target \in Address,
        data \in CallData, value \in CallValue :
       Execute(session, intent, target, data, value)
  \/ CallSucceeds
  \/ CallFails

GSpec == GInit /\ [][GNext]_gvars

-----------------------------------------------------------------------------
(* Properties.                                                             *)

InProgress(k) == {i \in DOMAIN callStack : callStack[i].session.session = k}

(* A session key is good for one call, however deep the called code calls  *)
(* execute() again, and however many of the nested calls fail and are      *)
(* tried once more: it never backs two calls that were executed or are     *)
(* under way (invariants.md, INV-1).                                       *)
SessionKeySingleUse ==
  \A k \in SessionKey : executed[k] + Cardinality(InProgress(k)) <= 1

(* A session key is burned exactly when a call it backs was executed or is *)
(* under way: a call that fails, at any depth, gives its key back and      *)
(* nobody else's.                                                          *)
BurnedIffExecuted ==
  usedSessionKeys =
    {k \in SessionKey : executed[k] > 0 \/ InProgress(k) # {}}

(* Every call under way lies within what the whole chain of signatures     *)
(* allows: the target, selector and calldata the certificate and the       *)
(* intent name, no more value than either cap, before either expires, with *)
(* the certificate signed by its own parent and the intent by the session  *)
(* key.  And it was made for an Active identity, by a key authorised then  *)
(* and in the epoch that the intent names, whatever calls further in have  *)
(* changed of that since.                                                  *)
CallsWithinCertificate ==
  \A i \in DOMAIN callStack :
    LET f == callStack[i] IN
    /\ f.session.signer = f.session.parent
    /\ f.intent.signer = f.session.session
    /\ f.target = f.session.target
    /\ f.data.selector = f.session.scope
    /\ f.intent.callDataHash = Keccak(f.data)
    /\ f.value <= f.intent.maxValue /\ f.value <= f.session.maxValue
    /\ now <= f.session.expiration /\ now <= f.intent.expiration
    /\ f.saved.identityState[f.session.parent] = "Active"
    /\ f.session.signer \in f.saved.authorizedKeys
    /\ f.intent.sessionEpoch = f.saved.sessionEpoch[f.session.parent]

-----------------------------------------------------------------------------
(* Statements of the documentation that the gateway does not keep.         *)

(* invariants.md, INV-4: a new epoch voids every certificate issued before.*)
(* The epoch is a field of the intent, which the session key can sign      *)
(* afresh under a certificate of any age.                                  *)
EpochVoidsCertificates ==
  \A i \in DOMAIN callStack :
    LET f == callStack[i] IN
    <<f.session, f.saved.sessionEpoch[f.session.parent]>> \in issued

=============================================================================
