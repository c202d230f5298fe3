--------------------------- MODULE ClientAtGateway ---------------------------
(***************************************************************************)
(* A client that signs messages for several deployments of the gateway, on *)
(* one chain and on others, seen from one of them.  Everybody may submit   *)
(* to this deployment any message together with any signature the client   *)
(* ever made: a message for another deployment, a certificate with the     *)
(* signature of an intent, the same pair again.                            *)
(*                                                                         *)
(* The gateway is module ExecutionGateway as it is.  The records it takes, *)
(* which name their signer, are made here from message and signature by    *)
(* the hashing and the ecrecover of the contract.                          *)
(***************************************************************************)
EXTENDS ExecutionGateway, WasmInterface, KeyHierarchy

CONSTANTS
  Site,          \* The deployments the client signs for
  Here,          \* The one that is modelled
  App,           \* The contract that sessions are for
  Counter,       \* Numbers the client uses for sessions and as nonces
  GuardianIndex, \* Indexes of the recovery keys that are guardians
  NewRoot,       \* The address that guardians recover the root to
  MaxActionIndex,\* Bound on action_index
  MaxSigned,     \* Bound on the messages signed
  HexLength      \* Lengths of the text a browser may pass for an address

RootKey == DeriveRole("RootIdentity", 0)
GuardianKey(i) == DeriveRole("Recovery", i)
ActionKey(i) == DeriveRole("Action", i)
NoKey == [none |-> 0]

RootAddress == EthAddress(RootKey)
ActionAddress == {EthAddress(ActionKey(i)) : i \in 0..(MaxActionIndex - 1)}

GuardianAddress == {EthAddress(GuardianKey(i)) : i \in GuardianIndex}
SessionAddress ==
  {EthAddress(DeriveSessionKey(ActionKey(i), n, site.chain)) :
     i \in 0..(MaxActionIndex - 1), n \in Counter, site \in Site}

(* Nobody has the key to the address Stranger: the client has not, and no   *)
(* such address is made a guardian.                                        *)
ASSUME ClientAssumption ==
  /\ Here \in Site /\ ChainId = Here.chain
  /\ \A site \in Site : site = [chain |-> site.chain, contract |-> site.contract]
  /\ MaxActionIndex \in Nat
  /\ Stranger \in Address
  /\ ActionAddress \cup GuardianAddress \cup {RootAddress, NewRoot, App}
       \subseteq Address
  /\ Stranger \notin
       ActionAddress \cup SessionAddress \cup GuardianAddress \cup {RootAddress}
  /\ SessionAddress \subseteq SessionKey
  /\ \A list \in GuardianList : Stranger \notin Guardians(list)

VARIABLES
  action_index,  \* Of the KeyHierarchy of the running client
  action_key,    \* The action key it obtained last
  ledger         \* History: what was signed, by whom, for which deployment

clientVars == <<action_index, action_key, ledger>>
cvars == <<gvars, clientVars>>

-----------------------------------------------------------------------------
(* The messages.                                                           *)
Certificate(key, n, site, selector) ==
  [session |-> EthAddress(DeriveSessionKey(key, n, site.chain)),
   parent |-> EthAddress(key), scope |-> selector, target |-> App,
   maxValue |-> 1, expiration |-> MaxTime, chainId |-> site.chain]

IntentFor(site, selector, n) ==
  [targetContract |-> App, functionSig |-> selector, recipient |-> App,
   assetAddress |-> NoAddress, callDataHash |-> CallDataHash([selector |-> selector]),
   maxValue |-> 1, expiration |-> MaxTime, chainId |-> site.chain, nonce |-> n,
   sessionEpoch |-> 0, gasLimit |-> 2, maxFeePerGas |-> 3,
   maxPriorityFeePerGas |-> 4, requiredClaim |-> "", claimProofHash |-> "",
   paymasterMode |-> 0, paymaster |-> NoAddress]

DelegationTo(key, site, selector, n) ==
  [delegate |-> EthAddress(key), scope |-> selector, maxValue |-> 1,
   expiration |-> MaxTime, chainId |-> site.chain, nonce |-> n]

RequestAt(site) ==
  [oldRoot |-> RootAddress, newRoot |-> NewRoot, chainId |-> site.chain,
   nonce |-> 0]

-----------------------------------------------------------------------------
(* What this deployment makes of a message submitted with a signature.     *)
WithSigner(message, signer) ==
  [f \in DOMAIN message \cup {"signer"} |->
     IF f = "signer" THEN signer ELSE message[f]]

(* For each kind of message, the hash that the contract recovers from.     *)
HashHere(kind, p) ==
  CASE kind = "session"    -> SessionHashOf(p)
    [] kind = "intent"     -> IntentHashOf(p)
    [] kind = "delegation" -> DelegationHashOf(p)
    [] kind = "recovery"   -> RecoveryHashOf(p.oldRoot, p.newRoot, Here.chain, p.nonce)

SignerHere(kind, p, sig) == RecoverAt(Here, HashHere(kind, p), sig)

Submitted(kind, entries) ==
  {WithSigner(m.message, SignerHere(kind, m.message, s.sig)) :
     m \in {e \in entries : e.kind = kind}, s \in entries}

SubmittedDelegations ==
  {[prover |-> d.signer, delegate |-> d.delegate, scope |-> d.scope,
    maxValue |-> d.maxValue, expiration |-> d.expiration, nonce |-> d.nonce] :
     d \in Submitted("delegation", ledger)}

SubmittedRequests(entries) ==
  {[signer |-> r.signer, oldRoot |-> r.oldRoot, newRoot |-> r.newRoot,
    nonce |-> r.nonce] : r \in Submitted("recovery", entries)}

-----------------------------------------------------------------------------
(* The client.                                                             *)
CInit ==
  /\ now = 1 /\ signed = {}
  /\ authorizedKeys = ActionAddress /\ authorizedProvers = {RootAddress}
  /\ nonces = [a \in Address |-> 0] /\ delegationNonces = nonces
  /\ \E list \in GuardianList :
       _guardians = [a \in Address |-> IF a = RootAddress THEN list ELSE <<>>]
  /\ pendingNewRoot = [a \in Address |-> NoAddress]
  /\ recoveryApprovals = nonces /\ recoveryInitiatedAt = nonces
  /\ recoveryApproved = [a \in Address |-> {}]
  /\ recoveryNonces = nonces
  /\ identityState = [a \in Address |-> "Active"]
  /\ sessionEpoch = nonces /\ _gateOpen = FALSE
  /\ usedSessionKeys = {} /\ executed = [k \in SessionKey |-> 0]
  /\ callStack = <<>> /\ issued = {}
  /\ action_index = 0 /\ action_key = NoKey /\ ledger = {}

NextActionKey ==
  /\ action_index < MaxActionIndex
  /\ action_key' = DeriveRole("Action", action_index)
  /\ action_index' = action_index + 1
  /\ UNCHANGED <<gvars, ledger>>

(* The client is closed and opened again with the same mnemonic: nothing   *)
(* of the hierarchy is kept.                                               *)
Restart ==
  /\ action_index' = 0 /\ action_key' = NoKey
  /\ UNCHANGED <<gvars, ledger>>

(* A message is signed and becomes public, with its signature.             *)
Publish(kind, message, site, key, sig) ==
  LET entries == ledger \cup {[kind |-> kind, message |-> message, site |-> site,
                               key |-> key, sig |-> sig]}
  IN  /\ Cardinality(entries) <= MaxSigned
      /\ ledger' = entries
      /\ signed' = SubmittedRequests(entries)
      /\ issued' = {<<c, sessionEpoch[c.parent]>> : c \in Submitted("session", entries)}
      /\ UNCHANGED <<now, storeVars, usedSessionKeys, executed, callStack,
                     action_index, action_key>>

(* A certificate, signed by the library.                                   *)
CertifySession(n, site, selector) ==
  LET cert == Certificate(action_key, n, site, selector) IN
  Publish("session", cert, site, action_key,
          SignSessionCert(cert, site.contract, action_key))

(* The same in a browser, by way of the SDK: the text for the target may   *)
(* have lost a digit on its way there.                                     *)
CertifyInBrowser(n, site, selector, length) ==
  LET cert == Certificate(action_key, n, site, selector)
      result == SdkSignSessionCert(
        [session |-> Hex(cert.session, 20), parent |-> Hex(cert.parent, 20),
         scope |-> Hex(cert.scope, 4),
         target |-> [Hex(cert.target, length) EXCEPT !.prefix = TRUE],
         maxValue |-> [digits |-> TRUE, number |-> cert.maxValue],
         expiration |-> cert.expiration, chainId |-> cert.chainId],
        Hex(site.contract, 20), Hex(action_key, 32))
  IN  /\ result.ok
      /\ Publish("session", cert, site, action_key, result.value)

(* The intent of a session.  n is the number of the session key.           *)
SignSessionIntent(n, site, selector) ==
  LET key == DeriveSessionKey(action_key, n, site.chain)
      intent == IntentFor(site, selector, 0)
  IN  Publish("intent", intent, site, key, SignIntent(intent, site.contract, key))

(* An intent of the action key, made in a browser: the SDK checks and      *)
(* completes it, and what comes back is signed.                            *)
SignDirectIntent(n, site, selector) ==
  LET intent == IntentFor(site, selector, n)
      created == CreateIntent(
        [intent EXCEPT !.targetContract = Hex(@, 20), !.functionSig = Hex(@, 4),
           !.recipient = Hex(@, 20), !.assetAddress = Hex(@, 20),
           !.callDataHash = Hex(ComputeCallHashWasm(Hex([selector |-> selector], 4)).value, 32),
           !.requiredClaim = Hex(@, 32), !.claimProofHash = Hex(@, 32),
           !.paymaster = Hex(@, 20),
           !.maxValue = [digits |-> TRUE, number |-> @],
           !.maxFeePerGas = [digits |-> TRUE, number |-> @],
           !.maxPriorityFeePerGas = [digits |-> TRUE, number |-> @]])
  IN  /\ created.ok
      /\ Publish("intent", intent, site, action_key,
                 SignIntent(created.value, site.contract, action_key))

Delegate(n, site, selector) ==
  LET cert == DelegationTo(action_key, site, selector, n) IN
  Publish("delegation", cert, site, RootKey,
          SignDelegation(cert, site.contract, RootKey))

SupportOldRoot(i, site) ==
  Publish("recovery", RequestAt(site), site, GuardianKey(i),
          SignRecovery(RequestAt(site), site.contract, GuardianKey(i)))

ClientStep ==
  /\ callStack = <<>>
  /\ \/ NextActionKey
     \/ Restart
     \/ \E site \in Site :
          \/ \E i \in GuardianIndex : SupportOldRoot(i, site)
          \/ /\ action_key # NoKey
             /\ \E n \in Counter, selector \in Selector :
                  \/ CertifySession(n, site, selector)
                  \/ \E length \in HexLength :
                       CertifyInBrowser(n, site, selector, length)
                  \/ SignSessionIntent(n, site, selector)
                  \/ SignDirectIntent(n, site, selector)
                  \/ Delegate(n, site, selector)

-----------------------------------------------------------------------------
(* Anybody submits what was signed.                                        *)
Submission ==
  \/ \E c \in issued, intent \in Submitted("intent", ledger), data \in CallData,
        value \in CallValue : Execute(c[1], intent, App, data, value)
  \/ CallSucceeds
  \/ CallFails
  \/ /\ \E intent \in Submitted("intent", ledger), value \in CallValue :
          \/ ValidateIntent(intent, value)
          \/ \E delegation \in SubmittedDelegations :
               ValidateDelegatedIntent(delegation, intent, value)
     /\ UNCHANGED gatewayVars
  \/ /\ \E req \in signed : \/ InitiateRecovery(req.oldRoot, req.newRoot, req)
                            \/ SupportRecovery(req.oldRoot, req)
     /\ UNCHANGED gatewayVars

CNext ==
  \/ ClientStep
  \/ Submission /\ UNCHANGED clientVars

CSpec == CInit /\ [][CNext]_cvars

-----------------------------------------------------------------------------
(* Properties.                                                             *)

SignedFor(site, kind, key) ==
  {e.message : e \in {x \in ledger : /\ x.site = site /\ x.kind = kind
                                     /\ EthAddress(x.key) = key}}

(* Library, browser interface and contract agree on every message: what    *)
(* was signed for a deployment recovers, by the library and by the         *)
(* contract, to the key that signed it.                                    *)
RecoveredByClient(e) ==
  CASE e.kind = "session" ->
         RecoverSessionSigner(e.message, e.site.contract, e.sig)
    [] e.kind = "intent" -> RecoverSigner(e.message, e.site.contract, e.sig)
    [] e.kind = "delegation" -> RecoverDelegator(e.message, e.site.contract, e.sig)
    [] e.kind = "recovery" ->
         RecoverRecoverySigner(e.message, e.site.contract, e.sig)

SignaturesVerify ==
  \A e \in ledger :
    /\ RecoveredByClient(e) = EthAddress(e.key)
    /\ e.site = Here => SignerHere(e.kind, e.message, e.sig) = EthAddress(e.key)

(* Whatever is submitted, in whatever combination, nothing takes effect    *)
(* here that was not signed for this very deployment: every call under way *)
(* has its certificate and its intent, every nonce that is consumed an     *)
(* intent or a delegation with that nonce, every approval a request.       *)
OnlyWhatWasSignedHere ==
  /\ \A i \in DOMAIN callStack :
       LET f == callStack[i] IN
       /\ \E cert \in SignedFor(Here, "session", f.session.parent) :
            f.session = WithSigner(cert, f.session.parent)
       /\ \E intent \in SignedFor(Here, "intent", f.session.session) :
            f.intent = WithSigner(intent, f.session.session)
  /\ \A a \in Address : \A n \in 0..(nonces[a] - 1) :
       \E intent \in SignedFor(Here, "intent", a) : intent.nonce = n
  /\ \A a \in Address : \A n \in 0..(delegationNonces[a] - 1) :
       \E cert \in SignedFor(Here, "delegation", a) : cert.nonce = n
  /\ \A root \in Address : \A g \in recoveryApproved[root] :
       \E req \in SignedFor(Here, "recovery", g) :
         req.oldRoot = root /\ req.newRoot = pendingNewRoot[root]

(* A session key burned here opens nothing on another chain: whatever the  *)
(* client derived and signed, before and after any restart, certificates   *)
(* for this key are all for this chain (derive_session_key).               *)
BurnedKeysAreOfThisChain ==
  \A k \in usedSessionKeys :
    \A e \in ledger : e.kind = "session" /\ e.message.session = k
                        => e.site.chain = Here.chain

=============================================================================
