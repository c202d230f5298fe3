--------------------------- MODULE SignedMessages ---------------------------
(***************************************************************************)
(* The messages of the protocol, as the client library hashes and signs    *)
(* them (src/core, src/intents, src/sessions, src/recovery) and as the     *)
(* contracts hash them again to recover the signer (IdentityStore.sol,     *)
(* ExecutionGateway.sol).  The two sides are written down separately, each *)
(* from its own source: a signature is good only if they agree.            *)
(*                                                                         *)
(* A hash is an injective function of what is hashed, a padded word keeps  *)
(* the side it is padded on, and a signature names its key and the hash it *)
(* is over.  Recovering it against another hash gives an address for which *)
(* nobody has the key.                                                     *)
(***************************************************************************)
EXTENDS Sequences

CONSTANT Stranger   \* That address

Keccak256(data) == [keccak256 |-> data]
EthAddress(key) == [address |-> key]

(* 32-byte ABI words. *)
LeftPad32(data) == [left |-> data]
RightPad32(data) == [right |-> data]
AddressToWord(addr) == LeftPad32(addr)
U64ToWord(val) == LeftPad32(val)
U128ToWord(val) == LeftPad32(val)

CallDataHash(call_data) == Keccak256(call_data)

Ecrecover(hash, sig) == IF sig.hash = hash THEN EthAddress(sig.key) ELSE Stranger

-----------------------------------------------------------------------------
(* The client.                                                             *)

DomainSeparator(chain_id, contract) ==
  Keccak256(<<Keccak256("EIP712Domain"), Keccak256("HuntKey"), Keccak256("1"),
              U64ToWord(chain_id), AddressToWord(contract)>>)

SigningHash(chain_id, contract, struct_hash) ==
  Keccak256(<<"1901", DomainSeparator(chain_id, contract), struct_hash>>)

Sign(hash, key) == [key |-> key, hash |-> hash]

(* SovereignIntent. *)
IntentStructHash(i) ==
  Keccak256(<<Keccak256("SovereignIntent"),
    AddressToWord(i.targetContract), RightPad32(i.functionSig),
    AddressToWord(i.recipient), AddressToWord(i.assetAddress), i.callDataHash,
    U128ToWord(i.maxValue), U64ToWord(i.expiration), U64ToWord(i.chainId),
    U64ToWord(i.nonce), U64ToWord(i.sessionEpoch), U64ToWord(i.gasLimit),
    U128ToWord(i.maxFeePerGas), U128ToWord(i.maxPriorityFeePerGas),
    i.requiredClaim, i.claimProofHash, LeftPad32(i.paymasterMode),
    AddressToWord(i.paymaster)>>)

IntentSigningHash(i, contract) ==
  SigningHash(i.chainId, contract, IntentStructHash(i))

SignIntent(i, contract, key) == Sign(IntentSigningHash(i, contract), key)

RecoverSigner(i, contract, sig) == Ecrecover(IntentSigningHash(i, contract), sig)

(* DelegationCertificate. *)
DelegationStructHash(d) ==
  Keccak256(<<Keccak256("DelegationCertificate"), AddressToWord(d.delegate),
    RightPad32(d.scope), U128ToWord(d.maxValue), U64ToWord(d.expiration),
    U64ToWord(d.chainId), U64ToWord(d.nonce)>>)

DelegationSigningHash(d, contract) ==
  SigningHash(d.chainId, contract, DelegationStructHash(d))

SignDelegation(d, contract, key) == Sign(DelegationSigningHash(d, contract), key)

RecoverDelegator(d, contract, sig) ==
  Ecrecover(DelegationSigningHash(d, contract), sig)

(* SessionCertificate. *)
SessionStructHash(c) ==
  Keccak256(<<Keccak256("SessionCertificate"), AddressToWord(c.session),
    AddressToWord(c.parent), RightPad32(c.scope), AddressToWord(c.target),
    U128ToWord(c.maxValue), U64ToWord(c.expiration), U64ToWord(c.chainId)>>)

SessionSigningHash(c, contract) ==
  SigningHash(c.chainId, contract, SessionStructHash(c))

SignSessionCert(c, contract, key) == Sign(SessionSigningHash(c, contract), key)

RecoverSessionSigner(c, contract, sig) ==
  Ecrecover(SessionSigningHash(c, contract), sig)

(* RecoveryRequest. *)
RecoveryStructHash(req) ==
  Keccak256(<<Keccak256("RecoveryRequest"), AddressToWord(req.oldRoot),
    AddressToWord(req.newRoot), U64ToWord(req.chainId), U64ToWord(req.nonce)>>)

RecoverySigningHash(req, contract) ==
  SigningHash(req.chainId, contract, RecoveryStructHash(req))

SignRecovery(req, contract, key) == Sign(RecoverySigningHash(req, contract), key)

RecoverRecoverySigner(req, contract, sig) ==
  Ecrecover(RecoverySigningHash(req, contract), sig)

-----------------------------------------------------------------------------
(* The contract at a deployment [chain, contract].  abi.encode pads        *)
(* addresses and numbers on the left, and bytes4 on the right.             *)
AbiLeft(x) == [left |-> x]
AbiRight(x) == [right |-> x]

DeployedDomain(site) ==
  Keccak256(<<Keccak256("EIP712Domain"), Keccak256("HuntKey"), Keccak256("1"),
              AbiLeft(site.chain), AbiLeft(site.contract)>>)

(* digest and ecrecover, as in each of the four _recover functions.        *)
RecoverAt(site, structHash, sig) ==
  Ecrecover(Keccak256(<<"1901", DeployedDomain(site), structHash>>), sig)

IntentHashOf(p) ==
  LET first  == <<Keccak256("SovereignIntent"), AbiLeft(p.targetContract),
                  AbiRight(p.functionSig), AbiLeft(p.recipient),
                  AbiLeft(p.assetAddress), p.callDataHash, AbiLeft(p.maxValue)>>
      second == <<AbiLeft(p.expiration), AbiLeft(p.chainId), AbiLeft(p.nonce),
                  AbiLeft(p.sessionEpoch), AbiLeft(p.gasLimit),
                  AbiLeft(p.maxFeePerGas), AbiLeft(p.maxPriorityFeePerGas),
                  p.requiredClaim>>
      third  == <<p.claimProofHash, AbiLeft(p.paymasterMode), AbiLeft(p.paymaster)>>
  IN  Keccak256(first \o second \o third)

SessionHashOf(p) ==
  Keccak256(<<Keccak256("SessionCertificate"), AbiLeft(p.session),
    AbiLeft(p.parent), AbiRight(p.scope), AbiLeft(p.target),
    AbiLeft(p.maxValue), AbiLeft(p.expiration), AbiLeft(p.chainId)>>)

DelegationHashOf(d) ==
  Keccak256(<<Keccak256("DelegationCertificate"), AbiLeft(d.delegate),
    AbiRight(d.scope), AbiLeft(d.maxValue), AbiLeft(d.expiration),
    AbiLeft(d.chainId), AbiLeft(d.nonce)>>)

RecoveryHashOf(oldRoot, newRoot, chainId, nonce) ==
  Keccak256(<<Keccak256("RecoveryRequest"), AbiLeft(oldRoot), AbiLeft(newRoot),
    AbiLeft(chainId), AbiLeft(nonce)>>)

=============================================================================
