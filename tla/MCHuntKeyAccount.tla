-------------------------- MODULE MCHuntKeyAccount --------------------------
(* Small instances of HuntKeyAccount for TLC. *)
EXTENDS HuntKeyAccount

CONSTANTS admin, key, s1, s2, app, g1, g2, g3, ep, none, transfer, kyc,
          noClaim

Accounts == {admin, key, s1, s2, app, g1, g2, g3, ep}

(* Two session keys of one action key; the second certificate is over     *)
(* first.  2 ^ 48 is 8 here, so that it fits the instance.                 *)
Certificate(s, target, until) ==
  [signer |-> key, session |-> s, parent |-> key, scope |-> transfer,
   target |-> target, maxValue |-> 1, expiration |-> until, chainId |-> 1]

Long == Certificate(s1, app, 9)
Short == Certificate(s2, app, 1)
Sessions == {Long, Short}

(* For the run about recovery calls, which nobody asks a signature for, a  *)
(* certificate whose expiration packs to a validUntil of 0.                *)
Boundless == Certificate(s2, app, 0)
RecoverySessions == {Long, Short, Boundless}

Data == {[selector |-> transfer]}
TheData == [selector |-> transfer]

Transfer(target, value) == [target |-> target, value |-> value, data |-> TheData]

TwoCalls == <<Transfer(app, 1), Transfer(app, 1)>>
Batches == {<<>>, TwoCalls}

Sign(signer, target, hashed, claim) ==
  [signer |-> signer, functionSig |-> transfer, targetContract |-> target,
   callDataHash |-> Keccak(hashed), maxValue |-> 1, expiration |-> 9,
   nonce |-> 0, sessionEpoch |-> 0, requiredClaim |-> claim]

CallIntent(s) == Sign(s, app, TheData, noClaim)
BatchIntent == Sign(s1, app, AbiEncode(TwoCalls), kyc)
EmptyIntent == Sign(s2, app, AbiEncode(<<>>), noClaim)

(* An intent of the action key itself, for validateIntent.                 *)
DirectIntent == Sign(key, app, TheData, noClaim)

Intents ==
  {CallIntent(s1), CallIntent(s2), BatchIntent, EmptyIntent, DirectIntent}

(* For the runs about recovery calls: no batches but the empty one.        *)
RecoveryBatches == {<<>>}
RecoveryIntents == {CallIntent(s1), CallIntent(s2), EmptyIntent}

Request(g) == [signer |-> g, oldRoot |-> key, newRoot |-> g3, nonce |-> 0]
Requests == {Request(g1), Request(g2)}
Lists == {<<g1, g2, g3>>}

(* Operations: a call of execute, paid for by the account, and recovery    *)
(* calls, under a certificate that expires early or late.                  *)
Op(session, intent, funds, call) ==
  [session |-> session, intent |-> intent, funds |-> funds, call |-> call]

CallOf(s) ==
  [fn |-> "execute", session |-> s, intent |-> CallIntent(s.session),
   target |-> app, data |-> TheData]

CallOp == Op(Long, CallIntent(s1), 1, CallOf(Long))
CancelOp == Op(Long, CallIntent(s1), 0, [fn |-> "cancelRecovery", root |-> key])
FinalizeOp ==
  Op(Boundless, CallIntent(s2), 0, [fn |-> "finalizeRecovery", root |-> key])
SupportOp ==
  Op(Short, CallIntent(s2), 0, [fn |-> "supportRecovery", req |-> Request(g2)])
(* The chain of one key with a call under another.                         *)
CrossOp == Op(Short, CallIntent(s2), 0, CallOf(Long))

ChainOps == {CallOp, CrossOp}
RecoveryOps == {CancelOp, FinalizeOp, SupportOp}

=============================================================================
