---------------------------- MODULE MCSponsorship ----------------------------
(* A small instance of Sponsorship for TLC. *)
EXTENDS Sponsorship

CONSTANTS admin, key, s1, s2, s3, app, ep, wallet, pm, none, transfer, usd, kyc,
          secret, noClaim

Accounts == {admin, key, s1, s2, s3, app, ep, wallet, pm}

Certificate(s) ==
  [signer |-> key, session |-> s, parent |-> key, scope |-> transfer,
   target |-> app, maxValue |-> 0, expiration |-> 9, chainId |-> 1]
Sessions == {Certificate(s) : s \in {s1, s2, s3}}

Data == {[selector |-> transfer]}
TheData == [selector |-> transfer]

(* The intents bind mode 1 or 2; the call under s3 is made for both        *)
(* operations, so that the second can make it only if the first was undone. *)
IntentOf(s, mode) ==
  [signer |-> s, functionSig |-> transfer, targetContract |-> app,
   callDataHash |-> Keccak(TheData), maxValue |-> 0, expiration |-> 9,
   nonce |-> 0, sessionEpoch |-> 0, requiredClaim |-> noClaim,
   paymasterMode |-> mode]
Intents == {IntentOf(s1, 2), IntentOf(s2, 1), IntentOf(s3, 1)}

TheCall ==
  [fn |-> "execute", session |-> Certificate(s3), intent |-> IntentOf(s3, 1),
   target |-> app, data |-> TheData]

(* One unit for the call, none for validation and one for the rest, at a   *)
(* fee of 2 wei.  2 ^ 128 is 4 here, and a price of 1 is a quarter token.  *)
Builder(nonce, data) ==
  LET deployed == WithInitCode(WithNonce(NewOperation(wallet), nonce), <<>>) IN
  WithPaymaster(WithGas(WithCallData(deployed, TheCall), 1, 0, 1, 2, 2), data)

Op(s, mode, data) ==
  [session |-> Certificate(s), intent |-> IntentOf(s, mode), funds |-> 0,
   call |-> TheCall, builder |-> Builder(mode, data)]

TokenOp == Op(s1, 2, PaymasterAndData(2, usd))
SponsoredOp == Op(s2, 1, PaymasterAndData(1, none))
Ops == {TokenOp, SponsoredOp}

(* The same intent, submitted without a paymaster.                         *)
DowngradedOp == Op(s2, 1, <<>>)
MoreOps == {TokenOp, DowngradedOp}

=============================================================================
