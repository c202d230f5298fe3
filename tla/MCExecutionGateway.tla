------------------------- MODULE MCExecutionGateway -------------------------
(* Small instances of ExecutionGateway for TLC. *)
EXTENDS ExecutionGateway

CONSTANTS admin, key, s1, s2, app, g1, g2, g3, none, transfer, approve

Accounts == {admin, key, s1, s2, app, g1, g2, g3}

Certificate(signer, s, sel, target, cap, until, chain) ==
  [signer |-> signer, session |-> s, parent |-> key, scope |-> sel,
   target |-> target, maxValue |-> cap, expiration |-> until,
   chainId |-> chain]

(* Two session keys of one action key; a certificate in the key's name     *)
(* that somebody else signed.                                              *)
Sessions ==
  {Certificate(key, s1, transfer, app, 1, 3, 1),
   Certificate(key, s2, transfer, app, 1, 2, 1),
   Certificate(g1, s2, approve, app, 2, 3, 1)}

Data == {[selector |-> transfer], [selector |-> approve]}

Sign(signer, sel, target, cap, until, epoch) ==
  [signer |-> signer, functionSig |-> sel, targetContract |-> target,
   callDataHash |-> Keccak([selector |-> sel]), maxValue |-> cap,
   expiration |-> until, nonce |-> 0, sessionEpoch |-> epoch]

(* Intents of the session keys: within the certificate, for the next       *)
(* epoch, over the cap, for another selector, for another target.          *)
Intents ==
  {Sign(s1, transfer, app, 1, 3, 0), Sign(s1, transfer, app, 1, 3, 1),
   Sign(s2, transfer, app, 1, 3, 0), Sign(s2, transfer, app, 2, 3, 0),
   Sign(s2, approve, app, 1, 3, 0), Sign(s1, transfer, g3, 1, 3, 0)}

Requests == {[signer |-> g, oldRoot |-> key, newRoot |-> g3, nonce |-> 0] :
               g \in {g1, g2}}

Lists == {<<g1, g2, g3>>}
=============================================================================
