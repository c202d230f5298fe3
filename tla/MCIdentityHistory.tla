-------------------------- MODULE MCIdentityHistory --------------------------
(* Small instances of IdentityHistory for TLC. *)
EXTENDS IdentityHistory

CONSTANTS admin, old, new, g1, g2, g3, none, transfer, approve

Accounts == {admin, old, new, g1, g2, g3}

Sign(signer, sel, cap, until, n, epoch) ==
  [signer |-> signer, functionSig |-> sel, maxValue |-> cap,
   expiration |-> until, nonce |-> n, sessionEpoch |-> epoch]

Certify(prover, delegate, sel, cap, until, n) ==
  [prover |-> prover, delegate |-> delegate, scope |-> sel, maxValue |-> cap,
   expiration |-> until, nonce |-> n]

Request(g, from, to, n) ==
  [signer |-> g, oldRoot |-> from, newRoot |-> to, nonce |-> n]

(* The account that takes over as root is itself a key and a delegate: two *)
(* different intents compete for its nonce 0, one is for a later epoch, a  *)
(* later nonce, another scope, over the certificate's cap or expired early.*)
Intents ==
  {Sign(new, transfer, 1, 3, 0, 0), Sign(new, transfer, 0, 3, 0, 0),
   Sign(new, transfer, 1, 3, 1, 1), Sign(new, transfer, 2, 3, 1, 0),
   Sign(new, approve, 1, 2, 1, 0)}

Delegations ==
  {Certify(old, new, transfer, 1, 3, 0), Certify(new, new, transfer, 1, 3, 0),
   Certify(new, new, transfer, 1, 2, 1)}

Requests == {Request(g, old, new, 0) : g \in {g1, g2}}

Lists == {<<g1, g2, g3>>}

=============================================================================
