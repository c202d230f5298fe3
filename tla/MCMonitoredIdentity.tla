------------------------- MODULE MCMonitoredIdentity -------------------------
(* Small instances of MonitoredIdentity for TLC. *)
EXTENDS MonitoredIdentity

CONSTANTS admin, old, new, g1, g2, g3, s1, none, transfer

Accounts == {admin, old, new, g1, g2, g3}

Requests ==
  {[signer |-> g, oldRoot |-> old, newRoot |-> new, nonce |-> 0] : g \in {g1, g2}}

Lists == {<<g1, g2, g3>>}

Intents ==
  {[signer |-> g1, functionSig |-> transfer, maxValue |-> 0, expiration |-> 2,
    nonce |-> 0, sessionEpoch |-> 0]}

Delegations ==
  {[prover |-> old, delegate |-> g1, scope |-> transfer, maxValue |-> 0,
    expiration |-> 2, nonce |-> 0]}

Registrations == {[identity |-> old, guardians |-> <<g2, g3>>]}
=============================================================================
