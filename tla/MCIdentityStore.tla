--------------------------- MODULE MCIdentityStore ---------------------------
(* Small instances of IdentityStore for TLC. *)
EXTENDS IdentityStore

CONSTANTS admin, old, new, g1, g2, g3, none, transfer, approve

Accounts == {admin, old, new, g1, g2, g3}

Request(g, from, to, n) ==
  [signer |-> g, oldRoot |-> from, newRoot |-> to, nonce |-> n]

(* One root; three guardians, two of whom sign again after a recovery, and *)
(* one for the zero address.                                               *)
OneRootRequests ==
  {Request(g, old, new, 0) : g \in {g1, g2, g3}}
    \cup {Request(g1, old, none, 0),
          Request(g1, old, new, 1), Request(g2, old, new, 1)}

(* A list with a repeated guardian, and two that differ in one guardian.   *)
GuardianLists == {<<g1, g2, g3>>, <<g1, g1, g2>>, <<g2, g3, new>>}

(* Recoveries that meet: old moves to new while new moves to g3, or moves  *)
(* to itself.                                                              *)
CrossingRequests ==
  {Request(g, old, new, 0) : g \in {g1, g2}}
    \cup {Request(g, new, g3, 0) : g \in {g1, g2}}
    \cup {Request(g, old, old, 0) : g \in {g1, g2}}

CrossingLists == {<<g1, g2, g3>>}

(* For liveness: three guardians, any two of whom make a quorum.           *)
LiveRequests == {Request(g, old, new, 0) : g \in {g1, g2, g3}}

(* The old root goes on endorsing an intent of its own while it is recovered. *)
LiveIntents ==
  {[signer |-> old, functionSig |-> transfer, maxValue |-> 0, expiration |-> 4,
    nonce |-> 0, sessionEpoch |-> 0]}

LiveDelegations ==
  {[prover |-> old, delegate |-> old, scope |-> transfer, maxValue |-> 0,
    expiration |-> 4, nonce |-> 0]}

LiveLists == {<<g1, g2, g3>>, <<g1, g2, new>>}
=============================================================================
