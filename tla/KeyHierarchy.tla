---------------------------- MODULE KeyHierarchy ----------------------------
(***************************************************************************)
(* The keys of a client (KeyHierarchy of src/core/mod.rs and               *)
(* derive_session_key of src/sessions/mod.rs).  BIP-32 and HKDF are        *)
(* injective functions of what they are given; a private key is a record   *)
(* that names it.  There is one mnemonic, and so one BIP-32 root.          *)
(***************************************************************************)
EXTENDS Naturals, Sequences

KeyRole == {"RootIdentity", "Action", "Proof", "Recovery"}

Segment(role) ==
  CASE role = "RootIdentity" -> 0 [] role = "Action" -> 1
    [] role = "Proof" -> 2        [] role = "Recovery" -> 3

(* The root identity has no index. *)
RolePath(role, index) ==
  IF role = "RootIdentity" THEN <<999, Segment(role)>>
  ELSE <<999, Segment(role), index>>

DeriveKey(path) == [bip32 |-> path]

DeriveRole(role, index) == DeriveKey(RolePath(role, index))

AnyChain(action_privkey, nonce, chain_id) ==   \* mutant: one key for all chains
  [hkdf |-> <<action_privkey, nonce, 0>>]

(* The salt is fixed, and the parent's public key a function of its        *)
(* private key.                                                            *)
DeriveSessionKey(action_privkey, nonce, chain_id) ==
  [hkdf |-> <<action_privkey, nonce, chain_id>>]

=============================================================================
