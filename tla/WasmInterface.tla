---------------------------- MODULE WasmInterface ----------------------------
(***************************************************************************)
(* The functions exported to JavaScript (src/wasm_api/mod.rs) and the      *)
(* wrappers of the TypeScript SDK around them.  A byte string comes in as  *)
(* hex text: the bytes, how many of them there are, whether it begins with *)
(* 0x and whether it is hex at all.  A function returns a result or throws.*)
(***************************************************************************)
EXTENDS SignedMessages, Naturals

Ok(value) == [ok |-> TRUE, value |-> value]
Err == [ok |-> FALSE]

Hex(bytes, len) == [bytes |-> bytes, len |-> len, prefix |-> FALSE, hex |-> TRUE]

StripHexPrefix(text) == [text EXCEPT !.prefix = FALSE]

HexDecodes(text) == text.hex /\ ~ text.prefix

FillArray(n, text) ==   \* mutant: what is missing is filled with zeros
  IF ~ HexDecodes(text) THEN Err
  ELSE IF text.len = n THEN Ok(text.bytes) ELSE Ok([cut |-> text.bytes])

HexToArray(n, text) ==
  IF HexDecodes(text) /\ text.len = n THEN Ok(text.bytes) ELSE Err

(* u128 values are parsed from decimal text. *)
ParseU128(text) == IF text.digits THEN Ok(text.number) ELSE Err

AllOk(results) == \A f \in DOMAIN results : results[f].ok
Values(results) == [f \in DOMAIN results |-> results[f].value]
Join(r, s) == [f \in DOMAIN r \cup DOMAIN s |-> IF f \in DOMAIN r THEN r[f] ELSE s[f]]

(* create_intent_wasm: a field that does not parse throws; otherwise the   *)
(* intent is written out as JSON, field by field.                          *)
CreateIntentWasm(p) ==
  LET parsed == [targetContract |-> HexToArray(20, p.targetContract),
                 functionSig    |-> HexToArray(4, p.functionSig),
                 recipient      |-> HexToArray(20, p.recipient),
                 assetAddress   |-> HexToArray(20, p.assetAddress),
                 callDataHash   |-> HexToArray(32, p.callDataHash),
                 requiredClaim  |-> HexToArray(32, p.requiredClaim),
                 claimProofHash |-> HexToArray(32, p.claimProofHash),
                 paymaster      |-> HexToArray(20, p.paymaster),
                 maxValue       |-> ParseU128(p.maxValue),
                 maxFeePerGas   |-> ParseU128(p.maxFeePerGas),
                 maxPriorityFeePerGas |-> ParseU128(p.maxPriorityFeePerGas)]
      copied == [f \in {"expiration", "chainId", "nonce", "sessionEpoch",
                        "gasLimit", "paymasterMode"} |-> p[f]]
  IN  IF AllOk(parsed) THEN Ok(Join(Values(parsed), copied)) ELSE Err

(* IntentSigner.createIntent of the SDK. *)
HexFields == {"targetContract", "functionSig", "recipient", "assetAddress",
              "callDataHash", "requiredClaim", "claimProofHash", "paymaster"}

CreateIntent(p) ==
  CreateIntentWasm(
    [f \in DOMAIN p |-> IF f \in HexFields THEN StripHexPrefix(p[f]) ELSE p[f]])

(* sign_session_cert_wasm. *)
SignSessionCertWasm(p, verifying_contract, action_privkey) ==
  LET parsed == [session  |-> HexToArray(20, p.session),
                 parent   |-> HexToArray(20, p.parent),
                 scope    |-> HexToArray(4, p.scope),
                 target   |-> HexToArray(20, p.target),
                 maxValue |-> ParseU128(p.maxValue)]
      contract == HexToArray(20, verifying_contract)
      key == HexToArray(32, action_privkey)
      cert == Join(Values(parsed), [expiration |-> p.expiration,
                                    chainId    |-> p.chainId])
  IN  IF AllOk(parsed) /\ contract.ok /\ key.ok
      THEN Ok(SignSessionCert(cert, contract.value, key.value)) ELSE Err

(* SessionManager.signSessionCert of the SDK. *)
SdkSignSessionCert(p, verifyingContract, actionPrivkeyHex) ==
  SignSessionCertWasm(
    [f \in DOMAIN p |-> IF f \in {"session", "parent", "scope", "target"}
                        THEN StripHexPrefix(p[f]) ELSE p[f]],
    StripHexPrefix(verifyingContract), StripHexPrefix(actionPrivkeyHex))

(* compute_call_hash_wasm, for calldata of any length. *)
ComputeCallHashWasm(text) ==
  IF HexDecodes(text) THEN Ok(CallDataHash(text.bytes)) ELSE Err

=============================================================================
