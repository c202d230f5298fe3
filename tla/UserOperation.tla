---------------------------- MODULE UserOperation ----------------------------
(***************************************************************************)
(* The user operation as the client builds it (UserOperationBuilder of     *)
(* src/intents/mod.rs) and as the EntryPoint takes it apart.  The builder  *)
(* follows the comments of contracts/src/IAccount.sol, the EntryPoint the  *)
(* format that both name, ERC-4337 v0.7, which has the halves of the two   *)
(* packed words the other way round.                                       *)
(***************************************************************************)
EXTENDS Naturals

CONSTANT U128   \* 2^128, the size of half a word

ASSUME WordAssumption == U128 \in Nat \ {0}

NewOperation(sender) ==
  [sender |-> sender, nonce |-> 0, call_data |-> <<>>, call_gas_limit |-> 0,
   verification_gas_limit |-> 0, pre_verification_gas |-> 0,
   max_fee_per_gas |-> 0, max_priority_fee_per_gas |-> 0, init_code |-> <<>>,
   paymaster_and_data |-> <<>>]

(* The setters, each of which returns the builder it changed.              *)
WithNonce(builder, nonce) == [builder EXCEPT !.nonce = nonce]
WithCallData(builder, data) == [builder EXCEPT !.call_data = data]
WithInitCode(builder, code) == [builder EXCEPT !.init_code = code]
WithPaymaster(builder, data) == [builder EXCEPT !.paymaster_and_data = data]

WithGas(builder, call, verification, preVerification, maxFee, maxPriority) ==
  [builder EXCEPT
     !.call_gas_limit = call, !.verification_gas_limit = verification,
     !.pre_verification_gas = preVerification, !.max_fee_per_gas = maxFee,
     !.max_priority_fee_per_gas = maxPriority]

(* Two big-endian numbers of 16 bytes, one behind the other.               *)
Pack(high, low) == ((high % U128) * U128) + (low % U128)
High(word) == word \div U128
Low(word) == word % U128

Build(builder, signature) ==
  [sender |-> builder.sender, nonce |-> builder.nonce,
   init_code |-> builder.init_code, call_data |-> builder.call_data,
   account_gas_limits |->
     Pack(builder.call_gas_limit, builder.verification_gas_limit),
   pre_verification_gas |-> builder.pre_verification_gas,
   gas_fees |->
     Pack(builder.max_fee_per_gas, builder.max_priority_fee_per_gas),
   paymaster_and_data |-> builder.paymaster_and_data,
   signature |-> signature]

-----------------------------------------------------------------------------
(* What an EntryPoint v0.7 reads in the packed fields.                     *)
VerificationGasLimit(userOp) == High(userOp.account_gas_limits)
CallGasLimit(userOp) == Low(userOp.account_gas_limits)
MaxPriorityFeePerGas(userOp) == High(userOp.gas_fees)
MaxFeePerGas(userOp) == Low(userOp.gas_fees)

(* The most an operation may cost whoever pays for its gas.                *)
MaxCost(userOp) ==
  (CallGasLimit(userOp) + VerificationGasLimit(userOp)
     + userOp.pre_verification_gas) * MaxFeePerGas(userOp)

=============================================================================
