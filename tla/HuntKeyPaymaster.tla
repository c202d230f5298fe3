--------------------------- MODULE HuntKeyPaymaster ---------------------------
(***************************************************************************)
(* The paymaster (contracts/src/HuntKeyPaymaster.sol).  It agrees to pay   *)
(* for the gas of an operation out of its deposit with the EntryPoint,     *)
(* either as a gift (mode 1) or against tokens of the account, which it    *)
(* collects after the operation has run (mode 2).                          *)
(*                                                                         *)
(* Tokens are external: all the paymaster learns of a token is whether     *)
(* transferFrom succeeds, so a token is how much of it the paymaster could *)
(* collect from the account, the lesser of balance and allowance.          *)
(***************************************************************************)
EXTENDS UserOperation, Sequences

CONSTANTS
  Paymaster,       \* The address of the contract
  PaymasterOwner,  \* Its owner
  Token,           \* The ERC-20 tokens
  Account,         \* The accounts it may pay for
  TokenPrice,      \* The prices the owner may set; 0 disables a token
  Precision,       \* 1e18, what prices are scaled by
  MaxTokens,       \* Bound on the tokens of an account
  DepositAmount,   \* The amounts that deposit and withdraw may be called with
  MaxDeposit       \* Bound on what the deposit is topped up to

ASSUME PaymasterAssumption ==
  /\ TokenPrice \subseteq Nat /\ 0 \in TokenPrice
  /\ Precision \in Nat \ {0}
  /\ DepositAmount \subseteq Nat \ {0}
  /\ MaxTokens \in Nat /\ MaxDeposit \in Nat

VARIABLES
  sponsoredAccounts,  \* The accounts mapped to true
  tokenGasPrice,      \* Per token
  deposit,            \* What the EntryPoint holds for the paymaster
  collectable,        \* Per account and token: what transferFrom can move
  collected           \* Per account and token: what it has moved

paymasterVars ==
  <<sponsoredAccounts, tokenGasPrice, deposit, collectable, collected>>

PaymasterTypeOK ==
  /\ sponsoredAccounts \subseteq Account
  /\ tokenGasPrice \in [Token -> TokenPrice]
  /\ deposit \in Nat
  /\ collectable \in [Account \X Token -> 0..MaxTokens]
  /\ collected \in [Account \X Token -> Nat]

PaymasterInit ==
  /\ sponsoredAccounts = {}
  /\ tokenGasPrice = [token \in Token |-> 0]
  /\ deposit = 0
  /\ collectable = [held \in Account \X Token |-> MaxTokens]
  /\ collected = [held \in Account \X Token |-> 0]

-----------------------------------------------------------------------------
SetSponsoredAccount(caller, account, sponsored) ==
  /\ caller = PaymasterOwner
  /\ sponsoredAccounts' = IF sponsored THEN sponsoredAccounts \cup {account}
                          ELSE sponsoredAccounts \ {account}
  /\ UNCHANGED <<tokenGasPrice, deposit, collectable, collected>>

SetTokenGasPrice(caller, token, pricePerGas) ==
  /\ caller = PaymasterOwner
  /\ tokenGasPrice' = [tokenGasPrice EXCEPT ![token] = pricePerGas]
  /\ UNCHANGED <<sponsoredAccounts, deposit, collectable, collected>>

Deposit(amount) ==
  /\ deposit + amount <= MaxDeposit
  /\ deposit' = deposit + amount
  /\ UNCHANGED <<sponsoredAccounts, tokenGasPrice, collectable, collected>>

Withdraw(caller, amount) ==
  /\ caller = PaymasterOwner
  /\ amount <= deposit
  /\ deposit' = deposit - amount
  /\ UNCHANGED <<sponsoredAccounts, tokenGasPrice, collectable, collected>>

(* The account spends or receives tokens, or changes the allowance.        *)
TokensMove(account, token) ==
  /\ \E amount \in 0..MaxTokens :
       collectable' = [collectable EXCEPT ![<<account, token>>] = amount]
  /\ UNCHANGED <<sponsoredAccounts, tokenGasPrice, deposit, collected>>

-----------------------------------------------------------------------------
(* paymasterAndData holds the address, the mode and, for mode 2, a token.  *)
(* buildPaymasterAndData of the TypeScript SDK:                            *)
PaymasterAndData(mode, token) ==
  IF mode = 2 /\ token \in Token THEN <<Paymaster, mode, token>>
                                 ELSE <<Paymaster, mode>>

NoContext == <<>>

(* validatePaymasterUserOp(): whether it returns, and with what context.  A *)
(* mode 2 operation hands its account and token over to postOp.            *)
PaymasterAgrees(userOp) ==
  LET data == userOp.paymaster_and_data IN
  /\ Len(data) >= 2
  /\ \/ data[2] = 1 /\ userOp.sender \in sponsoredAccounts
     \/ data[2] = 2 /\ Len(data) >= 3 /\ tokenGasPrice[data[3]] # 0

ShortContext(userOp) ==   \* mutant: postOp is handed no maxCost
  LET data == userOp.paymaster_and_data IN
  IF data[2] = 2 THEN <<userOp.sender, data[3]>> ELSE NoContext

PaymasterContext(userOp) ==
  LET data == userOp.paymaster_and_data IN
  IF data[2] = 2 THEN <<userOp.sender, data[3], MaxCost(userOp)>> ELSE NoContext

MaxCostDue(context, actualGasCost) ==   \* mutant: bills the most it could cost
  IF context = NoContext THEN 0
  ELSE (context[3] * tokenGasPrice[context[2]]) \div Precision

(* The tokens postOp() asks for, at the price it finds when it is called.  *)
TokensDue(context, actualGasCost) ==
  IF context = NoContext THEN 0
  ELSE (actualGasCost * tokenGasPrice[context[2]]) \div Precision

TransferPossible(context, amount) ==
  amount > 0 => amount <= collectable[<<context[1], context[2]>>]

UnpaidPostOp(context, amount) ==   \* mutant: does not look at the result
  UNCHANGED <<collectable, collected>>

(* postOp() up to its end: the tokens due are transferred.                 *)
PostOp(context, amount) ==
  /\ TransferPossible(context, amount)
  /\ IF amount = 0 THEN UNCHANGED <<collectable, collected>>
     ELSE /\ collectable' =
               [collectable EXCEPT ![<<context[1], context[2]>>] = @ - amount]
          /\ collected' = [collected EXCEPT ![<<context[1], context[2]>>] = @ + amount]

=============================================================================
