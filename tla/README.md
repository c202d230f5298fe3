# A TLA+ model of HuntKey

HuntKey is a self-sovereign identity protocol: Solidity contracts that keep an
identity's keys, guardians and revocations on chain and execute calls under a
three-layer chain of signatures, and a Rust library (with WebAssembly and
TypeScript faces) that derives keys, signs messages and watches the chain. This
directory holds TLA+ modules for it, TLC configurations that check them on small
instances, and proofs for instances of any size. `PROJECT.json` lists every run,
every theorem, the source lines each definition stands for, the hazards the
properties are aimed at, and the mutants that show each property can fail.

Paths below are relative to the repository.

## The system

| Component | Source | State | Operations |
|---|---|---|---|
| IdentityStore | `contracts/src/IdentityStore.sol` | authorised keys and provers, nonce counters, guardians, six mappings of a recovery, identity state, session epoch, one gate flag | administration by the owner, (delegated) intent validation, freeze and unfreeze, mass revocation, initiate / support / cancel / finalize recovery |
| ExecutionGateway | `contracts/src/ExecutionGateway.sol` | used session keys | `execute` |
| HuntKeyAccount | `contracts/src/HuntKeyAccount.sol` | EntryPoint address, claims, ether | `executeMulticall`, `validateUserOp`, claims, deposits |
| HuntKeyPaymaster | `contracts/src/HuntKeyPaymaster.sol` | sponsored accounts, token prices, deposit | validate, `postOp`, configuration, deposits |
| ClaimVerifier | `contracts/src/ClaimVerifier.sol` | issuer, commitments, used proofs | register, revoke, verify |
| Keys and messages | `src/core`, `src/intents`, `src/sessions`, `src/recovery` | the action-key counter; a client's `PendingRecovery` | derivation, EIP-712 encoding, signing, recovery of signers, building of user operations |
| Watcher, log, dashboard | `src/monitor` | known guardians and delegates, alerts, queued notifications, event log | one handler per event, registration, drain, clear, queries and snapshots |
| WASM and TypeScript faces | `src/wasm_api`, `sdk/ts` | none on the Rust side; the SDK's auditor reads chain state | conversions; sequences of `eth_call` |
| Demo | `src/main.rs`, `examples/client-demo.ts` | none | a sequence of library calls |

**How they interact.** ExecutionGateway inherits IdentityStore and
HuntKeyAccount inherits ExecutionGateway, so one deployed account has the
functions and the storage of all three, and a call of one function can change
what another is about to read. The EntryPoint (external, ERC-4337) calls
`validateUserOp` and `validatePaymasterUserOp`, later makes the call of the
operation, and ends it with `postOp`. The Rust library produces the signed
messages that come back as arguments of those calls, submitted by anyone, at any
later time, as often as they like, to any deployment. The watcher is fed events
of the contracts by its embedding program.

**What makes it hard.** A transaction is atomic, but the order of transactions
of owner, root, guardians and strangers is not fixed; signed messages are bearer
tokens; foreign code runs in the middle of `execute` and `executeMulticall` and
may call back; a nested call may fail and be caught; the EntryPoint validates
whole bundles before it executes any of them, and undoes a call whose `postOp`
reverts; time-outs compare a stored start with `block.timestamp`; a restarted
client derives the same keys again; every message is encoded once in Rust and
once in Solidity; the watcher sees everything late.

**What makes each part correct.**

- IdentityStore: the mappings of a recovery agree in every state; only different
  guardians' consent to the very recovery that is pending counts; a recovery
  needs its quorum and its whole window, keeps its target and its timelock, and,
  once the timelock runs, can end; a nonce admits one message.
- ExecutionGateway: a session key serves one call, is burned only for it, and
  calls stay within the certificate, under reentrancy and nested failure.
- HuntKeyAccount: the same across `execute`, batches and operations; a failing
  batch leaves no trace; no operation after its certificate's expiry.
- Paymaster: what a call did is kept only if it was paid for, at a price that was
  in force.
- ClaimVerifier: a proof verifies once.
- Client: what it signs is accepted by the deployment it signed for and by no
  other, whatever it is submitted with, and restarts do no harm.
- Watcher: alerts, log and notifications tell one story, the log ends where the
  contract is, and guardians are told.

## The modules

| Module | Models |
|---|---|
| `SocialRecovery` | what recovery promises, without guardians and approvals: the abstract specification |
| `IdentityStore` | `IdentityStore.sol`: variables named as in the source, one action per external function |
| `IdentityHistory` | the same with the part of its event log that counts uses of nonces and recoveries |
| `ExecutionGateway` | extends `IdentityStore` by `execute`, a call stack, and reverts that restore storage |
| `HuntKeyAccount` | extends `ExecutionGateway` by claims, batches, ether and the EntryPoint's two phases |
| `UserOperation` | the packed operation and its builder (`src/intents`, `IAccount.sol`) |
| `HuntKeyPaymaster` | `HuntKeyPaymaster.sol` and the SDK's `buildPaymasterAndData` |
| `ClaimVerifier` | `ClaimVerifier.sol` |
| `Sponsorship` | account, paymaster and verifier under one EntryPoint that charges a deposit and calls `postOp` |
| `SignedMessages` | encoding, signing and recovery of all messages, the Rust side and the Solidity side separately |
| `KeyHierarchy` | roles, derivation paths, session keys (`src/core`, `src/sessions`) |
| `WasmInterface` | what `src/wasm_api` accepts and makes of its input, as the SDK calls it |
| `ClientAtGateway` | a client of several deployments, in front of one `ExecutionGateway` |
| `IdentityWatcher` | handlers, event log and dashboard of `src/monitor` |
| `PendingRecovery` | the client's record of a recovery (`src/recovery`) |
| `MonitoredIdentity` | `IdentityStore`, a feed of its events, the watcher and a `PendingRecovery` |
| `...Proofs` | theorems about the module named, for TLAPS |
| `MC...` | constants of the small instances, for the `.cfg` of the same subject |

**Composition.** The contracts extend one another as their sources inherit. The
other modules meet in three: `Sponsorship` (everything under the EntryPoint),
`ClientAtGateway` (the library in front of the contract) and `MonitoredIdentity`
(the library behind it). `IdentityStore` implements `SocialRecovery` under the
refinement `SR` (an account to move to is `pendingNewRoot`, the start of the
timelock is `recoveryInitiatedAt`, the number of moves is `recoveryNonces`).

**Correspondence.** One action is one external call that does not revert. A
revert undoes the call, so it is not a step; every `if (...) revert` is a
conjunct of a guard, every assignment a primed variable. `_clearRecovery` is the
operator `ClearRecovery`, given the guardian list as the storage has it when the
code runs (in `finalizeRecovery` that is after the list was deleted). Mappings to
`bool` are sets, others functions over `Address`. A handler of the watcher is one
action with everything it pushes: alert, log entry, notifications.

**Messages.** In the contract modules a message is a record that names its
signer, and a hash an injective constructor (`Keccak`). Which messages exist is
a constant (`Intent`, `Delegation`, `UserOp`) or grows as somebody signs
(`signed`, `issued`). Anyone may submit an existing message at any time. Where
the encoding matters, in `SignedMessages`, a hash is an injective function of
the list of words hashed, a word remembers the side it is padded on, and a
signature names its key and its hash; `ecrecover` against any other hash gives
an address nobody has the key of. `ClientAtGateway` makes the gateway's records
out of message and signature by the contract's own hashing, so that a difference
between the two encodings shows as a message nobody can use. Derived keys are
free constructors too.

**Calls in progress.** In `ExecutionGateway` `Execute` runs up to the forwarded
call and pushes a frame with the storage to restore; `CallSucceeds` and
`CallFails` finish it. Between these steps only members of `Contract` call, the
clock stands still and nobody signs, which is what a transaction is. Frames nest.
`HuntKeyAccount` splits `executeMulticall` the same way, one step per call of the
batch (`ExecuteMulticall`, `NextCall`, `ACallSucceeds`, `ACallFails`).

**The EntryPoint** is not in the repository. `HuntKeyAccount` has what the
account sees: every operation of a bundle is validated (a refused one undoes the
bundle, so only accepted ones are steps), then the calls are made in order, each
succeeding, reverting, or being refused by the function's own guard
(`OpRefused`). An operation is submitted once, as the EntryPoint's nonces have
it. `Sponsorship` adds the money: validation takes the most an operation may
cost from the paymaster's deposit, settlement gives back what was not used and
calls `postOp`, and a `postOp` that reverts undoes the call, as in ERC-4337
v0.7; the gas stays paid.

**Events.** An item of the feed of `MonitoredIdentity` stands for the logs one
call emits about one identity. The feed is read in the order of the chain, at
any later time. Reorganisations of the chain are not modelled.

**Mutants.** An operator commented `mutant:` is a plausible wrong version of the
definition after it; `PROJECT.json` says which property it breaks.

## The runs

`tlc -config MCRecovery.cfg MCIdentityStore`, and likewise for the others.

| Run | Shows |
|---|---|
| `recovery` | one identity under every order of guardian, owner and root calls: types, `RecoveryCoherent`, `ApprovalsAreConsents`, `PendingRequestIsFixed`, `RecoveryNeedsQuorumAndWindow` |
| `crossing_recoveries` | a root recovered to itself, and a new root that is being recovered in turn: the same invariants, the refinement `SocialRecoveryKept`, and the liveness property `RecoveryCompletes` |
| `nonces` | over direct and delegated use, a nonce admits one message per time its signer became a root; no purchase without an endorsed intent; no replay of a finalized recovery |
| `gateway` | reentrant, failing and repeated `execute`: single use, burned exactly if executed, calls within what was signed and in force when they were made |
| `account` | the same keys across `execute`, batches and user operations; a call or batch that fails, at any of its calls, leaves keys, claims, ether and recoveries as they were (`FailedCallLeavesNoTrace`) |
| `account_recovery` | operations that carry recovery calls: types, keys, and expiry on the path where only `validUntil` is checked |
| `sponsorship` | what a call did is kept only if it was paid for; tokens are charged at a price in force; a proof is used once; a call that is undone gives its key back, an operation that was let through does not |
| `client` | Rust, WebAssembly and Solidity agree on every message; nothing takes effect that was not signed for this deployment; keys burned here open nothing on another chain; single use across restarts |
| `monitor` | alerts match the log, notifications are those owed, ranges of the log add up, and (liveness) guardians registered in time are told |
| `monitor_recovery` | the log, with what is under way, ends in the contract's state; the client's `PendingRecovery` agrees with the contract |
| `stale_approval`, `paid_as_signed` | statements of the documents that the code does not keep (below) |

**Bounds.** The only counters cut by a guard are `MaxTime`, `MaxEpoch`,
`MaxBalance`, `MaxDeposit`, `MaxTokens`, `MaxEvents`, `MaxRegistered`,
`MaxActionIndex` and `MaxSigned`; nonces are bounded by the messages that exist,
nesting by the session keys, since every frame burns one.

- `recovery`: three guardians, lists that repeat a guardian or replace two of
  three, requests for two new roots, for the zero address and for two successive
  nonces, a window of 2 and 5 blocks. A recovery can be gathered, cancelled,
  gathered again with stale approvals, finalized, and a second one run under the
  next nonce. `crossing_recoveries` has two managed roots and three moves that
  meet. Threshold 2 and a window longer than a block keep the code's relations.
- `nonces`: two competing intents for one nonce, later nonces, a raised epoch, a
  signer who is key, delegate and new root at once.
- `gateway`, `account`: two session keys, so that one call can be nested in
  another and fail. 2^48 is scaled down to 8, with expirations below, at 0 and
  beyond it. In the runs and proofs about the account, the call of an operation
  is one of `execute`, `cancelRecovery`, `finalizeRecovery` and
  `supportRecovery`, and all operations of a bundle are this account's
  (`IsUserOp`): operations that call anything else, and those of other accounts
  in the same bundle, are left out.
- `sponsorship`: a token-paid and a sponsored operation with the same call, so
  that the second can make it only if the first was undone; 2^128 scaled down to
  4; different limits for call and verification, so that it shows which is read
  as which; a fee of 2 wei, so that gas and its cost differ; a price of 0 (token
  not accepted) and of a quarter token, so that the division rounds; one token in the wallet. The account is set up in a fixed
  order. The paymaster's owner is the contract the operation calls, so prices,
  sponsored accounts and claims can change in the middle of the operation. Calls
  are not nested here; the `account` run nests them.
- `client`: three deployments on two chains (same contract address on both, two
  on one chain), two counters, a restart, three signatures, text of right and
  wrong length. Three are what a pair of messages of any kind plus one more for
  another deployment, or with another key, takes.
- `monitor`: three events of any kinds, about any accounts, and two guardians,
  registered, once or again, before, between or after them; values of intents
  below, at and above the threshold. `monitor_recovery`: five events, enough for
  a recovery that starts, is supported and ends, and for another one to begin,
  and a session epoch that is raised in between.

**Fairness.** `RecoveryCompletes` assumes that blocks keep being produced and
that, for each root, somebody keeps calling `finalizeRecovery` while it would
succeed: the function is open to any caller and the holder of the new root wants
it called. Nothing is assumed of guardians, owner or the old root, whose
cancellation is the other way a recovery ends. `GuardiansAreTold` assumes that
whoever runs the watcher keeps feeding it the events and draining its
notifications, which is what the library leaves to its caller. `stale_approval`
assumes that guardians who have signed keep submitting their signatures, so that
a recovery that does not start is the contract's doing. All other properties are
safety properties and assume nothing.

## The proofs

`tlapm IdentityStoreProofs.tla`, and likewise for the others. Each theorem holds
for all values of the constants that satisfy the assumptions named in the module
it is about and in those it extends: finitely many addresses, well-formed
messages and builders, a threshold of at least 2, a positive window, and for the account a
clock that stays below 2^48. `ClientAtGateway` assumes that nobody has the key
of the address `Stranger`, which `ecrecover` gives for a signature over something
else: it is no derived key and on no guardian list. `MonitoredIdentity` assumes
that the markers for "no recovery" and "not started" are not values of theirs,
and that the 172800 of the library's `timelock_expired` is the contract's
`RECOVERY_WINDOW`, as in the source.

| Module | Theorems |
|---|---|
| `IdentityStoreProofs` | types, `RecoveryCoherent`, `ApprovalsAreConsents`, `PendingRequestIsFixed`, `RecoveryNeedsQuorumAndWindow`, and `ImplementsSocialRecovery`: `Spec => SR!Spec` |
| `IdentityHistoryProofs` | types, `NonceSpentOncePerReset`, `PurchasesAreEndorsed`, `FinalizedRecoveryNotReplayed`, and `HSpec => Spec`: what is proved of the store holds with its events counted |
| `ExecutionGatewayProofs` | types, `SessionKeySingleUse`, `BurnedIffExecuted`, `CallsWithinCertificate` |
| `HuntKeyAccountProofs` | types, `KeysBurnedForUse`, `KeyServesOnePurpose`, `FailedCallLeavesNoTrace`, `NoOpAfterExpiry` |
| `SponsorshipProofs` | `ProofUsedOnce` |
| `SettlementProofs` | types, `KeptOnlyIfPaid`, `ChargedAtAPriceInForce`, and of the account under a paymaster `KeysBurnedForUse`, `KeyServesOnePurpose`, `NoOpAfterExpiry` |
| `MonitoredIdentityProofs` | types, `NoticesAreOwed`, `AlertsMatchLog`, `LogTellsState`, `RangesAddUp`, `TrackerAgrees`, and of the contract it observes `RecoveryNeedsQuorumAndWindow` and the refinement `SocialRecoveryKept` |
| `ClientAtGatewayProofs` | `SignaturesVerify`, `OnlyWhatWasSignedHere`, `BurnedKeysAreOfThisChain`, and of the client's specification `SessionKeySingleUse`, `BurnedIffExecuted`, `CallsWithinCertificate` |

The arguments:

- *Recovery.* What a step does to the recovery of one root is one of four things:
  leaving it alone, initiating, supporting or clearing it (`RecoveryStep`, over
  all actions of `Next`). `RecoveryCoherent` is inductive together with the
  types: approvals are 0 exactly when nothing is pending, and the timelock runs
  exactly from the threshold on. `ApprovalsAreConsents` follows because a step
  that counts an approval adds a guardian who was not yet in the approved set, so
  the set of supporters grows by one (`SupportersGrow`), and because nonce and
  new root cannot change while the recovery is pending. The action properties and
  the refinement are consequences for each of the four kinds of step. A threshold
  of at least 2 is needed: `initiateRecovery` counts one approval and never
  starts the timelock, so with a threshold of 1 it would not start at the
  threshold.
- *Nonces* (`HistoryInv`). A slot whose nonce has not been reached was used once
  less than one whose nonce lies behind, counted per time the signer became a
  root, which is what resets the counter. Nonces of finalized recoveries lie
  behind the counter of their root.
- *Gateway* (`GatewayInv`). The burned keys are those of executed calls and those
  of calls in progress, all different. For a revert to keep this, the storage
  saved with each frame must account in the same way for the frames further out;
  frames pushed or popped further in do not disturb it (`OuterFramesDecide`).
  `CallsWithinCertificate` compares a call with the storage its frame has saved,
  which no later step touches, and with the clock, which stands still while calls
  are under way (`CallsTakeNoTime`).
- *Account* (`AccountInv`). Keys of operations are burned between transactions,
  so no revert gives them back: they are set aside (`Endorsed`), and the rest of
  the table, and of every saved one, is accounted for as in the gateway. Batches
  are frames that also save claims and ether. That a failed call leaves no trace
  needs the types only: every step leaves the stack alone, pushes a frame that
  saves the storage as it is, goes on in a batch, or pops (`StackSteps`), and
  putting back a saved storage gives the very same (`PutBack`).
- *Verifier* (`VerifierInv`). The used proofs are those verified, each once, and
  the same holds of what a call may be undone to, which is there as long as a
  call is under way or to be settled.
- *Settlement* (`SponsorInv`, which contains `VerifierInv`). An operation in the
  bundle is there once and unsettled, and the call under way carries the key of
  the first. Between transactions, and in what a call would be undone to, each
  executed key is paid for; while an operation waits for its `postOp` its own key
  may be executed and unpaid, which is why `KeptOnlyIfPaid` speaks of the states
  with nothing left to settle. The price of an operation that is open, and the
  one a revert would restore, are among those it has seen. Most
  steps are steps of the account (`AccountStepsTaken`) and keep `AccountInv`; the
  `postOp` that reverts is none, and for it the frame kept with the settlement has
  to account for the keys too (`UndoneSpentOnce`), with every operation let
  through so far among those set aside in it.
- *Watcher* (`MonitorInv`). Each part of the invariant speaks of what has been
  delivered and of what is still in the feed at once, because a call writes the
  contract's state now and the log later. *Notices*: every handler queues what
  its event calls for (`HandlerNotifies`), and reducing notifications to notices
  commutes with concatenation, so a drain moves them without losing or doubling
  any. *Alerts*: every handler either adds one alert and one entry with the same
  stamp, or leaves the log alone and adds at most an alert of a kind that is not
  logged (`HandlerLogs`); the shorter list is an end
  of the longer one, which appending to both and clearing either preserves
  (`MatchingGrows`, `MatchingOfNone`). *History* (`NewestIsTrue`): in the log
  followed by the feed, the last entry of its type about a root has the root's
  state or epoch. Delivery moves an entry from the one to the other and leaves
  this sequence as it is; a call that changes a state appends the entry that says
  so. *Tracker* (`WillAgree`): the tracker, once it has followed every event of
  the feed, agrees with the contract; its approvals are guardians that the
  contract has marked as approved, so `add_approval`, which ignores a guardian it
  has, never ignores one that the contract counts. That both start the timelock
  at the same approval needs `RecoveryCoherent`, from `IdentityStoreProofs`. *Ranges*: an entry lies in
  just one of the two parts, and its time has passed, so the two counts add up.
- *Queries over the log* are filters, defined by recursion over its length
  (`Kept`), and what they return is proved by induction. The library's induction
  theorems take a predicate as a parameter, which the provers cannot instantiate;
  the same follows from `NatLessThanWellFounded` for a set of numbers in the place
  of the predicate (`NumberInduction`, `SequenceInduction`), and `Kept` is
  characterised once for good (`KeptIsDefined`): nothing is kept of nothing, and
  one more entry is kept or not.
- *Client* (`ClientInv`). Every entry of the ledger is a message of one of four
  forms with the signature of its key for its deployment (`LedgerOK`); the path
  through the browser is shown to sign the same as the library (`SdkCreates`,
  `SdkSigns`). The two encodings agree (`HashesAgree`), and no hash can be
  mistaken: the domain separator names chain and contract (`DigestsDiffer`), each
  kind of message begins with the name of its type (`KindsDiffer`), and the hash
  covers the fields (`MessagesDiffer`). So a message that is submitted under a
  foreign signature has `Stranger` for its signer, who has no power. What took
  effect in the current storage was signed here (`Genuine`), and the same has to
  hold of the storage that every call under way may put back, which is why the
  invariant speaks of the stack. A recovery request names no chain when it is
  submitted: the contract fills in its own (`AsHere`).
- *The client's session keys* (`SpentHere`). The account of keys of the gateway
  (`KeysSpentOnce`) again, with certificates that the client signs as it goes in
  the place of a constant set of them; `SpentByCall` and `SpentByReturn` serve
  both, and so do `CallIsWithin` and `OthersStayWithin` for the calls under way.
- *What observers see of a recovery.* Every step of `HSpec` and of `MSpec` is one of
  the contract's or leaves it alone (`ContractStep`). `MInit`, where guardians are
  registered and have signed, is not an initial state of `Spec`; `AbstractStep` and
  `QuorumFromAnyState` speak of steps from any state of the right types, so they
  hold from there as well.

Only model-checked: the two liveness properties (`RecoveryCompletes`,
`GuardiansAreTold`), which are out of reach of the provers, and the runs that
end with a counterexample. Every invariant and every action property of the runs
is proved.

## Where documents and code part

Two runs end with a counterexample:

- `stale_approval`: `_clearRecovery` resets the approvals of the guardians stored
  when it runs. A guardian who approved, was replaced before the recovery was
  cancelled and put back afterwards cannot support the next one, although
  `docs/USER_FLOW.md:211` asks for 2 of N.
- `paid_as_signed`: `validateUserOp` does not compare the paymaster and the mode
  in the signed intent with `paymasterAndData`, although `docs/PAYMASTER.md:37`
  says that the mode cannot change after signing.

Six more configurations, which are not among the runs, each check one sentence
of a document or comment that the code does not keep, and end with a
counterexample too. The properties of the runs say what holds instead.

- `MCTimelockStart.cfg` (of `MCIdentityStore`): the timelock starts with the
  `supportRecovery` that meets the threshold, which is what `RecoveryCoherent`
  states; `docs/USER_FLOW.md:210` has `initiateRecovery` start it.
- `MCEpoch.cfg` (of `MCExecutionGateway`): the session epoch is a field of the
  intent, which the session key signs later, and not of the certificate. Raising
  the epoch voids intents; `specs/invariants.md:38` and `README.md:108` say
  certificates and sessions.
- `MCBatchRecovery.cfg` (of `MCHuntKeyAccount`): `executeMulticall` does not
  look at the identity state again between two calls, so a batch goes on while
  the recovery that one of its calls started is pending. `docs/USER_FLOW.md:215`
  has all execution blocked.
- `MCHighValue.cfg` (of `MCMonitoredIdentity`): a value that equals the
  threshold counts as high, where `src/monitor/mod.rs:81`, `:343`,
  `docs/USER_FLOW.md:202` and `docs/DASHBOARD.md:43` say "above" or "exceeds".
  `NoticesAreOwed` follows the code.
- `MCPackedLimits.cfg` (of `MCSponsorship`): the builder and
  `IAccount.sol:28-30` put call gas before verification gas and `maxFeePerGas`
  before the priority fee. The format they name (`IAccount.sol:22`,
  `src/intents/mod.rs:287`), ERC-4337 v0.7, has the halves the other way round.
  In the model the builder packs as the repository does, and the EntryPoint,
  which is external, reads as v0.7 does.
- `MCPricePerGas.cfg` (of `MCSponsorship`): a token's price is called one per
  unit of gas (`HuntKeyPaymaster.sol:36`, `:75`, `:126`,
  `docs/DEPLOYMENT.md:485`, `sdk/ts/src/index.ts:487`), and `postOp` multiplies
  it by the cost in wei. `ChargedAtAPriceInForce` follows the code.

Seen while modelling, visible in the definitions, and without a configuration:

- IdentityStore. Starting, cancelling or finalizing a recovery overwrites
  `Frozen`, and `unfreezeIdentity` makes an identity Active while its recovery is
  pending (`ARCHITECTURE.md:184`: only the owner can unfreeze).
  `finalizeRecovery` resets the counters of a new root that may have used them
  (`NonceSpentOncePerReset` states what holds instead). `cancelRecovery` does not
  advance the recovery nonce.
- HuntKeyAccount. `validateUserOp` burns the session key, so a call of `execute`
  under the same key is refused afterwards (`ARCHITECTURE.md:108`).
  `cancelRecovery` is let through by `validateUserOp` and then refuses its
  caller, the EntryPoint. On the recovery path expiry is left to `validUntil`,
  for which an expiration of 0 means no limit (`NoOpAfterExpiry` names the
  exception). `executeMulticall` neither compares the certificate's target nor
  bounds what the calls of the batch carry.
- Paymaster. `tokenDebt` is declared and never written.
- ClaimVerifier. Nothing calls it: the comment at `ClaimVerifier.sol:110` says
  that the gateway does. In `Sponsorship` the called contract does.
- Watcher. `pending_recoveries` counts every recovery that was ever initiated
  (`docs/DASHBOARD.md:41`: those pending). `RecoveryCancelled` is also the
  category of an unfreeze and of a finalized recovery; the categories
  `RecoveryFinalized` and `IdentityUnfrozen` and the log type
  `DelegationEndorsed` are never produced. The log is called complete and
  append-only, and can be cleared and has no entry for delegations.
  `register_guardians` appends, so a guardian registered twice is notified twice.
- Session keys. `specs/protocol_overview.md:23` gives the info of the derivation
  as parent key and nonce; the code (`src/sessions/mod.rs:79`) and
  the other documents have the chain id in it too, and so has `DeriveSessionKey`.
- SDK. Numbers of 64 bits are declared as `number`.

## Not modelled

- `addDeposit`, `withdrawDepositTo`, `getDeposit` of the account pass calls
  through to the EntryPoint's deposit book; the views of ClaimVerifier change
  nothing.
- The SDK's auditor reads chain state by several calls and prints it; nothing
  depends on it.
- JSON export, hex text, display names and the printing of the demo program.
- Cryptography as computation: BIP-32, BIP-39, Keccak and ECDSA are free
  constructors, so their arithmetic, signature malleability and the checks of
  `s` and `v` are outside the model.
- Arithmetic modulo 2^256: counters and sums stay far below. Gas is modelled only
  as the amounts an operation is charged.
- Reorganisations of the chain, and a feed that loses or reorders events: the
  watcher has no means to notice either.
- Rust and Solidity tests, read as statements of intent; generated artefacts
  under `contracts/out`.
