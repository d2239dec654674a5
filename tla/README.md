# EnclaveKit in TLA+

A verification project for the Solana program in `src/programs/enclavekit`: a
smart wallet controlled by a P-256 key in a Secure Enclave. The modules model
the program, TLC checks them on small instances, and TLAPS proves the main
results for every value of the constants.

- [The system](#the-system)
- [The modules](#the-modules)
- [What the runs check](#what-the-runs-check)
- [What is proved](#what-is-proved)
- [Where the documentation and the code disagree](#where-the-documentation-and-the-code-disagree)
- [What is not modelled](#what-is-not-modelled)
- [Plan](#plan)

## The system

| Component | Source | State it keeps | Operations |
|---|---|---|---|
| The program | `programs/enclavekit/src` | per wallet ID, a state account (active key, nonce, attested, guardian slots, one rotation slot) and a vault (lamports only) | `transfer_sol`, `sweep_vault`, `set_guardians`, `propose_rotation`, `cancel_rotation`, `confirm_rotation`, `close_wallet` |
| Authorization | `authorization.rs` | the nonce | checks the payload of the precompile instruction against nonce, expiry and rebuilt preimage; fills a new wallet |
| Precompile payload | `precompile.rs` | none | reads key and message at fixed offsets of the instruction before, after checking that the runtime verified those bytes |
| Events | `events.rs`, `lib.rs` | none | one event per instruction, `WalletCreated` before a wallet's first |
| Encoding | `crates/enclavekit-encoding` | none | action and preimage bytes, offsets of the state account for a device's filters |
| Example client | `examples/kora_transfer_sol.rs` | locals of one run | reads nonce, funds the vault, signs, sends, polls |
| Relayer | `kora/` (configuration only) | its own balance | carries transactions, advances rent, asks a refund |
| Vector generator, tests | `crates/gen-vectors`, `tests/` | none | fixed bytes for the SDKs; `program_instruction` is the reference for a client |

**How they interact.** A device builds the preimage of an action, its enclave
signs it, and the signature becomes public data. A relayer puts it in a
transaction: the `secp256r1` precompile instruction first, the program's
instruction next, with arguments of the relayer's choice where the preimage
binds nothing (which relayer, what refund it asks). The program reads the
precompile instruction through the Instructions sysvar, rebuilds the preimage
from its arguments and compares. Money moves by CPI to the System program;
Anchor creates the state account before the handler (`init_if_needed`, paid by
the relayer) and closes it after (`close = relayer`). `confirm_rotation` needs no
signature at all.

**What is hard.** There are no threads: the runtime runs transactions that write
the same account one after the other and rolls a failed one back entirely. The
hard part is the order. Signatures outlive the state they were made for and
arrive in any order, at any time before they expire, from anyone, as often as
anyone likes. Owner and guardians share one nonce. A proposal races its
cancellation, its confirmation and its replacement against the clock. The
relayer decides the fee after the owner has signed. The state account can vanish
and come back, starting its nonce again. The vault may be empty, at its
rent-exempt minimum, or in between, where the runtime refuses it. The runtime
verifies bytes that a transaction's own offsets point at, the program reads fixed
ones. A client computes fee, nonce and funding from three reads made at different
moments, and cannot take back a transaction it gave up on.
`PROJECT.json` lists these hazards with the line where each one bites.

**What makes each part correct.**

- *Control*: only a signature that is still good, or a guardian's proposal that
  has waited, changes the key, the guardians or the existence of the wallet.
- *Timelock*: a proposal is neither confirmed before its delay nor displaced
  before its window ends, and is never inherited by another guardian.
- *Replay*: a signature passes at most once in the life of a state account.
- *Funds*: what leaves the vault is what was signed, and at most
  `max_relayer_fee` beyond it; the relayer's ask blocks neither a transfer nor a
  close, and an empty vault blocks no cancellation.
- *Owner*: an owner that watches often enough never loses the wallet to a
  guardian, though the guardians share its nonce and can void its cancellations.
- *Authenticity*: whatever is accepted in the name of a key was approved by its
  enclave, field by field, and the instruction that executes it is the one the
  approval means.
- *Layout*: a device finds the wallets that name its key, and no others.
- *Client*: no run pays twice, Kora is made whole, the reserve stays.
- *Events*: an observer that reads nothing else knows who controls the wallet, its
  nonce, its guardians and what is pending; and how much a payout took from the vault.

## The modules

| Module | What it is |
|---|---|
| `SmartWallet` | the program on one wallet ID: one action per instruction, and the world around it |
| `SmartWalletProperties` | what it promises: control, timelock, funds, the owner's cancellation |
| `Recovery` | the abstract specification: who holds and guards the wallet, and how a proposal ripens |
| `ControlRefinement` | `SmartWallet` implements `Recovery`: the refinement mapping |
| `LostOwner` | `Recovery` when the owner's key is gone; liveness |
| `WatchfulOwner` | `SmartWallet` composed with an owner that watches, signs and waits for delivery |
| `WalletAudit` | history variables across incarnations of the wallet; replay protection |
| `EventIndexer` | an indexer that applies events and nothing else |
| `Encoding` | the bytes of actions and of the preimage |
| `Precompile` | how a transaction carries a signature: what the runtime verifies, what the program reads |
| `Instructions` | the instruction a client builds, what a relayer rewrites in it, what the handlers rebuild from it |
| `StateLayout` | `SmartWallet` with the bytes of its account, and a device's filters |
| `KoraClient` | `SmartWallet` composed with runs of the example client and the network between them |
| `MC*` | the small instances TLC checks |
| `*Proofs` | theorems and proofs: `SmartWalletProofs`, `FundsProofs` (which extends it), `ControlRefinementProofs`, `ObserverProofs` (the audit, the indexer, the layout), `WatchfulOwnerProofs`, `KoraClientProofs`, `PrecompileProofs`, `InstructionsProofs` |

`WatchfulOwner`, `WalletAudit`, `EventIndexer`, `StateLayout` and `KoraClient` extend
`SmartWallet`, through `SmartWalletProperties` where they need its vocabulary.
`Precompile` and `Instructions` extend `Encoding`; together they justify the one thing
`SmartWallet` takes on trust, that a payload is a record some enclave signed and
that the arguments of an instruction are that record.

### How `SmartWallet` corresponds to the code

| In the model | In the code |
|---|---|
| `wallet` | the state account, `NoAccount` when it does not exist. `wallet_id` and the two bumps never change once set and are left out |
| `lamports` | the balances of the vault, the state account, relayers and other parties |
| `now` | `Clock::get()?.unix_timestamp`; `Tick` advances it by a second |
| `emitted` | the events of the last transaction, in the order `emit_cpi!` sent them |
| `Signatures` | every (key, program, request) some enclave ever signs. `SignedPayloads` is what a precompile instruction can carry past the runtime's check |
| `Requests` | the arguments a transaction may carry, chosen freely and independently of what is signed |
| `Authorized` | `verify_enclave_authorization` together with the PDA seeds that tie the accounts to `wallet_id` |
| `Opened`, `Advanced` | its two effects: filling a new account, then counting the nonce |
| `AfterInit`, `RentAdvance` | Anchor's `init_if_needed` with `payer = relayer`: tops the account up to its rent |
| `AtRent`, `RentExempt` | the runtime's rule on accounts a transaction leaves between 0 and the minimum; `RentExempt` is where it applies, at the end of a transaction |
| `CanTransfer`, `CanCancel`, `CanClose` | every check of those handlers, System's and the runtime's included; the actions are these and what they write |
| `TransferSol` ... `CloseWallet`, `ConfirmRotation` | the seven handlers, with what `lib.rs` emits after them |
| `Deposit` | anyone sending lamports to the vault, or to the state's address before or after it exists |

A step is one transaction that succeeds; a failing one is no step, since the
runtime undoes it. A handler that checks after it wrote (`cancel_rotation` takes
the slot, then errors if it was empty) therefore has its checks as guards.
If `Bundled`, a step is one instruction of a transaction that may hold several of
them, each behind its own precompile instruction. The runtime then looks at the
accounts only after the last one, so `RentExempt` asks nothing of a step. The
behaviours are those of every bundle, and of bundles the runtime would refuse in the
end: what no step of theirs can do, no bundle can. The theorems are for both values
of `Bundled`; what speaks of a transaction that is accepted (`AlwaysRentExempt`,
`FeesNeverBlock`, `EmptyWalletsClose`, `CancelsAreNeverBlocked`, `WatchingIsPossible`)
says more where it is false.

`TransferSol` keeps the order that matters: rent first, then the payment, then
the refund, each transfer refused when the vault is short. All seven guards and
all early errors are conjuncts. Aliases are possible as in the code: `to` may be
the vault, the state account or the relayer, and `Move` from an account to
itself changes nothing.

Integers: `FitsU64` stands for the check of `checked_add`, `U64Sum` for the sum
behind it, which would wrap without the check; `SaturatingAdd` for
`saturating_add`. `TypeOK` does not see a wrapped nonce, which is a u64 like any
other: `NonceCountsApprovals` does, in `audit`, whose nonces go up to the last. The constants take the place of `MAX_GUARDIANS`,
`ROTATION_DELAY` (72 hours, or 60 seconds on devnet), `ROTATION_WINDOW` and the
rent-exempt minima.

Assumptions on constants are named where they are declared: SHA-256 does not
collide on the modelled keys and no key is all zeros (`KeysAssumption`); the
clock stays far enough from `i64::MAX` for the timelock's sums
(`ParametersAssumption`); the two PDAs are distinct and sign nothing
(`AccountsAssumption`); the rent of an empty account, the vault, is no more than
that of the state account, since the runtime's rent grows with the data
(`ParametersAssumption`); the requests are well-typed (`RequestsAssumption`). The
compositions add their own: an owner can sign every cancellation and some relayer
exists (`OwnerAssumption`); what an indexer knows is never taken for "no account"
(`IndexAssumption`); keys have one length and their bytes tell them apart, words
have eight bytes (`LayoutAssumption`). TLC evaluates them in every run.

### `Recovery`, and how the program implements it

`Recovery` speaks of keys that act: a holder, a set of guardians, at most one
proposal with its guardian and its age in seconds. There are no signatures,
nonces, slots, timestamps or lamports in it. `ControlRefinement` maps the program
to it: the holder is `active_key` while the state account exists, the guardians
are the keys in the slots (a key in two slots is one guardian), the proposal
carries the key in slot `proposed_by`, the age is `now - proposed_at` up to the
first second past the window. `ImplementsRecovery` says that every transaction,
so seen, is a step of `Recovery` or changes nothing it speaks of; transfers,
refunds and deposits must be of the second kind. It says nothing of what is
enabled: a relayer may refuse to carry a transaction, a vault may be unable to
refund it.

`LostOwner` composes `Recovery` with the loss of keys. `lost` is the set of keys
nobody has any more; the wallet is `Stranded` while one of them holds it. The
other guardians propose any key, a lost one included, since neither
`propose_rotation` nor `confirm_rotation` refuses the key that already holds the
wallet; confirming such a proposal recovers nothing, and the model says so. One
guardian, `Friend`, keeps trying with keys that somebody has.

### `WatchfulOwner`

An owner's device looks at the wallet at least every `WATCH_PERIOD` seconds. When a
proposal waits it signs a cancellation for the nonce it read, and some relayer has
it executed or refused within `DELIVERY_TIME`. A guardian that proposes in between
takes the nonce: the cancellation is refused and the owner looks again. The
deadlines are guards of the clock: time does not pass an owner that is late, so
the module says what such an owner gets, and `DeadlinesCanBeMet` that it is never
asked the impossible, as long as a nonce is left: at u64::MAX nobody can sign
anything any more. The assumption `WATCH_PERIOD + 2 * DELIVERY_TIME <
ROTATION_DELAY` is tight: with equality TLC finds a run in which a guardian takes the
wallet. The owner signs nothing but the cancellation while a proposal waits: its
own payment at the same nonce would void its own cancellation.

### `Encoding` and `Precompile`

| In the model | In the code |
|---|---|
| `Serialize`, `SerializeGuardian` | what `borsh` derives for `Action` and `Guardian` (`action.rs`) |
| `ToBytes` | `Preimage::to_bytes` |
| `tx`, `at`, `accepted` | the instructions of the transaction that runs, the next one, and what the program has accepted in it. One refused instruction undoes all |
| `Verified`, `GetDataSlice` | the runtime's secp256r1 precompile, external: any count of signatures, offsets into any instruction. It does not refuse a count of 0 here, so nothing rests on that |
| `Parse` | `SignatureOffsets::parse` |
| `LoadsPayload`, `SignedPayload` | `load_secp256r1_payload`: its guards, its result |
| `Accepts` | the preimage comparison of `verify_enclave_authorization` |
| `calls` | the authorized requests an instruction runs the program with: one at the top level, any number in an instruction of another program that calls in |

Signatures are unforgeable by assumption (`UnforgeableAssumption`): a message that
verifies for a key was approved by its enclave, or does not begin with the domain
tag. No condition is put on the transactions. `TransactionsAssumption` types
what they carry and says that the program is not the precompile.

### `Instructions`

`ProgramInstruction` is what `gen-vectors` builds as the reference (and
`tests/common/requests.rs` likewise). A relayer may rewrite anything in it: name,
arguments, accounts, destination, or drop it for another one. `Constrained` states
Anchor's account constraints, `Performed` the action each handler writes out
before it asks for authorization, `Rebuilt` the request so obtained. `Passes` leaves
out what depends on the wallet, which `SmartWallet` has. It compares requests
where the code compares bytes, which is the same by the theorem `PreimageInjective`.

### `StateLayout`

`Data` lays the fields of the account out in the order of the struct, as `borsh`
does; the offsets are sums, as in `state.rs`. Both are independent translations, the
first of the program's crate, the second of the encoding's. `SignsFor`, `Guards` and
`ProposedTo` are the filters of `README.md:58-64`.

### `KoraClient`

| In the model | In the code |
|---|---|
| `run` | the locals of each run of `main` with the call it stands at, and what became of the two transactions it sent |
| `ReadNonce`, `ReadBalance`, `Funded`, `Sign`, `Confirm` | the calls of `main`, in its order |
| `GiveUp` | any call may return an error, which ends the run; `confirm` gives up after 60 polls |
| `FundsLand`, `TransferLands`, `TransferErrs` | the network, at any later time: a run that gave up cannot take its transactions back |
| `TransferCarried` | the authorization is public, another relayer carries it at another fee |
| `Elsewhere` | other devices with the same key, guardians, depositors and the clock |
| `incarnation` | whether the wallet has been closed since the runs began |

A run pays a fresh address (`main` draws it), so a run is named by the address it
pays. The properties that speak of nonces hold until the wallet is closed: after
that the nonces start again, see `close_replay`. Two things the model shows that
are worth knowing. A run that failed or timed out may still pay, and a retry that
reads a newer nonce pays again, to a fresh address. And lamports sent to the state's
address before the account exists make every run fail, since the client reads an
account that does not deserialize. Transaction fees are no lamports of the model: Kora is
whole when it gains `TRANSACTION_FEE`, what it has spent outside. `Sign` adds the
lifetime to the chain's clock where the example reads the device's
(`kora_transfer_sol.rs:106`): a device whose clock is off signs for more or less
time. No property of the client speaks of when an authorization expires.

Definitions marked "Fault" are plausible wrong versions of the one that follows.
Nothing uses them: substituted for it, each makes a property fail, which shows
that the property depends on that code.

## What the runs check

Only `lost_owner` assumes fairness; the other runs check safety. `CHECK_DEADLOCK`
is off in them because the modelled clock and the modelled nonces end; the program
itself has no final state, anyone can always deposit. It is off in `lost_owner`
because a wallet without guardians whose key is lost really stays as it is.

| Run | Instance | Checks |
|---|---|---|
| `recovery` | owner, heir, two guardians, one relayer; nonces 0 to u64::MAX = 5, delay 2, window 1, clock 1 to 8; signatures for another program and another wallet, expiring halfway, guardians in both orders and twice; the account's bytes with keys of three bytes that share bytes, words of eight | `TypeOK`, `WalletWellFormed`, `ControlApproved`, `ProposalsKeepTheirTimelock`, `CancelVoidedOnlyByRestart`, `ImplementsRecovery`, `DevicesFindTheirWallets`, `OffsetsReadEveryField`, `RemovedKeysLeaveNoTrace` |
| `lost_owner` | an owner, the friend and another guardian; delay 2, window 1 | `FriendRecovers` |
| `funds` | owner, heir and one guardian in one slot, two relayers asking 0, 1 or 3, signed caps of 0, 2 and one that overflows u64::MAX = 16, vault rent 2, state rent 3, deposits of 2 and 3 to vault and state address, clock 1 and 2 | `VaultSpendsApproved`, `EventsAccountForVault`, `TransferKeepsVaultAlive`, `FeeNeverBlocksTransfer`, `EmptyVaultNeverBlocksClose`, `OwnerCanCancel`, `CloseLeavesNothing` |
| `audit` | owner and heir signing everything, two relayers, creation, closing and creation again, `Bundled`; nonces 0 to u64::MAX = 8, vault rent 2, state rent 3, refunds of 0 and 1, deposits of 2 | `NonceCountsApprovals`, `VaultSpendsApproved`, `CloseLeavesNothing` |
| `indexer` | owner, heir and guardians, all seven events | `IndexAgrees` |
| `watchful_owner` | as `recovery` with delay 4, watch period 1, delivery time 1, clock to 9, an empty vault among the states | `OwnerKeepsControl`, `DeadlinesCanBeMet` |
| `precompile` | keys, addresses, signatures and words of one byte; two keys, two programs; data with every combination of instruction indices, offsets and sizes off by one, counts 0 to 2, next to an honest pair; calls from another program | `AcceptedWasApproved`, `SignedPairPasses` |
| `instructions` | two wallets, a request of every kind, two relayers, every field rewritten with that of any other instruction, one after the other | `ApprovalBindsInstruction`, `AnyRelayerMaySend` |
| `kora_client` | two runs, Kora and another relayer, a device that makes, pays from, empties and closes the wallet, a depositor; clock to 2; the runs are symmetric | `PaidOnce`, `RelayerMadeWhole`, `ReserveKept` |
| `close_replay`, `rent_payer` | as `audit`, not bundled, rents of 1 | a statement of the documentation that fails |
| `emptied_by_refund` | as `funds` | a statement of the documentation that fails |

**Why the bounds are enough.** `recovery` reaches every situation the timelock
distinguishes: before, at and after each end of the window, with a proposal of
the same or another guardian, and nonces up to the last one, which `checked_add`
refuses. Delay 2 and window 1 give each of the three phases at least one second,
and the clock leaves room for a proposal to lapse, be replaced and be confirmed.
One wallet is enough because every account is derived from its wallet ID and
another wallet's signatures are among the requests. In `funds` the amounts are
chosen around the rents: vaults of 0, of exactly the minimum, and of one less
than a transfer needs; a fee asked below, at and above the cap; a cap whose sum
with the amount and the rent does not fit a u64. Time only has to pass an expiry
there; the window is `recovery`'s. In `lost_owner` nothing is cut off: `Recovery`
has no counter but the age, which stops at the first second past the window, so
TLC sees all its states for three keys. `audit` lets
nonce 0 pass in two incarnations; u64::MAX is no less than all the lamports there
are in it, and from nonce 3 on one action suffices to bring the nonce to its end,
where an unchecked sum would be 0 again. With `Bundled` it has some twenty times the states it
has without: those with an account below its rent on the way, and what they lead
to. `watchful_owner` uses the shortest delay that
allows a watch period and two deliveries of a second each, and a clock that lets
the guardians void two cancellations. In `precompile` one byte per field leaves
the most room for one field to be read as another; offsets and sizes are wrong by one, or point at
another instruction, which are the ways the fixed layout can fail by little.
`instructions` composes rewrites until no new instruction appears, so any mixture
of two instructions is met. The two runs of `kora_client` are the least that can race
for one nonce; the device has the requests that change what a run has read:
one that makes the state, one that empties the vault, one that closes the wallet.
The proofs show that three runs or more add nothing.

**Fairness.** `FriendRecovers`: a wallet held by a lost key comes to be held by one
that is not, if `Friend` guards it and still has its own key. Which key that is the
friend decides, unless a rival's proposal of a key somebody has is confirmed first.
A rival's proposal of the lost key may be confirmed in between, before and after the
rivals give up; then the wallet is still stranded and the friend goes on. It
assumes what the program cannot enforce and nothing it could. Time passes (weak
fairness of `Elapses`). The other guardians at some point give up, possibly with a
proposal pending (weak fairness of `GiveUp`): the code lets a guardian replace its
own proposal for ever
(`propose_rotation.rs:97`), so one that never stops keeps the slot, and without
this assumption the property is false. The friend proposes, and someone confirms,
in one of the windows in which that is possible (strong fairness of
`FriendProposes` and `Recovers`, since each window closes again and a missed one
is followed by another proposal). These are assumptions on people and relayers:
the program grants a turn to whoever asks and schedules nothing by itself.

`FeeNeverBlocksTransfer`, `EmptyVaultNeverBlocksClose`, `OwnerCanCancel` and
`DeadlinesCanBeMet` are statements about what is possible, in every state and for
every request. They speak of the guards `CanTransfer`, `CanClose` and `CanCancel`:
each action is its guard and an assignment to every variable, so that the guard
holds exactly where the action is enabled, and the provers, which cannot reason
about ENABLED, can reason about the guard. `OwnerCanCancel` needs a relayer that asks
for nothing, because a relayer that asks more than the vault has fails the
cancellation; and a nonce below u64::MAX.
`Solvent` leaves out relayers that would themselves fall below their
rent, which no program can prevent.

`VaultSpendsApproved` demands the signed destination receive all but
`max_relayer_fee`, except where that account is also the vault, the state account
or a relayer: it may then gain or lose lamports for another reason in the same
transaction. A close signed with `to` the state account itself, for instance,
sends the vault to the relayer with the rent. What leaves the vault is bounded
in every case.

`EventsAccountForVault` says what of this an indexer sees. The payout events carry
the amount and the refund as paid, and these are all the vault lost (the refund
alone, if the vault pays itself). `GuardiansSet`, `RotationProposed`, `KeyRotated`
and `RotationCancelled` carry no fee: an indexer cannot tell what their refund took,
only that it is within the cap of a live approval. A balance computed from events
alone is therefore too high by these refunds.

`ControlApproved` takes the key a wallet ID is the hash of for the owner of an account
that does not exist, as `verify_enclave_authorization` does. After a rotation and a
close that is the key the rotation moved away from: the program allows it, the
property endorses it, and `PROJECT.json` lists it among the hazards.

## What is proved

The proofs about the program are for any number of keys, guardian slots, accounts
and requests, any delay and window, any rents, and any set of signatures. Those
about bytes are for keys, addresses and words of any length and for any
transactions; those about the client for any number of runs.

| Theorem | Says |
|---|---|
| `TypeCorrect` | `Spec => []TypeOK` |
| `AlwaysWellFormed` | `Spec => []WalletWellFormed` |
| `ControlIsApproved` | `Spec => ControlApproved` |
| `TimelockIsKept` | `Spec => ProposalsKeepTheirTimelock` |
| `ControlRefines` | `Spec => ImplementsRecovery` |
| `CancelsAreHeld` | `Spec => CancelVoidedOnlyByRestart` |
| `SpendsAreApproved` | `Spec => VaultSpendsApproved` |
| `EventsAccount` | `Spec => EventsAccountForVault` |
| `TransfersKeepRent` | `Spec => TransferKeepsVaultAlive` |
| `ClosesLeaveNothing` | `Spec => CloseLeavesNothing` |
| `AlwaysRentExempt` | `Spec => []RentInv`: unless `Bundled`, every account starts each instruction empty or with its rent |
| `FeesNeverBlock` | `Spec => []FeeNeverBlocksTransfer` |
| `EmptyWalletsClose` | `Spec => []EmptyVaultNeverBlocksClose` |
| `CancelsAreNeverBlocked` | `Spec => []OwnerCanCancel` |
| `WatchingKeepsControl` | `WatchSpec => OwnerKeepsControl` |
| `WatchingIsPossible` | `WatchSpec => []DeadlinesCanBeMet` |
| `EventsTellTheState` | `IndexSpec => []IndexAgrees` |
| `OffsetsAreRight` | `Spec => []OffsetsReadEveryField` (`StateLayout`) |
| `FiltersAreExact` | `Spec => []DevicesFindTheirWallets` (`StateLayout`) |
| `KeyOffsetsShowNoTrace` | `Spec => []NoTraceAt(KeyOffsets)` (`StateLayout`) |
| `PreimageInjective` | no two requests, for any two programs, have the same bytes |
| `OnlyApprovedIsAccepted` | `Spec => []AcceptedWasApproved` (`Precompile`) |
| `SignedPairsPass` | `Spec => SignedPairPasses` (`Precompile`) |
| `RelayerChoosesNothingElse` | `Spec => []ApprovalBindsInstruction` (`Instructions`) |
| `EveryRelayerMaySend` | `Spec => []AnyRelayerMaySend` (`Instructions`) |
| `RunsPayOnce` | `ClientSpec => []PaidOnce` |
| `KoraIsWhole` | `ClientSpec => RelayerMadeWhole` |
| `ReserveIsKept` | `ClientSpec => ReserveKept` |
| `ReplayProtection` | `AuditSpec => []NonceCountsApprovals` |

**Argument.** The inductive invariant `IInv` is type correctness together with
`WellFormed` of the state account, which also says that an empty slot and a cleared
rotation are all zeros. Type correctness alone is not inductive: that
`proposed_by` names a guardian's slot, and that the key a proposal would install
is not the all-zero one, are needed to see that a confirmation leaves an account
that is not taken for a new one, and that the nonce is therefore never reset
while the account exists. One lemma per action shows that it preserves `IInv`;
the lemmas on `Opened`, `Advanced`, `Refund`, `Move` and `P256Guardian` are shared
by them. `P256Guardian` picks the least slot of a set of naturals, so its lemma
rests on the well-foundedness of `<` on the naturals.

The action properties follow from `IInv` and the action taken. For
`ControlApproved`, the signer of an `Authorized` step is the one the live
approval names, and the only unsigned change of key is `ConfirmRotation`, whose
guard is the window itself because the assumption on the clock keeps both
saturating sums exact. For `VaultSpendsApproved`, the two transfers are followed
balance by balance, aliases included; the same values give `EventsAccountForVault`,
whose second half, what no event reports, comes from the lemma on instructions that
only refund (`RefundSpends`). `CloseLeavesNothing` follows the same
balances through Anchor's drain of the state account; it is the order that matters, a
close that drained the state first would strand what it then pays to it.

What cannot be blocked rests on a second invariant, `RentInv`: every account starts
a transaction empty or with its rent. `IInv` alone lets the vault stand between 0
and the minimum, where the runtime would refuse even a cancellation that moves
nothing. With it a cancellation through a relayer that asks for nothing moves no
balance, so the runtime accepts what it accepted before; and a close of an empty
vault moves the state's rent to the relayer, which by `VaultRent <= StateRent` is
enough for a relayer that had nothing. `FeesNeverBlock` needs no invariant on balances:
the check against the cap leaves the vault its rent at every ask, a solvent
relayer has its own, and no other account's balance depends on the ask.

`ControlRefines` maps each action to one of
`Recovery`'s under `IInv`: an action that fills the account first and then acts on
it is one abstract step, since a new wallet has neither guardians nor a proposal.
A replaced proposal is the same guardian's or has lapsed, whichever slots its key
is in, because a slot determines its key. `NonceCountsApprovals` is strengthened by
the fact that `passed` is finite and holds only nonces below the current one, so
each new approval adds one element.

`WatchingKeepsControl` adds two invariants. `FlightInv`: a cancellation in flight was
signed when the owner last looked, for a nonce not above the wallet's, and still
lives. `FreshInv` bounds how far the owner's last look lies behind the pending
proposal, in three cases: nothing in flight, a cancellation for the current nonce,
a cancellation whose nonce is gone. In the worst case the look was one delivery
before the proposal, the next a watch period later, and its delivery one more;
their sum is below the delay, so the window is shut whenever the owner has yet to
act (`WindowStaysShut`). Where a cancellation cannot be answered any more, the
model lets no time pass. That this does not happen is `WatchingIsPossible`: by
`FlightInv` and `RentInv` what is in flight was voided, or is a live approval that
`CanCancel` accepts from a relayer that asks for nothing.

`EventsTellTheState` follows both sides of each instruction, the account and what the
events make of it. Inductive is that the indexer's record is well-typed and
describes the account (`Right`); `Before` names what it knows before the action's own
event, when `WalletCreated` has already been applied, so that creation is not a case
of its own in six proofs. A transaction has at most two events, so `Applied`, a
recursive function, is unrolled.

`OffsetsAreRight` is about windows on byte strings: a window on a concatenation is a
window on one part of it (`AtConcat`), a window on a window is a window (`AtAt`). The
guardian list is a fold over the slots; that the i-th slot starts at i times the slot
length holds for every number of slots because a least index where it failed would
have a predecessor where it held (`LeastElement`, `FlattenedSlots`). `FiltersAreExact` adds
that a tag byte and the key behind it are equal only if both are (`TaggedKey`), and
that cleared slots carry the tag of an empty one. For `KeyOffsetsShowNoTrace` tags are
no help, since a filter may leave them out: the bytes behind an empty slot's tag have to
be no key's, which `WellFormed` gives.

`PreimageInjective` takes the header apart field by field (`FieldSplit`), then the
action: its variant byte decides the layout, every field but a guardian list has
a fixed length, and a guardian's bytes are prefix-free (`GuardianPrefixFree`), so a
list of them splits in one way only. For `OnlyApprovedIsAccepted`, the invariant says
that every secp256r1 instruction already run was verified; the guards of
`load_secp256r1_payload` make the verified slices the very bytes the program reads
(`LoadedIsVerified`), the domain tag excludes other protocols, and injectivity gives
the approval. `SignedPairsPass` is the other direction: the bytes the SDK puts together,
seven offsets and three fields, parse to what they were made from (`HeaderFields`,
`SdkFields`), so the runtime verifies the pair (`PairIsVerified`) and the program accepts
it (`PairIsAccepted`). `RelayerChoosesNothingElse` needs no more than the shape of an instruction:
each part of it can be read back from the action its handler performs
(`OwnPerformed`) or is fixed by a constraint. `EveryRelayerMaySend` is the way back: what a
handler performs on the client's instruction is the approved action (`BuiltPerforms`).

The client's invariant `ClientInv` adds to `IInv` that a wallet that exists has used a
nonce (`NonceUsed`): no transaction ends with a wallet of nonce 0, which is why a run
that read "no state" cannot find one made at its own nonce. `FundsHeld` says that from the
balance read on, while the nonce stands where the run read it, the vault holds
what the run needs, counting its deposit in flight; `PaymentInv` ties what an
address received to the nonce its run signed for.

**Only model-checked.** `FriendRecovers`, a liveness property under fairness, which is
out of these provers' reach. `RemovedKeysLeaveNoTrace`, beyond the key offsets that
`KeyOffsetsShowNoTrace` proves: at any other offset it depends on the bytes, since the
end of one field and the start of the next may happen to spell a key. The run checks
it for the bytes it chose, which share some so that a key left behind would be
found; that 33 bytes of real keys coincide by accident is improbable, and not more.

## Where the documentation and the code disagree

1. `close_wallet.rs:50-52` says that after a close "the same signature can never
   pass again". It can: the nonce restarts at 0, so an unexpired signature of
   nonce 0 makes the wallet again and the later ones follow in order, the close
   included (`close_replay`). Expiry bounds the time in which this can happen.
   `NonceCountsApprovals` is what does hold: once per incarnation.
2. `close_wallet.rs:17-18` and `README.md:27` say that the rent goes back to the
   relayer that advanced it. It goes to the relayer of the closing transaction
   (`rent_payer`).
3. `README.md:31` says that only `sweep_vault` and `close_wallet` empty the vault.
   The refund of `set_guardians`, `propose_rotation` or `cancel_rotation` empties
   it too when it equals the balance (`emptied_by_refund`).

One comment says less than the code allows, and no run is about it:
`events.rs:60-61` says that the owner can cancel until `opens_at` and that from then
anyone can confirm. `cancel_rotation` has no time check: the owner can still cancel
after `opens_at`, as long as nobody has confirmed, and after the window too.
`CancelRotation` has the code's guards, and `OwnerCanCancel` holds at any time; only
the `funds` run, whose clock is short, does not reach a live cancellation that late.

## What is not modelled

- Transaction fees, blockhashes and compute limits: a fee is paid by the relayer
  outside the program and changes no account of the wallet.
- That a bundle as a whole is accepted: with `Bundled` the model leaves out the rent
  check at its end, and bundles the runtime would refuse there are among the behaviours.
- SHA-256, P-256 and PDA derivation: given functions, assumed free of collisions
  and forgeries where the models say so.
- Which error a refusal raises.
- `attested` is only ever reset; nothing sets it in this version.
- `TransferToken` exists in the encoding only, no instruction takes it.
- Borsh decoding of arguments: Anchor's, and a malformed one is a refusal.
- Kora's configuration (a third party's service), the vector generator but for
  `program_instruction`, and the tests: no state of the system, or none that the
  program relies on.

## Plan

What could be added to this project, the most valuable first:

1. Fairness in `WatchfulOwner`, in place of deadlines that hold the clock: an
   owner that keeps looking cancels every proposal in the end.
2. A bundle as a variable, with the rent check at its end, so that what cannot be blocked
   is also said of several instructions in one transaction.
