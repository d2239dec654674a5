---------------------------- MODULE SmartWallet ----------------------------
(***************************************************************************)
(* The EnclaveKit program as it acts on one wallet ID: the state account,  *)
(* the vault, and the seven instructions that change them.                 *)
(*                                                                         *)
(* A step is one transaction: the secp256r1 precompile instruction, then   *)
(* one program instruction. The runtime runs transactions on one wallet    *)
(* one at a time and rolls a failed one back, so a refused instruction is  *)
(* no step. If Bundled, a step is one such pair of a transaction that may  *)
(* hold more, and the runtime's check of the accounts at its end is left   *)
(* out: the behaviours are those of every bundle, and of some that would   *)
(* fail. Signed authorizations are public data: once an enclave has        *)
(* signed, anyone may deliver the signature at any time, in any order, any *)
(* number of times, next to any instruction arguments.                     *)
(***************************************************************************)
EXTENDS Integers, Sequences

CONSTANTS
  Keys,             \* the P-256 keys that can sign
  ZeroKey,          \* 33 zero bytes
  Id,               \* the wallet ID whose accounts are modelled
  Sha256,           \* the hash of each key, a wallet ID
  ProgramId,        \* this program's address
  Vault, State,     \* the wallet's two PDAs
  Relayers,         \* accounts that sign as relayer
  Parties,          \* any other lamport holder: payees, depositors
  NoAccount,        \* the state account does not exist
  MAX_GUARDIANS, ROTATION_DELAY, ROTATION_WINDOW,
  VaultRent,        \* rent-exempt minimum of an account without data
  StateRent,        \* rent-exempt minimum of the state account
  U64Max, I64Max,   \* u64::MAX and i64::MAX
  Requests,         \* the instruction arguments a transaction may carry
  Signatures,       \* what each enclave signs: [key, program, request]
  RelayerFees,      \* what a relayer may ask as its refund
  Deposits,         \* the amounts a party may send to the wallet's accounts
  Endowment,        \* the lamports each outside account starts with
  Bundled,          \* whether a transaction may hold further instructions
  MaxTime           \* bound of the modelled clock

VARIABLES
  wallet,           \* the state account, or NoAccount
  lamports,         \* the balance of every account
  now,              \* the Clock sysvar's unix_timestamp
  emitted           \* the events of the last transaction, in order

vars == <<wallet, lamports, now, emitted>>

ASSUME KeysAssumption ==
  /\ ZeroKey \notin Keys
  /\ \A k, l \in Keys : Sha256[k] = Sha256[l] => k = l

ASSUME ParametersAssumption ==
  /\ {MAX_GUARDIANS, ROTATION_DELAY, ROTATION_WINDOW} \subseteq Nat \ {0}
  /\ {VaultRent, StateRent} \subseteq Nat \ {0} /\ VaultRent <= StateRent
  /\ {U64Max, I64Max, MaxTime} \subseteq Nat \ {0}
  /\ MaxTime + ROTATION_DELAY + ROTATION_WINDOW <= I64Max
  /\ Bundled \in BOOLEAN

AnyKey == Keys \union {ZeroKey}
Slots == 0 .. MAX_GUARDIANS - 1
Accounts == {Vault, State} \union Relayers \union Parties

\* The PDAs are off the curve: neither can sign.
ASSUME AccountsAssumption ==
  /\ Vault # State
  /\ {Vault, State} \intersect (Relayers \union Parties) = {}
  /\ RelayerFees \union Deposits \subseteq Nat
  /\ \A a \in Relayers \union Parties :
       Endowment[a] \in Nat /\ (Endowment[a] = 0 \/ Endowment[a] >= VaultRent)

-----------------------------------------------------------------------------
(* The state account. *)

Guardian == [kind : {"None"}] \union [kind : {"P256", "WebAuthn"}, key : AnyKey]

GuardianSlot == [kind : {"None", "P256", "WebAuthn"}, key : AnyKey]

EMPTY_GUARDIAN == [kind |-> "None", key |-> ZeroKey]

GuardianSlotFrom(guardian) ==
  IF guardian.kind = "None" THEN EMPTY_GUARDIAN
  ELSE [kind |-> guardian.kind, key |-> guardian.key]

RotationSlot ==
  [pending : BOOLEAN, new_key : AnyKey, proposed_at : 0 .. I64Max, proposed_by : Slots]

EMPTY_ROTATION ==
  [pending |-> FALSE, new_key |-> ZeroKey, proposed_at |-> 0, proposed_by |-> 0]

SaturatingAdd(a, b) == IF a + b > I64Max THEN I64Max ELSE a + b

\* Fault: one second early.
OpensAtEarly(rotation) == SaturatingAdd(rotation.proposed_at, ROTATION_DELAY - 1)

OpensAt(rotation) == SaturatingAdd(rotation.proposed_at, ROTATION_DELAY)
ClosesAt(rotation) == SaturatingAdd(OpensAt(rotation), ROTATION_WINDOW)
IsExpired(rotation) == now > ClosesAt(rotation)

WalletState ==
  [active_key : AnyKey, nonce : 0 .. U64Max, attested : BOOLEAN,
   guardians : [Slots -> GuardianSlot], rotation : RotationSlot]

\* What init_if_needed leaves in a state account it just made.
ZEROED ==
  [active_key |-> ZeroKey, nonce |-> 0, attested |-> FALSE,
   guardians |-> [i \in Slots |-> EMPTY_GUARDIAN], rotation |-> EMPTY_ROTATION]

IsNew(w) == w.active_key = ZeroKey

ASSUME NoAccountAssumption == NoAccount \notin WalletState

\* Fault: a proposal survives the rotation it was meant to outrun.
RotatedUnderProposal(w, new_key) ==
  [w EXCEPT !.active_key = new_key, !.attested = FALSE]

\* Fault: the slot is only marked empty.
RotatedOverSlot(w, new_key) ==
  [w EXCEPT !.active_key = new_key, !.attested = FALSE, !.rotation.pending = FALSE]

Rotated(w, new_key) ==
  [w EXCEPT !.active_key = new_key, !.attested = FALSE, !.rotation = EMPTY_ROTATION]

\* Fault: a pending proposal survives the guardian behind it.
WithGuardiansUnderProposal(w, guardians) ==
  [w EXCEPT !.guardians = [i \in Slots |-> GuardianSlotFrom(guardians[i])]]

WithGuardians(w, guardians) ==
  [w EXCEPT !.guardians = [i \in Slots |-> GuardianSlotFrom(guardians[i])],
            !.rotation = EMPTY_ROTATION]

\* The slots that name `key` as a P-256 guardian; the program takes the first.
GuardianSlotsOf(w, key) ==
  {i \in Slots : w.guardians[i].kind = "P256" /\ w.guardians[i].key = key}

First(slots) == CHOOSE i \in slots : \A j \in slots : i <= j

P256Guardian(w, key) == First(GuardianSlotsOf(w, key))

\* Fault: an open proposal no longer holds the slot.
MayReplaceOnceOpen(w, slot) ==
  w.rotation.pending => w.rotation.proposed_by = slot \/ now >= OpensAt(w.rotation)

\* A guardian replaces its own proposal, or anyone's that ran out of its window.
MayReplace(w, slot) ==
  w.rotation.pending => w.rotation.proposed_by = slot \/ IsExpired(w.rotation)

-----------------------------------------------------------------------------
(* Requests, and what an enclave signs of them. *)

Action ==
       [kind : {"TransferSol"}, to : Accounts, lamports : 0 .. U64Max]
  \union [kind : {"SetGuardians"}, guardians : [Slots -> Guardian]]
  \union [kind : {"ProposeRotation"}, new_key : AnyKey]
  \union [kind : {"CancelRotation"}]
  \union [kind : {"SweepVault", "CloseWallet"}, to : Accounts]

Request ==
  [wallet_id : {Sha256[k] : k \in Keys} \union {Id}, nonce : 0 .. U64Max,
   expires_at : Int, max_relayer_fee : 0 .. U64Max, action : Action]

ASSUME RequestsAssumption == Requests \subseteq Request

\* The relayer, its fee and the accounts it picks are not part of it.
Preimage(program_id, r) ==
  [program_id |-> program_id, wallet_id |-> r.wallet_id, nonce |-> r.nonce,
   expires_at |-> r.expires_at, max_relayer_fee |-> r.max_relayer_fee,
   action |-> r.action]

\* The payloads a precompile instruction can carry past the runtime's check.
SignedPayloads ==
  {[pubkey |-> s.key, message |-> Preimage(s.program, s.request)] : s \in Signatures}

-----------------------------------------------------------------------------
(* Authorization. *)

\* The account of an instruction marked init_if_needed.
InitIfNeeded == IF wallet = NoAccount THEN ZEROED ELSE wallet

\* The wallet after its first action has filled a new account.
Opened(w, signer) == IF IsNew(w) THEN [ZEROED EXCEPT !.active_key = signer] ELSE w

\* A sum of two u64 as the processor leaves it.
U64Sum(a, b) == IF a + b > U64Max THEN a + b - (U64Max + 1) ELSE a + b

\* Fault: an unchecked add, which wraps.
FitsU64Unchecked(n) == TRUE

\* What checked_add lets pass.
FitsU64(n) == n <= U64Max

\* verify_enclave_authorization, and the seeds that bind the accounts to
\* the request's wallet_id.
Authorized(w, signer, r) ==
  /\ r.wallet_id = Id
  /\ IsNew(w) => Sha256[signer] = r.wallet_id
  /\ r.nonce = Opened(w, signer).nonce
  /\ r.expires_at > now
  /\ [pubkey |-> signer, message |-> Preimage(ProgramId, r)] \in SignedPayloads
  /\ FitsU64(r.nonce + 1)

\* Fault: the action that makes the wallet uses no nonce.
AdvancedOnceOpened(w, signer) ==
  IF IsNew(w) THEN Opened(w, signer) ELSE [w EXCEPT !.nonce = U64Sum(@, 1)]

Advanced(w, signer) == [Opened(w, signer) EXCEPT !.nonce = U64Sum(@, 1)]

RequireActiveKey(w, signer) == signer = Opened(w, signer).active_key

-----------------------------------------------------------------------------
(* Lamports. *)

Move(l, from, to, n) ==
  LET debited == [l EXCEPT ![from] = @ - n] IN [debited EXCEPT ![to] = @ + n]

Lesser(a, b) == IF a < b THEN a ELSE b

\* Fault: the relayer is paid what it asks.
RefundAsAsked(r, asked) == asked

\* Fault: the relayer is paid all the enclave allowed.
RefundOfCap(r, asked) == r.max_relayer_fee

Refund(r, asked) == Lesser(asked, r.max_relayer_fee)

\* Faults: the sum wraps, or leaves the refund out.
RequiredWrapped(r) ==
  (r.action.lamports + r.max_relayer_fee + VaultRent) % (U64Max + 1)
RequiredWithoutRefund(r) == r.action.lamports + VaultRent

\* What transfer_sol asks of the vault, whatever the relayer asks of it.
Required(r) == r.action.lamports + r.max_relayer_fee + VaultRent

\* The runtime fails a transaction that leaves an account between 0 and its
\* rent-exempt minimum; `w` is the state account the transaction leaves.
AtRent(l, w) ==
  \A a \in Accounts :
    \/ l[a] = 0
    \/ l[a] >= IF a = State /\ w # NoAccount THEN StateRent ELSE VaultRent

\* In a bundle a later instruction may still bring the account there.
RentExempt(l, w) == ~Bundled => AtRent(l, w)

\* init_if_needed: the relayer brings a new state account to its rent.
RentAdvance == IF wallet = NoAccount /\ lamports[State] < StateRent
               THEN StateRent - lamports[State] ELSE 0

AfterInit(relayer) == Move(lamports, relayer, State, RentAdvance)

\* Two transfers of u64 amounts out of the vault, each refused by System when
\* the vault is short.
Paid(l, to, amount, relayer, refund) ==
  Move(Move(l, Vault, to, amount), Vault, relayer, refund)

CanPay(l, to, amount, refund) ==
  /\ amount \in 0 .. l[Vault]
  /\ Move(l, Vault, to, amount)[Vault] >= refund

VaultPays(l, to, amount, relayer, refund) ==
  /\ CanPay(l, to, amount, refund)
  /\ lamports' = Paid(l, to, amount, relayer, refund)

VaultRefunds(l, relayer, refund) ==
  /\ l[Vault] >= refund
  /\ lamports' = Move(l, Vault, relayer, refund)

-----------------------------------------------------------------------------
(* Events. *)

Event ==
       [type : {"WalletCreated"}, key : Keys]
  \union [type : {"SolTransferred", "VaultSwept", "WalletClosed"},
          to : Accounts, lamports : Nat, relayer_fee : Nat]
  \union [type : {"GuardiansSet"}, guardians : [Slots -> {g \in Guardian : g.kind # "WebAuthn"}]]
  \union [type : {"RotationProposed"}, new_key : AnyKey, guardian : Keys, opens_at : Nat]
  \union [type : {"RotationCancelled"}, new_key : AnyKey]
  \union [type : {"KeyRotated"}, new_key : AnyKey, recovery : BOOLEAN]

\* Fault: the event names the cap, not what was paid.
PayoutOfCap(type, r, amount, refund) ==
  [type |-> type, to |-> r.action.to, lamports |-> amount,
   relayer_fee |-> r.max_relayer_fee]

Payout(type, r, amount, refund) ==
  [type |-> type, to |-> r.action.to, lamports |-> amount, relayer_fee |-> refund]

\* Fault: a recovery looks like the owner's own rotation.
KeyRotatedByOwner(new_key, recovery) ==
  [type |-> "KeyRotated", new_key |-> new_key, recovery |-> FALSE]

KeyRotated(new_key, recovery) ==
  [type |-> "KeyRotated", new_key |-> new_key, recovery |-> recovery]

\* A wallet's first action emits WalletCreated, then its own event.
Emit(w, signer, event) ==
  emitted' = IF IsNew(w)
             THEN <<[type |-> "WalletCreated", key |-> signer], event>>
             ELSE <<event>>

-----------------------------------------------------------------------------
(* Instructions that create the wallet on first use. *)

\* The handler's checks, System's, and the runtime's as the transaction ends.
CanTransfer(signer, r, relayer, asked) ==
  LET w == InitIfNeeded
      l == AfterInit(relayer)
      refund == Refund(r, asked)
  IN  /\ r.action.kind = "TransferSol"
      /\ Authorized(w, signer, r)
      /\ RequireActiveKey(w, signer)
      /\ lamports[relayer] >= RentAdvance
      /\ FitsU64(Required(r))
      /\ l[Vault] >= Required(r)
      /\ CanPay(l, r.action.to, r.action.lamports, refund)
      /\ RentExempt(Paid(l, r.action.to, r.action.lamports, relayer, refund),
                    Advanced(w, signer))

TransferSol(signer, r, relayer, asked) ==
  LET w == InitIfNeeded
      refund == Refund(r, asked)
  IN  /\ CanTransfer(signer, r, relayer, asked)
      /\ lamports' = Paid(AfterInit(relayer), r.action.to, r.action.lamports, relayer, refund)
      /\ wallet' = Advanced(w, signer)
      /\ Emit(w, signer, Payout("SolTransferred", r, r.action.lamports, refund))
      /\ UNCHANGED now

SweepVault(signer, r, relayer, asked) ==
  LET w == InitIfNeeded
      l == AfterInit(relayer)
      refund == Refund(r, asked)
      amount == l[Vault] - refund
  IN  /\ r.action.kind = "SweepVault"
      /\ Authorized(w, signer, r)
      /\ RequireActiveKey(w, signer)
      /\ lamports[relayer] >= RentAdvance
      /\ l[Vault] >= refund
      /\ VaultPays(l, r.action.to, amount, relayer, refund)
      /\ wallet' = Advanced(w, signer)
      /\ RentExempt(lamports', wallet')
      /\ Emit(w, signer, Payout("VaultSwept", r, amount, refund))
      /\ UNCHANGED now

\* Fault: a kind the program cannot serve yet is stored like any other.
RefusesNoGuardian(guardians) == TRUE

RefusesWebAuthn(guardians) == \A i \in Slots : guardians[i].kind # "WebAuthn"

SetGuardians(signer, r, relayer, asked) ==
  LET w == InitIfNeeded
      guardians == r.action.guardians
  IN  /\ r.action.kind = "SetGuardians"
      /\ Authorized(w, signer, r)
      /\ RequireActiveKey(w, signer)
      /\ RefusesWebAuthn(guardians)
      /\ lamports[relayer] >= RentAdvance
      /\ VaultRefunds(AfterInit(relayer), relayer, Refund(r, asked))
      /\ wallet' = WithGuardians(Advanced(w, signer), guardians)
      /\ RentExempt(lamports', wallet')
      /\ Emit(w, signer, [type |-> "GuardiansSet", guardians |-> guardians])
      /\ UNCHANGED now

-----------------------------------------------------------------------------
(* Instructions on a wallet that must already exist. *)

\* The active key moves the wallet at once.
Rotate(w, r) ==
  /\ wallet' = Rotated(w, r.action.new_key)
  /\ emitted' = <<KeyRotated(r.action.new_key, FALSE)>>

\* Fault: the guardian's own proposal, made again, keeps its age.
ProposeAgain(w, signer, r) ==
  LET slot == P256Guardian(w, signer)
      same == w.rotation.pending /\ w.rotation.new_key = r.action.new_key
      pending == [pending |-> TRUE, new_key |-> r.action.new_key,
                  proposed_at |-> IF same THEN w.rotation.proposed_at ELSE now,
                  proposed_by |-> slot]
  IN  /\ GuardianSlotsOf(w, signer) # {}
      /\ MayReplace(w, slot)
      /\ wallet' = [w EXCEPT !.rotation = pending]
      /\ emitted' = <<[type |-> "RotationProposed", new_key |-> r.action.new_key,
                       guardian |-> signer, opens_at |-> OpensAt(pending)]>>

\* A guardian starts, or restarts, the timelock.
Propose(w, signer, r) ==
  LET slot == P256Guardian(w, signer)
      pending == [pending |-> TRUE, new_key |-> r.action.new_key,
                  proposed_at |-> now, proposed_by |-> slot]
  IN  /\ GuardianSlotsOf(w, signer) # {}
      /\ MayReplace(w, slot)
      /\ wallet' = [w EXCEPT !.rotation = pending]
      /\ emitted' = <<[type |-> "RotationProposed", new_key |-> r.action.new_key,
                       guardian |-> signer, opens_at |-> OpensAt(pending)]>>

ProposeRotation(signer, r, relayer, asked) ==
  /\ r.action.kind = "ProposeRotation"
  /\ wallet # NoAccount
  /\ r.action.new_key # ZeroKey
  /\ Authorized(wallet, signer, r)
  /\ IF signer = wallet.active_key
     THEN Rotate(Advanced(wallet, signer), r)
     ELSE Propose(Advanced(wallet, signer), signer, r)
  /\ VaultRefunds(lamports, relayer, Refund(r, asked))
  /\ RentExempt(lamports', wallet')
  /\ UNCHANGED now

Cancelled(w, signer) == [Advanced(w, signer) EXCEPT !.rotation = EMPTY_ROTATION]

CanCancel(signer, r, relayer, asked) ==
  LET refund == Refund(r, asked)
  IN  /\ r.action.kind = "CancelRotation"
      /\ wallet # NoAccount
      /\ Authorized(wallet, signer, r)
      /\ RequireActiveKey(wallet, signer)
      /\ wallet.rotation.pending
      /\ lamports[Vault] >= refund
      /\ RentExempt(Move(lamports, Vault, relayer, refund), Cancelled(wallet, signer))

CancelRotation(signer, r, relayer, asked) ==
  /\ CanCancel(signer, r, relayer, asked)
  /\ wallet' = Cancelled(wallet, signer)
  /\ lamports' = Move(lamports, Vault, relayer, Refund(r, asked))
  /\ emitted' = <<[type |-> "RotationCancelled", new_key |-> wallet.rotation.new_key]>>
  /\ UNCHANGED now

\* The one instruction nobody signs for: no nonce, no refund.
ConfirmRotation ==
  /\ wallet # NoAccount
  /\ wallet.rotation.pending
  /\ now >= OpensAt(wallet.rotation)
  /\ ~IsExpired(wallet.rotation)
  /\ wallet' = Rotated(wallet, wallet.rotation.new_key)
  /\ emitted' = <<KeyRotated(wallet.rotation.new_key, TRUE)>>
  /\ UNCHANGED <<lamports, now>>

\* Fault: the refund is not capped by the balance, as in any other action.
CloseRefundUncapped(r, asked) == Refund(r, asked)

CloseRefund(r, asked) == Lesser(Refund(r, asked), lamports[Vault])

CloseAmount(r, asked) == lamports[Vault] - CloseRefund(r, asked)

\* Fault: the state account is drained before the vault.
ClosedStateFirst(r, relayer, asked) ==
  Paid(Move(lamports, State, relayer, lamports[State]),
       r.action.to, CloseAmount(r, asked), relayer, CloseRefund(r, asked))

\* The handler empties the vault, then Anchor's `close` hands the state's
\* lamports to the relayer as the handler returns.
Closed(r, relayer, asked) ==
  LET paid == Paid(lamports, r.action.to, CloseAmount(r, asked), relayer, CloseRefund(r, asked))
  IN  Move(paid, State, relayer, paid[State])

CanClose(signer, r, relayer, asked) ==
  /\ r.action.kind = "CloseWallet"
  /\ wallet # NoAccount
  /\ Authorized(wallet, signer, r)
  /\ RequireActiveKey(wallet, signer)
  /\ CanPay(lamports, r.action.to, CloseAmount(r, asked), CloseRefund(r, asked))
  /\ RentExempt(Closed(r, relayer, asked), NoAccount)

CloseWallet(signer, r, relayer, asked) ==
  /\ CanClose(signer, r, relayer, asked)
  /\ wallet' = NoAccount
  /\ lamports' = Closed(r, relayer, asked)
  /\ emitted' = <<Payout("WalletClosed", r, CloseAmount(r, asked), CloseRefund(r, asked))>>
  /\ UNCHANGED now

-----------------------------------------------------------------------------
(* The world around the program. *)

\* Anyone may send lamports to the vault, or to the state's address.
Deposit(party, to, n) ==
  /\ lamports[party] >= n
  /\ lamports' = Move(lamports, party, to, n)
  /\ RentExempt(lamports', wallet)
  /\ emitted' = <<>>
  /\ UNCHANGED <<wallet, now>>

Tick ==
  /\ now < MaxTime
  /\ now' = now + 1
  /\ emitted' = <<>>
  /\ UNCHANGED <<wallet, lamports>>

Init ==
  /\ wallet = NoAccount
  /\ lamports = [a \in Accounts |-> IF a \in {Vault, State} THEN 0 ELSE Endowment[a]]
  /\ now = 1
  /\ emitted = <<>>

\* One authorized instruction, whichever it is.
Execute(signer, r, relayer, asked) ==
  \/ TransferSol(signer, r, relayer, asked)
  \/ SweepVault(signer, r, relayer, asked)
  \/ SetGuardians(signer, r, relayer, asked)
  \/ ProposeRotation(signer, r, relayer, asked)
  \/ CancelRotation(signer, r, relayer, asked)
  \/ CloseWallet(signer, r, relayer, asked)

Unsigned ==
  \/ ConfirmRotation
  \/ \E party \in Parties, to \in {Vault, State}, n \in Deposits : Deposit(party, to, n)
  \/ Tick

Next ==
  \/ \E signer \in Keys, r \in Requests, relayer \in Relayers, asked \in RelayerFees :
       Execute(signer, r, relayer, asked)
  \/ Unsigned

Spec == Init /\ [][Next]_vars

\* Every variable keeps its type: the nonce stays a u64, no balance goes
\* negative, and no event announces a WebAuthn guardian, though a request may
\* ask for one (set_guardians refuses it, as the program cannot check its
\* signatures yet).
TypeOK ==
  /\ wallet \in WalletState \union {NoAccount}
  /\ lamports \in [Accounts -> Nat]
  /\ now \in 0 .. MaxTime
  /\ emitted \in Seq(Event)
=============================================================================
