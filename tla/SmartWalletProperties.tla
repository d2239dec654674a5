----------------------- MODULE SmartWalletProperties -----------------------
(***************************************************************************)
(* What the program promises about one wallet: who may change who controls *)
(* it, who may spend from its vault, and what nobody can block.            *)
(***************************************************************************)
EXTENDS SmartWallet

Exists == wallet # NoAccount

-----------------------------------------------------------------------------
(* The approvals that are live in a state. *)

CurrentNonce == IF Exists THEN wallet.nonce ELSE 0

\* Before its first action a wallet ID answers to the key it is the hash of.
OwnerKeys == IF Exists THEN {wallet.active_key} ELSE {k \in Keys : Sha256[k] = Id}

GuardianKeys ==
  IF Exists THEN {k \in Keys : GuardianSlotsOf(wallet, k) # {}} ELSE {}

IsLive(r) == r.wallet_id = Id /\ r.nonce = CurrentNonce /\ r.expires_at > now

LiveApprovals(keys) ==
  {s.request : s \in {t \in Signatures :
     t.key \in keys /\ t.program = ProgramId /\ IsLive(t.request)}}

OwnerApprovals(kinds) == {r \in LiveApprovals(OwnerKeys) : r.action.kind \in kinds}

GuardianProposals ==
  {r \in LiveApprovals(GuardianKeys) : r.action.kind = "ProposeRotation"}

-----------------------------------------------------------------------------
(* What a step reports. *)

Payouts == {"SolTransferred", "VaultSwept", "WalletClosed"}

\* The event of each action.
EventTypes(kind) ==
  CASE kind = "TransferSol" -> {"SolTransferred"}
    [] kind = "SweepVault" -> {"VaultSwept"}
    [] kind = "CloseWallet" -> {"WalletClosed"}
    [] kind = "SetGuardians" -> {"GuardiansSet"}
    [] kind = "ProposeRotation" -> {"RotationProposed", "KeyRotated"}
    [] kind = "CancelRotation" -> {"RotationCancelled"}

\* The step reports the action that `r` asks for.
Reported(r) ==
  \E i \in DOMAIN emitted' :
    LET e == emitted'[i]
    IN  /\ e.type \in EventTypes(r.action.kind)
        /\ e.type \in Payouts => e.to = r.action.to
        /\ e.type = "SolTransferred" => e.lamports = r.action.lamports

-----------------------------------------------------------------------------
(* Control. *)

\* The state account is never one the next action would fill again
\* (verify_enclave_authorization treats an all-zero key as "never used"), an
\* empty slot and a cleared rotation leave no key behind for a device to find,
\* and a pending one still belongs to a P-256 guardian the wallet names: the
\* first slot of its key, since p256_guardian never answers with another.
WellFormed(w) ==
  /\ ~IsNew(w)
  /\ \A i \in Slots : w.guardians[i] = EMPTY_GUARDIAN \/ w.guardians[i].kind = "P256"
  /\ ~w.rotation.pending => w.rotation = EMPTY_ROTATION
  /\ w.rotation.pending =>
       LET by == w.rotation.proposed_by
       IN  /\ w.rotation.new_key # ZeroKey
           /\ w.rotation.proposed_at <= now
           /\ w.guardians[by].kind = "P256"
           /\ w.guardians[by].key \in Keys
           /\ by = P256Guardian(w, w.guardians[by].key)

WalletWellFormed == Exists => WellFormed(wallet)

\* The active key moves only to a key its holder signed for at the current
\* nonce, or to a guardian's proposal at least ROTATION_DELAY and at most
\* ROTATION_DELAY + ROTATION_WINDOW seconds old.
KeyChangeApproved ==
  wallet'.active_key # wallet.active_key =>
    \/ \E r \in OwnerApprovals({"ProposeRotation"}) :
         r.action.new_key = wallet'.active_key
    \/ /\ wallet.rotation.pending
       /\ wallet.rotation.new_key = wallet'.active_key
       /\ now - wallet.rotation.proposed_at \in
            ROTATION_DELAY .. ROTATION_DELAY + ROTATION_WINDOW

\* The guardian list changes only to one the active key signed.
GuardiansChangeApproved ==
  wallet'.guardians # wallet.guardians =>
    \E r \in OwnerApprovals({"SetGuardians"}) :
      wallet'.guardians = [i \in Slots |-> GuardianSlotFrom(r.action.guardians[i])]

ControlStepApproved ==
  /\ Exists /\ Exists' => KeyChangeApproved /\ GuardiansChangeApproved
  /\ Exists /\ ~Exists' => OwnerApprovals({"CloseWallet"}) # {}
  /\ ~Exists /\ Exists' =>
       /\ Sha256[wallet'.active_key] = Id
       /\ OwnerApprovals({"TransferSol", "SweepVault", "SetGuardians"}) # {}

\* Nobody takes control without a signature that is still good: not a
\* guardian alone before its delay, not an old owner, not a replayed, expired
\* or foreign signature (authorization.rs, propose_rotation, confirm_rotation,
\* set_guardians, close_wallet).
ControlApproved == [][ControlStepApproved]_vars

ProposalStepKeepsTimelock ==
  Exists /\ Exists' /\ wallet'.rotation.pending /\ wallet'.rotation # wallet.rotation =>
    /\ wallet'.rotation.proposed_at = now
    /\ wallet.rotation.pending =>
         \/ wallet'.rotation.proposed_by = wallet.rotation.proposed_by
         \/ now - wallet.rotation.proposed_at > ROTATION_DELAY + ROTATION_WINDOW
    /\ \E r \in GuardianProposals : r.action.new_key = wallet'.rotation.new_key

\* A pending proposal is replaced only by its own guardian or once its window
\* has passed, and whatever replaces it waits the whole delay again
\* (propose_rotation's "never another's, unless that one ran out").
ProposalsKeepTheirTimelock == [][ProposalStepKeepsTimelock]_vars

CancelStepVoidedByRestart ==
  /\ Exists /\ Exists'
  /\ wallet.rotation.pending /\ wallet'.rotation.pending
  /\ wallet'.nonce # wallet.nonce
  => \/ wallet'.rotation.proposed_at = now
     \/ \E r \in OwnerApprovals({"TransferSol", "SweepVault"}) : Reported(r)

\* A cancellation signed for the current nonce loses its nonce, with the
\* proposal still pending, only to a payment of the owner's own or to a
\* proposal that makes its guardian wait the whole delay again: a guardian
\* cannot spend the nonces under the owner's cancellations and keep the age
\* of its proposal (verify_enclave_authorization counts one nonce for all,
\* propose_rotation sets proposed_at to now every time).
CancelVoidedOnlyByRestart == [][CancelStepVoidedByRestart]_vars

\* The owner can cancel whatever waits, out of an empty vault too, through a
\* relayer that asks for nothing (refund_relayer takes the lesser of the ask
\* and the cap, and a transfer of 0 never fails).
OwnerCanCancel ==
  Exists /\ wallet.rotation.pending /\ wallet.nonce < U64Max =>
    \A r \in OwnerApprovals({"CancelRotation"}) \intersect Requests, relayer \in Relayers :
      CanCancel(wallet.active_key, r, relayer, 0)

-----------------------------------------------------------------------------
(* Funds. *)

VaultDrop == lamports[Vault] - lamports'[Vault]

\* What a signed action lets out of the vault besides the refund.
Outlay(r) ==
  CASE r.action.kind = "TransferSol" -> r.action.lamports
    [] r.action.kind \in {"SweepVault", "CloseWallet"} -> lamports[Vault]
    [] OTHER -> 0

\* The signed destination, unless it also pays or receives for another reason.
PlainDestination(r) ==
  r.action.kind \in {"TransferSol", "SweepVault", "CloseWallet"}
    /\ r.action.to \in Accounts \ ({Vault, State} \union Relayers)

VaultStepApproved ==
  VaultDrop > 0 =>
    \E r \in LiveApprovals(OwnerKeys) \union GuardianProposals :
      /\ Reported(r)
      /\ VaultDrop <= Outlay(r) + r.max_relayer_fee
      /\ PlainDestination(r) =>
           VaultDrop - (lamports'[r.action.to] - lamports[r.action.to])
             <= r.max_relayer_fee

\* Lamports leave the vault only under a live signature, of the owner or of a
\* guardian's proposal, for the action the step reports: the signed amount to
\* the signed destination, and no more than max_relayer_fee elsewhere
\* (refund_relayer: "never more than the enclave signed").
VaultSpendsApproved == [][VaultStepApproved]_vars

\* What a payout event says left the vault: a payment to itself stays there.
PaidOut(e) == (IF e.to = Vault THEN 0 ELSE e.lamports) + e.relayer_fee

\* The signed actions that pay nobody but their relayer.
RefundOnly == {"SetGuardians", "ProposeRotation", "CancelRotation"}

RefundStepApproved ==
  \E r \in LiveApprovals(OwnerKeys) \union GuardianProposals :
    /\ r.action.kind \in RefundOnly
    /\ Reported(r)
    /\ VaultDrop <= r.max_relayer_fee

EventStepAccounts ==
  /\ \A i \in DOMAIN emitted' :
       emitted'[i].type \in Payouts => VaultDrop = PaidOut(emitted'[i])
  /\ VaultDrop > 0 =>
       (\E i \in DOMAIN emitted' : emitted'[i].type \in Payouts) \/ RefundStepApproved

\* What an indexer can and cannot know of the vault.  A payout event tells
\* exactly what left it: amount and refund as paid, not as asked (events.rs:
\* "What the vault paid the relayer back", "read as it executed").  The events
\* of set_guardians, propose_rotation and cancel_rotation carry no fee, so the
\* refund of those three is in no event: it is at most max_relayer_fee of a
\* live approval of the action the event reports.  Nothing leaves the vault in
\* a step with neither.
EventsAccountForVault == [][EventStepAccounts]_vars

TransferStepKeepsRent ==
  (\E i \in DOMAIN emitted' : emitted'[i].type = "SolTransferred")
    => lamports'[Vault] >= VaultRent

\* A transfer leaves the vault at its rent-exempt minimum or above, so the
\* runtime neither refuses it nor deletes the vault (transfer_sol: "emptying
\* it is sweep_vault's job").
TransferKeepsVaultAlive == [][TransferStepKeepsRent]_vars

CloseStepLeavesNothing ==
  Exists /\ ~Exists' =>
    /\ lamports'[State] = 0
    /\ \A i \in DOMAIN emitted' : emitted'[i].to # Vault => lamports'[Vault] = 0

\* A close leaves no lamports under the wallet's two addresses, except in a
\* vault that is itself the signed destination: what a close pays into the
\* state account still leaves with it (close_wallet empties the vault before
\* Anchor drains the state into the relayer).
CloseLeavesNothing == [][CloseStepLeavesNothing]_vars

\* A relayer that can afford to stay rent-exempt.
Solvent(relayer) == lamports[relayer] >= RentAdvance + VaultRent

\* Whether a transfer executes never depends on the refund the relayer asks
\* (transfer_sol: "whatever it asks, the transfer fits").
FeeNeverBlocksTransfer ==
  \A key \in Keys, r \in Requests, relayer \in {a \in Relayers : Solvent(a)} :
    (\E asked \in RelayerFees : CanTransfer(key, r, relayer, asked))
      => \A asked \in RelayerFees : CanTransfer(key, r, relayer, asked)

\* The owner of an emptied vault can always close, whatever the refund asked
\* (close_wallet: "an emptied vault can still close").
EmptyVaultNeverBlocksClose ==
  Exists /\ lamports[Vault] = 0 /\ wallet.nonce < U64Max =>
    \A r \in OwnerApprovals({"CloseWallet"}) \intersect Requests,
       relayer \in Relayers, asked \in RelayerFees :
         CanClose(wallet.active_key, r, relayer, asked)

\* Doc: "only sweep_vault and close_wallet empty it" (README, Instructions).
OnlySweepAndCloseEmptyTheVault ==
  [][lamports[Vault] > 0 /\ lamports'[Vault] = 0 =>
       \E i \in DOMAIN emitted' : emitted'[i].type \in {"VaultSwept", "WalletClosed"}
    ]_vars
=============================================================================
