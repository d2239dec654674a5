------------------------- MODULE SmartWalletProofs -------------------------
(***************************************************************************)
(* The program's safety for every set of keys, accounts, requests and      *)
(* signatures, every guardian count, delay, window and rent.               *)
(***************************************************************************)
EXTENDS SmartWalletProperties, TLAPS, WellFoundedInduction

-----------------------------------------------------------------------------
(* Lemmas about the operators the instructions are built from. *)

\* A transfer within the payer's balance keeps every balance a natural number.
LEMMA MoveType ==
  ASSUME NEW l \in [Accounts -> Nat], NEW from \in Accounts, NEW to \in Accounts,
         NEW n \in Nat, l[from] >= n
  PROVE  Move(l, from, to, n) \in [Accounts -> Nat]
<1> DEFINE debited == [l EXCEPT ![from] = @ - n]
<1>1. debited \in [Accounts -> Nat]
  OBVIOUS
<1>2. Move(l, from, to, n) = [debited EXCEPT ![to] = @ + n]
  BY DEF Move
<1> HIDE DEF debited
<1> QED
  BY <1>1, <1>2

\* The two transfers out of the vault, when System accepts them.
LEMMA PaidType ==
  ASSUME NEW l \in [Accounts -> Nat], NEW to \in Accounts, NEW relayer \in Relayers,
         NEW amount, NEW refund \in Nat, CanPay(l, to, amount, refund)
  PROVE  Paid(l, to, amount, relayer, refund) \in [Accounts -> Nat]
<1> DEFINE paid == Move(l, Vault, to, amount)
<1>0. Vault \in Accounts /\ relayer \in Accounts
  BY DEF Accounts
<1>1. amount \in Nat /\ l[Vault] >= amount
  BY <1>0 DEF CanPay
<1>2. paid \in [Accounts -> Nat]
  BY <1>0, <1>1, MoveType
<1>3. paid[Vault] >= refund
  BY DEF CanPay
<1> HIDE DEF paid
<1>4. Move(paid, Vault, relayer, refund) \in [Accounts -> Nat]
  BY <1>0, <1>2, <1>3, MoveType
<1> QED
  BY <1>4 DEF Paid, paid

\* What the relayer is paid back is a natural number within both bounds.
LEMMA RefundBounds ==
  ASSUME NEW r \in Requests, NEW asked \in RelayerFees
  PROVE  /\ Refund(r, asked) \in Nat
         /\ Refund(r, asked) <= r.max_relayer_fee
         /\ Refund(r, asked) <= asked
<1>1. r.max_relayer_fee \in Nat
  BY RequestsAssumption, ParametersAssumption DEF Request
<1>2. asked \in Nat
  BY AccountsAssumption
<1> QED
  BY <1>1, <1>2 DEF Refund, Lesser

\* p256_guardian answers with a slot that names the key, and with the first.
LEMMA P256GuardianIsFirst ==
  ASSUME NEW w, NEW key, GuardianSlotsOf(w, key) # {}
  PROVE  /\ P256Guardian(w, key) \in GuardianSlotsOf(w, key)
         /\ \A j \in GuardianSlotsOf(w, key) : P256Guardian(w, key) <= j
<1> DEFINE T == GuardianSlotsOf(w, key)
<1>1. T \subseteq Nat
  BY ParametersAssumption DEF GuardianSlotsOf, Slots
<1>2. \E i \in T : \A j \in T : ~ (<<j, i>> \in OpToRel(<, Nat))
  BY <1>1, NatLessThanWellFounded, WFMin
<1>3. \E i \in T : \A j \in T : i <= j
  <2>1. PICK i \in T : \A j \in T : ~ (<<j, i>> \in OpToRel(<, Nat))
    BY <1>2
  <2>2. ASSUME NEW j \in T PROVE i <= j
    <3>1. ~ (j < i)
      BY <1>1, <2>1 DEF OpToRel
    <3> QED
      BY <1>1, <3>1
  <2> QED
    BY <2>2
<1> QED
  BY <1>3 DEF P256Guardian, First

\* What is stored for a guardian is a slot, and a P-256 guardian or all zeros unless
\* the guardian is a passkey.
LEMMA GuardianSlotFromType ==
  ASSUME NEW guardian \in Guardian
  PROVE  /\ GuardianSlotFrom(guardian) \in GuardianSlot
         /\ guardian.kind # "WebAuthn" =>
              \/ GuardianSlotFrom(guardian) = EMPTY_GUARDIAN
              \/ GuardianSlotFrom(guardian).kind = "P256"
  BY DEF Guardian, GuardianSlotFrom, GuardianSlot, EMPTY_GUARDIAN, AnyKey

LEMMA EmptyRotationType == EMPTY_ROTATION \in RotationSlot
  BY ParametersAssumption DEF EMPTY_ROTATION, RotationSlot, Slots, AnyKey

LEMMA ZeroedType == ZEROED \in WalletState
<1>1. [i \in Slots |-> EMPTY_GUARDIAN] \in [Slots -> GuardianSlot]
  BY DEF EMPTY_GUARDIAN, GuardianSlot, AnyKey
<1> QED
  BY <1>1, EmptyRotationType, ParametersAssumption DEF ZEROED, WalletState, AnyKey

LEMMA RequestType ==
  ASSUME NEW r \in Requests
  PROVE  /\ r.nonce \in 0 .. U64Max
         /\ r.max_relayer_fee \in Nat
         /\ r.action \in Action
  BY RequestsAssumption, ParametersAssumption DEF Request

LEMMA ActionType ==
  ASSUME NEW action \in Action
  PROVE  /\ action.kind = "TransferSol" => action.to \in Accounts /\ action.lamports \in Nat
         /\ action.kind \in {"SweepVault", "CloseWallet"} => action.to \in Accounts
         /\ action.kind = "SetGuardians" => action.guardians \in [Slots -> Guardian]
         /\ action.kind = "ProposeRotation" => action.new_key \in AnyKey
  BY ParametersAssumption DEF Action

\* checked_add keeps the sum from wrapping.
LEMMA AdvancedCounts ==
  ASSUME NEW w \in WalletState, NEW signer \in Keys, NEW r \in Requests,
         Authorized(w, signer, r)
  PROVE  /\ Opened(w, signer) \in WalletState
         /\ Opened(w, signer).nonce = r.nonce
         /\ r.nonce + 1 \in 0 .. U64Max
         /\ Advanced(w, signer) = [Opened(w, signer) EXCEPT !.nonce = @ + 1]
<1> DEFINE o == Opened(w, signer)
<1>1. o \in WalletState
  BY ZeroedType DEF Opened, WalletState, AnyKey
<1>2. o.nonce = r.nonce /\ r.nonce \in Nat /\ U64Max \in Nat /\ r.nonce + 1 <= U64Max
  BY RequestType, ParametersAssumption DEF Authorized, FitsU64
<1>3. U64Sum(o.nonce, 1) = o.nonce + 1
  BY <1>2 DEF U64Sum
<1> QED
  BY <1>1, <1>2, <1>3 DEF Advanced

\* An authorized wallet: a well-formed one, or the new one its key just filled,
\* with the next nonce and nothing else changed.
LEMMA AdvancedWallet ==
  ASSUME NEW w \in WalletState, w = ZEROED \/ WellFormed(w),
         NEW signer \in Keys, NEW r \in Requests, Authorized(w, signer, r)
  PROVE  /\ Opened(w, signer) \in WalletState
         /\ Advanced(w, signer) \in WalletState
         /\ WellFormed(Advanced(w, signer))
         /\ Advanced(w, signer).active_key = Opened(w, signer).active_key
         /\ Advanced(w, signer).guardians = Opened(w, signer).guardians
         /\ Advanced(w, signer).rotation = Opened(w, signer).rotation
         /\ Advanced(w, signer).nonce = r.nonce + 1
<1> DEFINE o == Opened(w, signer)
<1> DEFINE a == Advanced(w, signer)
<1>1. o \in WalletState
  BY AdvancedCounts
<1>2. o.nonce + 1 = r.nonce + 1 /\ r.nonce + 1 \in 0 .. U64Max
  BY AdvancedCounts
<1>3. a = [o EXCEPT !.nonce = @ + 1]
  BY AdvancedCounts
<1>4. a \in WalletState /\ a.nonce = r.nonce + 1
  BY <1>1, <1>2, <1>3 DEF WalletState
<1>5. a.active_key = o.active_key /\ a.guardians = o.guardians /\ a.rotation = o.rotation
  BY <1>1, <1>3 DEF WalletState
<1>6. WellFormed(o)
  <2>1. CASE IsNew(w)
    <3>1. o = [ZEROED EXCEPT !.active_key = signer]
      BY <2>1 DEF Opened
    <3> QED
      BY <3>1, KeysAssumption
      DEF WellFormed, ZEROED, IsNew, EMPTY_GUARDIAN, EMPTY_ROTATION
  <2>2. CASE ~IsNew(w)
    BY <2>2 DEF Opened, ZEROED, IsNew
  <2> QED
    BY <2>1, <2>2
<1>7. \A key : GuardianSlotsOf(a, key) = GuardianSlotsOf(o, key)
  BY <1>5 DEF GuardianSlotsOf
<1>8. WellFormed(a)
  BY <1>5, <1>6, <1>7 DEF WellFormed, IsNew, P256Guardian
<1> QED
  BY <1>1, <1>4, <1>5, <1>8

-----------------------------------------------------------------------------
(* The inductive invariant. *)

IInv == TypeOK /\ WalletWellFormed

\* A step that leaves the clock alone and a well-formed account, or none.
LEMMA WellFormedNext ==
  ASSUME UNCHANGED now, Exists' => WellFormed(wallet')
  PROVE  WalletWellFormed'
  BY DEF WalletWellFormed, WellFormed, Exists, IsNew, P256Guardian, First, GuardianSlotsOf

LEMMA InitIfNeededWallet ==
  ASSUME IInv
  PROVE  /\ InitIfNeeded \in WalletState
         /\ InitIfNeeded = ZEROED \/ WellFormed(InitIfNeeded)
  BY ZeroedType DEF IInv, TypeOK, WalletWellFormed, InitIfNeeded, Exists

LEMMA AfterInitType ==
  ASSUME IInv, NEW relayer \in Relayers, lamports[relayer] >= RentAdvance
  PROVE  AfterInit(relayer) \in [Accounts -> Nat]
<1>1. relayer \in Accounts /\ State \in Accounts
  BY DEF Accounts
<1>2. lamports \in [Accounts -> Nat]
  BY DEF IInv, TypeOK
<1>3. RentAdvance \in Nat
  BY <1>1, <1>2, ParametersAssumption DEF RentAdvance
<1> QED
  BY <1>1, <1>2, <1>3, MoveType DEF AfterInit

LEMMA EmitType ==
  ASSUME NEW w, NEW signer \in Keys, NEW event \in Event, Emit(w, signer, event)
  PROVE  emitted' \in Seq(Event)
<1>1. [type |-> "WalletCreated", key |-> signer] \in Event
  BY DEF Event
<1> QED
  BY <1>1 DEF Emit

LEMMA PayoutType ==
  ASSUME NEW type \in {"SolTransferred", "VaultSwept", "WalletClosed"},
         NEW r, r.action.to \in Accounts, NEW amount \in Nat, NEW refund \in Nat
  PROVE  Payout(type, r, amount, refund) \in Event
  BY DEF Payout, Event

\* A payout through VaultPays leaves typed balances.
LEMMA VaultPaysType ==
  ASSUME NEW l \in [Accounts -> Nat], NEW to \in Accounts, NEW relayer \in Relayers,
         NEW amount, NEW refund \in Nat, VaultPays(l, to, amount, relayer, refund)
  PROVE  amount \in Nat /\ lamports' \in [Accounts -> Nat]
<1>1. l[Vault] \in Nat
  BY DEF Accounts
<1> QED
  BY <1>1, PaidType DEF VaultPays, CanPay

LEMMA VaultRefundsType ==
  ASSUME NEW l \in [Accounts -> Nat], NEW relayer \in Relayers, NEW refund \in Nat,
         VaultRefunds(l, relayer, refund)
  PROVE  lamports' \in [Accounts -> Nat]
  BY MoveType DEF VaultRefunds, Accounts

LEMMA TransferSolInv ==
  ASSUME IInv, NEW signer \in Keys, NEW r \in Requests, NEW relayer \in Relayers,
         NEW asked \in RelayerFees, TransferSol(signer, r, relayer, asked)
  PROVE  IInv' /\ wallet' \in WalletState
<1> DEFINE w == InitIfNeeded
<1> DEFINE l == AfterInit(relayer)
<1> DEFINE refund == Refund(r, asked)
<1>1. w \in WalletState /\ (w = ZEROED \/ WellFormed(w)) /\ Authorized(w, signer, r)
  BY InitIfNeededWallet DEF TransferSol, CanTransfer, VaultPays
<1>2. wallet' \in WalletState /\ WellFormed(wallet')
  BY <1>1, AdvancedWallet DEF TransferSol, CanTransfer, VaultPays
<1>3. l \in [Accounts -> Nat] /\ refund \in Nat
  BY AfterInitType, RefundBounds DEF TransferSol, CanTransfer, VaultPays
<1>4. r.action.to \in Accounts
  BY RequestType, ActionType DEF TransferSol, CanTransfer, VaultPays
<1>5. r.action.lamports \in Nat /\ lamports' \in [Accounts -> Nat]
  BY <1>3, <1>4, VaultPaysType DEF TransferSol, CanTransfer, VaultPays
<1>6. emitted' \in Seq(Event)
  <2>1. Payout("SolTransferred", r, r.action.lamports, refund) \in Event
    BY <1>3, <1>4, <1>5, PayoutType
  <2> QED
    BY <2>1, EmitType DEF TransferSol, CanTransfer, VaultPays
<1>7. now' = now
  BY DEF TransferSol, CanTransfer, VaultPays
<1> QED
  BY <1>2, <1>5, <1>6, <1>7, WellFormedNext DEF IInv, TypeOK

LEMMA SweepVaultInv ==
  ASSUME IInv, NEW signer \in Keys, NEW r \in Requests, NEW relayer \in Relayers,
         NEW asked \in RelayerFees, SweepVault(signer, r, relayer, asked)
  PROVE  IInv' /\ wallet' \in WalletState
<1> DEFINE w == InitIfNeeded
<1> DEFINE l == AfterInit(relayer)
<1> DEFINE refund == Refund(r, asked)
<1> DEFINE amount == l[Vault] - refund
<1>1. w \in WalletState /\ (w = ZEROED \/ WellFormed(w)) /\ Authorized(w, signer, r)
  BY InitIfNeededWallet DEF SweepVault
<1>2. wallet' \in WalletState /\ WellFormed(wallet')
  BY <1>1, AdvancedWallet DEF SweepVault
<1>3. l \in [Accounts -> Nat] /\ refund \in Nat
  BY AfterInitType, RefundBounds DEF SweepVault
<1>4. r.action.to \in Accounts
  BY RequestType, ActionType DEF SweepVault
<1>5. amount \in Nat /\ lamports' \in [Accounts -> Nat]
  BY <1>3, <1>4, VaultPaysType DEF SweepVault
<1>6. emitted' \in Seq(Event)
  <2>1. Payout("VaultSwept", r, amount, refund) \in Event
    BY <1>3, <1>4, <1>5, PayoutType
  <2> QED
    BY <2>1, EmitType DEF SweepVault
<1>7. now' = now
  BY DEF SweepVault
<1> QED
  BY <1>2, <1>5, <1>6, <1>7, WellFormedNext DEF IInv, TypeOK

LEMMA SetGuardiansInv ==
  ASSUME IInv, NEW signer \in Keys, NEW r \in Requests, NEW relayer \in Relayers,
         NEW asked \in RelayerFees, SetGuardians(signer, r, relayer, asked)
  PROVE  IInv' /\ wallet' \in WalletState
<1> DEFINE w == InitIfNeeded
<1> DEFINE a == Advanced(w, signer)
<1> DEFINE guardians == r.action.guardians
<1> DEFINE stored == [i \in Slots |-> GuardianSlotFrom(guardians[i])]
<1>1. w \in WalletState /\ (w = ZEROED \/ WellFormed(w)) /\ Authorized(w, signer, r)
  BY InitIfNeededWallet DEF SetGuardians
<1>2. a \in WalletState /\ WellFormed(a)
  BY <1>1, AdvancedWallet
<1>3. guardians \in [Slots -> Guardian] /\ \A i \in Slots : guardians[i].kind # "WebAuthn"
  BY RequestType, ActionType DEF SetGuardians, RefusesWebAuthn
<1>4. /\ stored \in [Slots -> GuardianSlot]
      /\ \A i \in Slots : stored[i] = EMPTY_GUARDIAN \/ stored[i].kind = "P256"
  BY <1>3, GuardianSlotFromType
<1>5. wallet' = [a EXCEPT !.guardians = stored, !.rotation = EMPTY_ROTATION]
  BY DEF SetGuardians, WithGuardians
<1>6. /\ wallet' \in WalletState
      /\ wallet'.active_key = a.active_key
      /\ wallet'.guardians = stored
      /\ wallet'.rotation = EMPTY_ROTATION
  <2> HIDE DEF a, stored
  <2> QED
    BY <1>2, <1>4, <1>5, EmptyRotationType DEF WalletState
<1>7. WellFormed(wallet')
  <2> HIDE DEF a, stored
  <2> QED
    BY <1>2, <1>4, <1>6 DEF WellFormed, IsNew, EMPTY_ROTATION
<1>8. lamports' \in [Accounts -> Nat]
  BY AfterInitType, RefundBounds, VaultRefundsType DEF SetGuardians
<1>9. emitted' \in Seq(Event)
  <2>1. [type |-> "GuardiansSet", guardians |-> guardians] \in Event
    BY <1>3 DEF Event
  <2> QED
    BY <2>1, EmitType DEF SetGuardians
<1>10. now' = now
  BY DEF SetGuardians
<1> QED
  BY <1>6, <1>7, <1>8, <1>9, <1>10, WellFormedNext DEF IInv, TypeOK

\* The account as its active key, or a confirmed proposal, moves it.
LEMMA RotatedWallet ==
  ASSUME NEW w \in WalletState, WellFormed(w), NEW key \in AnyKey, key # ZeroKey
  PROVE  Rotated(w, key) \in WalletState /\ WellFormed(Rotated(w, key))
<1> DEFINE x == Rotated(w, key)
<1>1. x = [w EXCEPT !.active_key = key, !.attested = FALSE, !.rotation = EMPTY_ROTATION]
  BY DEF Rotated
<1>2. /\ x \in WalletState
      /\ x.active_key = key
      /\ x.guardians = w.guardians
      /\ x.rotation = EMPTY_ROTATION
  <2> HIDE DEF x
  <2> QED
    BY <1>1, EmptyRotationType DEF WalletState
<1>3. WellFormed(x)
  <2> HIDE DEF x
  <2> QED
    BY <1>2 DEF WellFormed, IsNew, EMPTY_ROTATION
<1> QED
  BY <1>2, <1>3

\* A guardian's proposal, written over whatever the slot held.
LEMMA ProposedWallet ==
  ASSUME TypeOK, NEW w \in WalletState, WellFormed(w),
         NEW signer \in Keys, GuardianSlotsOf(w, signer) # {},
         NEW key \in AnyKey, key # ZeroKey,
         NEW x, x = [w EXCEPT !.rotation =
                       [pending |-> TRUE, new_key |-> key, proposed_at |-> now,
                        proposed_by |-> P256Guardian(w, signer)]]
  PROVE  x \in WalletState /\ WellFormed(x)
<1> DEFINE slot == P256Guardian(w, signer)
<1> DEFINE pending == [pending |-> TRUE, new_key |-> key, proposed_at |-> now,
                       proposed_by |-> slot]
<1>1. slot \in Slots /\ w.guardians[slot].kind = "P256" /\ w.guardians[slot].key = signer
  BY P256GuardianIsFirst DEF GuardianSlotsOf
<1>2. now \in 0 .. I64Max /\ now \in Nat
  BY ParametersAssumption DEF TypeOK
<1> HIDE DEF slot
<1>3. pending \in RotationSlot
  BY <1>1, <1>2 DEF RotationSlot
<1>4. /\ pending.pending
      /\ pending.new_key = key
      /\ pending.proposed_at = now
      /\ pending.proposed_by = slot
  OBVIOUS
<1>5. x = [w EXCEPT !.rotation = pending]
  BY DEF slot
<1> HIDE DEF pending
<1>6. /\ x \in WalletState
      /\ x.active_key = w.active_key
      /\ x.guardians = w.guardians
      /\ x.rotation = pending
  BY <1>3, <1>5 DEF WalletState
<1>7. P256Guardian(x, signer) = slot
  <2>1. GuardianSlotsOf(x, signer) = GuardianSlotsOf(w, signer)
    BY <1>6 DEF GuardianSlotsOf
  <2> QED
    BY <2>1 DEF P256Guardian, slot
<1>8. WellFormed(x)
  BY <1>1, <1>2, <1>4, <1>6, <1>7 DEF WellFormed, IsNew
<1> QED
  BY <1>6, <1>8

LEMMA OpensAtType ==
  ASSUME NEW rotation, rotation.proposed_at \in Nat
  PROVE  OpensAt(rotation) \in Nat
  BY ParametersAssumption DEF OpensAt, SaturatingAdd

LEMMA ProposeRotationInv ==
  ASSUME IInv, NEW signer \in Keys, NEW r \in Requests, NEW relayer \in Relayers,
         NEW asked \in RelayerFees, ProposeRotation(signer, r, relayer, asked)
  PROVE  IInv' /\ wallet' \in WalletState
<1> DEFINE w == Advanced(wallet, signer)
<1> DEFINE key == r.action.new_key
<1>1. /\ wallet \in WalletState /\ WellFormed(wallet)
      /\ Authorized(wallet, signer, r) /\ wallet # NoAccount
      /\ key # ZeroKey /\ now' = now
  BY DEF IInv, TypeOK, WalletWellFormed, Exists, ProposeRotation
<1>2. w \in WalletState /\ WellFormed(w)
  BY <1>1, AdvancedWallet
<1>3. key \in AnyKey
  BY RequestType, ActionType DEF ProposeRotation
<1>4. lamports' \in [Accounts -> Nat]
  BY RefundBounds, VaultRefundsType DEF ProposeRotation, IInv, TypeOK
<1>5. CASE signer = wallet.active_key
  <2>1. Rotate(w, r)
    BY <1>5 DEF ProposeRotation
  <2>2. wallet' \in WalletState /\ WellFormed(wallet')
    BY <1>1, <1>2, <1>3, <2>1, RotatedWallet DEF Rotate
  <2>3. emitted' \in Seq(Event)
    <3> DEFINE event == KeyRotated(key, FALSE)
    <3>1. event \in Event
      BY <1>3 DEF KeyRotated, Event
    <3>2. emitted' = <<event>>
      BY <2>1 DEF Rotate
    <3> HIDE DEF event
    <3> QED
      BY <3>1, <3>2
  <2> QED
    BY <1>1, <1>4, <2>2, <2>3, WellFormedNext DEF IInv, TypeOK
<1>6. CASE signer # wallet.active_key
  <2> DEFINE pending == [pending |-> TRUE, new_key |-> key, proposed_at |-> now,
                         proposed_by |-> P256Guardian(w, signer)]
  <2>1. Propose(w, signer, r)
    BY <1>6 DEF ProposeRotation
  <2>2. wallet' = [w EXCEPT !.rotation = pending] /\ GuardianSlotsOf(w, signer) # {}
    BY <2>1 DEF Propose
  <2>3. wallet' \in WalletState /\ WellFormed(wallet')
    BY <1>1, <1>2, <1>3, <2>2, ProposedWallet DEF IInv
  <2>4. emitted' \in Seq(Event)
    <3> DEFINE event == [type |-> "RotationProposed", new_key |-> key,
                         guardian |-> signer, opens_at |-> OpensAt(pending)]
    <3>1. OpensAt(pending) \in Nat
      BY OpensAtType DEF IInv, TypeOK
    <3>2. event \in Event
      BY <1>3, <3>1 DEF Event
    <3>3. emitted' = <<event>>
      BY <2>1 DEF Propose
    <3> QED
      BY <3>2, <3>3
  <2> QED
    BY <1>1, <1>4, <2>3, <2>4, WellFormedNext DEF IInv, TypeOK
<1> QED
  BY <1>5, <1>6

LEMMA CancelRotationInv ==
  ASSUME IInv, NEW signer \in Keys, NEW r \in Requests, NEW relayer \in Relayers,
         NEW asked \in RelayerFees, CancelRotation(signer, r, relayer, asked)
  PROVE  IInv' /\ wallet' \in WalletState
<1> DEFINE w == Advanced(wallet, signer)
<1>1. /\ wallet \in WalletState /\ WellFormed(wallet)
      /\ Authorized(wallet, signer, r) /\ now' = now
  BY DEF IInv, TypeOK, WalletWellFormed, Exists, CancelRotation, CanCancel, Cancelled, VaultRefunds
<1>2. w \in WalletState /\ WellFormed(w)
  BY <1>1, AdvancedWallet
<1>3. wallet' = [w EXCEPT !.rotation = EMPTY_ROTATION]
  BY DEF CancelRotation, CanCancel, Cancelled, VaultRefunds
<1>4. /\ wallet' \in WalletState
      /\ wallet'.active_key = w.active_key
      /\ wallet'.guardians = w.guardians
      /\ wallet'.rotation = EMPTY_ROTATION
  <2> HIDE DEF w
  <2> QED
    BY <1>2, <1>3, EmptyRotationType DEF WalletState
<1>5. WellFormed(wallet')
  <2> HIDE DEF w
  <2> QED
    BY <1>2, <1>4 DEF WellFormed, IsNew, EMPTY_ROTATION
<1>6. lamports' \in [Accounts -> Nat]
  BY RefundBounds, VaultRefundsType DEF CancelRotation, CanCancel, Cancelled,
       VaultRefunds, IInv, TypeOK
<1>7. emitted' \in Seq(Event)
  <2>1. wallet.rotation.new_key \in AnyKey
    BY <1>1 DEF WalletState, RotationSlot
  <2>2. [type |-> "RotationCancelled", new_key |-> wallet.rotation.new_key] \in Event
    BY <2>1 DEF Event
  <2> QED
    BY <2>2 DEF CancelRotation, CanCancel, Cancelled, VaultRefunds
<1> QED
  BY <1>1, <1>4, <1>5, <1>6, <1>7, WellFormedNext DEF IInv, TypeOK

LEMMA ConfirmRotationInv ==
  ASSUME IInv, ConfirmRotation
  PROVE  IInv'
<1> DEFINE key == wallet.rotation.new_key
<1>1. /\ wallet \in WalletState /\ WellFormed(wallet)
      /\ wallet.rotation.pending /\ UNCHANGED <<lamports, now>>
  BY DEF IInv, TypeOK, WalletWellFormed, Exists, ConfirmRotation
<1>2. key \in AnyKey /\ key # ZeroKey
  BY <1>1 DEF WalletState, RotationSlot, WellFormed
<1>3. wallet' \in WalletState /\ WellFormed(wallet')
  BY <1>1, <1>2, RotatedWallet DEF ConfirmRotation
<1>4. emitted' \in Seq(Event)
  <2> DEFINE event == KeyRotated(key, TRUE)
  <2>1. event \in Event
    BY <1>2 DEF KeyRotated, Event
  <2>2. emitted' = <<event>>
    BY DEF ConfirmRotation
  <2> HIDE DEF event
  <2> QED
    BY <2>1, <2>2
<1> QED
  BY <1>1, <1>3, <1>4, WellFormedNext DEF IInv, TypeOK

LEMMA CloseWalletInv ==
  ASSUME IInv, NEW signer \in Keys, NEW r \in Requests, NEW relayer \in Relayers,
         NEW asked \in RelayerFees, CloseWallet(signer, r, relayer, asked)
  PROVE  IInv'
<1> DEFINE refund == CloseRefund(r, asked)
<1> DEFINE amount == lamports[Vault] - refund
<1> DEFINE paid == Paid(lamports, r.action.to, amount, relayer, refund)
<1>1. /\ wallet' = NoAccount /\ now' = now
      /\ CanPay(lamports, r.action.to, amount, refund)
      /\ lamports' = Move(paid, State, relayer, paid[State])
  BY DEF CloseWallet, CanClose, CloseAmount, Closed
<1>2. lamports \in [Accounts -> Nat]
  BY DEF IInv, TypeOK
<1>3. State \in Accounts /\ Vault \in Accounts /\ relayer \in Accounts
  BY DEF Accounts
<1>4. refund \in Nat
  BY <1>2, <1>3, RefundBounds DEF CloseRefund, Lesser
<1>5. r.action.to \in Accounts
  BY RequestType, ActionType DEF CloseWallet, CanClose, CloseAmount, Closed
<1>6. amount \in Nat
  BY <1>1, <1>2, <1>3 DEF CanPay
<1>7. paid \in [Accounts -> Nat]
  BY <1>1, <1>2, <1>4, <1>5, PaidType
<1>8. lamports' \in [Accounts -> Nat]
  <2> HIDE DEF paid
  <2> QED
    BY <1>1, <1>3, <1>7, MoveType
<1>9. emitted' \in Seq(Event)
  <2>1. Payout("WalletClosed", r, amount, refund) \in Event
    BY <1>4, <1>5, <1>6, PayoutType
  <2>2. emitted' = <<Payout("WalletClosed", r, amount, refund)>>
    BY DEF CloseWallet, CanClose, CloseAmount, Closed
  <2> QED
    BY <2>1, <2>2
<1> QED
  BY <1>1, <1>8, <1>9, WellFormedNext DEF IInv, TypeOK, Exists

LEMMA DepositInv ==
  ASSUME IInv, NEW party \in Parties, NEW to \in {Vault, State}, NEW n \in Deposits,
         Deposit(party, to, n)
  PROVE  IInv'
<1>1. lamports' \in [Accounts -> Nat]
  BY MoveType, AccountsAssumption DEF Deposit, IInv, TypeOK, Accounts
<1>2. emitted' \in Seq(Event) /\ UNCHANGED <<wallet, now>>
  BY DEF Deposit
<1> QED
  BY <1>1, <1>2, WellFormedNext DEF IInv, TypeOK, WalletWellFormed, Exists

LEMMA TickInv ==
  ASSUME IInv, Tick
  PROVE  IInv'
<1>1. now' \in 0 .. MaxTime /\ now \in Nat /\ now' = now + 1
  BY ParametersAssumption DEF Tick, IInv, TypeOK
<1>2. UNCHANGED <<wallet, lamports>> /\ emitted' = <<>>
  BY DEF Tick
<1>3. WalletWellFormed'
  <2>1. CASE wallet = NoAccount
    BY <1>2, <2>1 DEF WalletWellFormed, Exists
  <2>2. CASE wallet # NoAccount
    <3>1. wallet.rotation.pending => wallet.rotation.proposed_at \in Nat
      BY <2>2, ParametersAssumption DEF IInv, TypeOK, WalletState, RotationSlot
    <3>2. WellFormed(wallet)
      BY <2>2 DEF IInv, WalletWellFormed, Exists
    <3>3. wallet.rotation.pending => wallet.rotation.proposed_at <= now'
      BY <1>1, <3>1, <3>2 DEF WellFormed
    <3>4. WellFormed(wallet)'
      BY <1>2, <3>2, <3>3 DEF WellFormed, IsNew, P256Guardian, First, GuardianSlotsOf
    <3> QED
      BY <3>4 DEF WalletWellFormed
  <2> QED
    BY <2>1, <2>2
<1> QED
  BY <1>1, <1>2, <1>3 DEF IInv, TypeOK

LEMMA InitInv == Init => IInv
<1> SUFFICES ASSUME Init PROVE IInv
  OBVIOUS
<1>1. lamports \in [Accounts -> Nat]
  BY AccountsAssumption DEF Init, Accounts
<1>2. now \in 0 .. MaxTime
  BY ParametersAssumption DEF Init
<1> QED
  BY <1>1, <1>2 DEF Init, IInv, TypeOK, WalletWellFormed, Exists

LEMMA NextInv == IInv /\ [Next]_vars => IInv'
<1> SUFFICES ASSUME IInv, [Next]_vars PROVE IInv'
  OBVIOUS
<1>1. ASSUME NEW signer \in Keys, NEW r \in Requests, NEW relayer \in Relayers,
             NEW asked \in RelayerFees, Execute(signer, r, relayer, asked)
      PROVE  IInv'
  BY <1>1, TransferSolInv, SweepVaultInv, SetGuardiansInv, ProposeRotationInv,
     CancelRotationInv, CloseWalletInv DEF Execute
<1>2. CASE Unsigned
  BY <1>2, ConfirmRotationInv, DepositInv, TickInv DEF Unsigned
<1>3. CASE UNCHANGED vars
  BY <1>3, WellFormedNext DEF vars, IInv, TypeOK, WalletWellFormed, Exists
<1> QED
  BY <1>1, <1>2, <1>3 DEF Next

\* The inductive invariant holds in every reachable state.
THEOREM Inductive == Spec => []IInv
  BY InitInv, NextInv, PTL DEF Spec

\* Types: whatever signatures exist and in whatever order they arrive, the
\* nonce stays a u64 and no balance ever goes negative.
THEOREM TypeCorrect == Spec => []TypeOK
<1>1. IInv => TypeOK
  BY DEF IInv
<1> QED
  BY <1>1, Inductive, PTL

\* The state account never looks new again, an empty rotation slot holds no
\* key, and a pending proposal belongs to the first slot of a guardian the
\* wallet still names (state.rs, propose_rotation.rs, set_guardians.rs).
THEOREM AlwaysWellFormed == Spec => []WalletWellFormed
<1>1. IInv => WalletWellFormed
  BY DEF IInv
<1> QED
  BY <1>1, Inductive, PTL

-----------------------------------------------------------------------------
(* Every change of control is approved. *)

LEMMA AuthorizedNonce ==
  ASSUME IInv, NEW signer \in Keys, NEW r \in Requests,
         Authorized(InitIfNeeded, signer, r)
  PROVE  r.nonce = CurrentNonce
<1>1. CASE Exists
  BY <1>1 DEF IInv, WalletWellFormed, WellFormed, Authorized, InitIfNeeded, Opened,
              CurrentNonce, Exists
<1>2. CASE ~Exists
  <2>1. Opened(ZEROED, signer) = [ZEROED EXCEPT !.active_key = signer]
    BY DEF Opened, ZEROED, IsNew
  <2>2. Opened(ZEROED, signer).nonce = 0
    BY <2>1 DEF ZEROED
  <2> QED
    BY <1>2, <2>2 DEF Authorized, InitIfNeeded, CurrentNonce, Exists
<1> QED
  BY <1>1, <1>2

\* What the program accepts, somebody signed for this program, this wallet, its
\* current nonce and a second not yet come.
LEMMA SignerApproved ==
  ASSUME IInv, NEW signer \in Keys, NEW r \in Requests,
         Authorized(InitIfNeeded, signer, r)
  PROVE  \E q \in LiveApprovals({signer}) :
           q.action = r.action /\ q.max_relayer_fee = r.max_relayer_fee
<1>1. r.nonce = CurrentNonce
  BY AuthorizedNonce
<1>2. PICK s \in Signatures :
        [pubkey |-> signer, message |-> Preimage(ProgramId, r)]
          = [pubkey |-> s.key, message |-> Preimage(s.program, s.request)]
  BY DEF Authorized, SignedPayloads
<1>3. s.key = signer /\ Preimage(s.program, s.request) = Preimage(ProgramId, r)
  BY <1>2
<1>4. /\ s.program = ProgramId
      /\ s.request.wallet_id = r.wallet_id
      /\ s.request.nonce = r.nonce
      /\ s.request.expires_at = r.expires_at
      /\ s.request.max_relayer_fee = r.max_relayer_fee
      /\ s.request.action = r.action
  BY <1>3 DEF Preimage
<1>5. IsLive(s.request)
  BY <1>1, <1>4 DEF IsLive, Authorized
<1>6. s.request \in LiveApprovals({signer})
  BY <1>3, <1>4, <1>5 DEF LiveApprovals
<1> QED
  BY <1>4, <1>6

\* What passes require_active_key, the owner signed.
LEMMA OwnerApproved ==
  ASSUME IInv, NEW signer \in Keys, NEW r \in Requests,
         Authorized(InitIfNeeded, signer, r), RequireActiveKey(InitIfNeeded, signer),
         NEW kinds, r.action.kind \in kinds
  PROVE  \E q \in OwnerApprovals(kinds) :
           q.action = r.action /\ q.max_relayer_fee = r.max_relayer_fee
<1>1. signer \in OwnerKeys
  <2>1. CASE Exists
    BY <2>1 DEF IInv, WalletWellFormed, WellFormed, RequireActiveKey, InitIfNeeded,
                Opened, OwnerKeys, Exists
  <2>2. CASE ~Exists
    BY <2>2 DEF Authorized, InitIfNeeded, OwnerKeys, Exists, IsNew, ZEROED
  <2> QED
    BY <2>1, <2>2
<1>2. LiveApprovals({signer}) \subseteq LiveApprovals(OwnerKeys)
  BY <1>1 DEF LiveApprovals
<1> QED
  BY <1>2, SignerApproved DEF OwnerApprovals

\* The wallet an authorized instruction starts from: the account as it was, or
\* one that belongs to the key wallet_id is the hash of.
LEMMA AdvancedControl ==
  ASSUME IInv, NEW signer \in Keys, NEW r \in Requests,
         Authorized(InitIfNeeded, signer, r),
         NEW a, a = Advanced(InitIfNeeded, signer)
  PROVE  /\ a \in WalletState
         /\ Exists => /\ a.active_key = wallet.active_key
                      /\ a.guardians = wallet.guardians
                      /\ a.rotation = wallet.rotation
         /\ ~Exists => /\ a.active_key = signer
                       /\ Sha256[signer] = Id
                       /\ ~a.rotation.pending
<1> DEFINE w == InitIfNeeded
<1>1. /\ a \in WalletState
      /\ a.active_key = Opened(w, signer).active_key
      /\ a.guardians = Opened(w, signer).guardians
      /\ a.rotation = Opened(w, signer).rotation
  BY InitIfNeededWallet, AdvancedWallet
<1>2. CASE Exists
  <2>1. Opened(w, signer) = wallet
    BY <1>2 DEF IInv, WalletWellFormed, WellFormed, InitIfNeeded, Opened, Exists
  <2> QED
    BY <1>1, <1>2, <2>1
<1>3. CASE ~Exists
  <2>1. w = ZEROED /\ IsNew(w)
    BY <1>3 DEF InitIfNeeded, Exists, ZEROED, IsNew
  <2>2. Opened(w, signer) = [ZEROED EXCEPT !.active_key = signer]
    BY <2>1 DEF Opened
  <2>3. Opened(w, signer).active_key = signer /\ ~Opened(w, signer).rotation.pending
    BY <2>2 DEF ZEROED, EMPTY_ROTATION
  <2>4. Sha256[signer] = Id
    BY <2>1 DEF Authorized
  <2> QED
    BY <1>1, <1>3, <2>3, <2>4
<1> QED
  BY <1>2, <1>3

\* A reachable proposal is far from the end of time: no saturation.
LEMMA WindowOfPending ==
  ASSUME IInv, Exists, wallet.rotation.pending
  PROVE  LET t == wallet.rotation.proposed_at
         IN  /\ t \in Nat /\ now \in Nat
             /\ OpensAt(wallet.rotation) = t + ROTATION_DELAY
             /\ ClosesAt(wallet.rotation) = t + ROTATION_DELAY + ROTATION_WINDOW
<1> DEFINE t == wallet.rotation.proposed_at
<1>1. t \in Nat /\ now \in 0 .. MaxTime /\ t <= now
  BY ParametersAssumption
  DEF IInv, TypeOK, WalletWellFormed, WellFormed, Exists, WalletState, RotationSlot
<1>2. OpensAt(wallet.rotation) = t + ROTATION_DELAY
  BY <1>1, ParametersAssumption DEF OpensAt, SaturatingAdd
<1>3. ClosesAt(wallet.rotation) = t + ROTATION_DELAY + ROTATION_WINDOW
  BY <1>1, <1>2, ParametersAssumption DEF ClosesAt, SaturatingAdd
<1> QED
  BY <1>1, <1>2, <1>3, ParametersAssumption

\* What the two payments of an owner change of control: nothing, but the
\* creation of the wallet.
LEMMA PaymentControl ==
  ASSUME IInv, NEW signer \in Keys, NEW r \in Requests, NEW relayer \in Relayers,
         NEW asked \in RelayerFees,
         \/ TransferSol(signer, r, relayer, asked)
         \/ SweepVault(signer, r, relayer, asked)
  PROVE  ControlStepApproved /\ ProposalStepKeepsTimelock
<1>1. /\ Authorized(InitIfNeeded, signer, r) /\ RequireActiveKey(InitIfNeeded, signer)
      /\ wallet' = Advanced(InitIfNeeded, signer)
      /\ r.action.kind \in {"TransferSol", "SweepVault", "SetGuardians"}
  BY DEF TransferSol, CanTransfer, VaultPays, SweepVault
<1>2. OwnerApprovals({"TransferSol", "SweepVault", "SetGuardians"}) # {}
  BY <1>1, OwnerApproved
<1>3. Exists'
  BY <1>1, AdvancedControl, NoAccountAssumption DEF Exists
<1>4. Exists => /\ wallet'.active_key = wallet.active_key
                /\ wallet'.guardians = wallet.guardians
                /\ wallet'.rotation = wallet.rotation
  BY <1>1, AdvancedControl
<1>5. ~Exists => Sha256[wallet'.active_key] = Id
  BY <1>1, AdvancedControl
<1> QED
  BY <1>2, <1>3, <1>4, <1>5
  DEF ControlStepApproved, KeyChangeApproved, GuardiansChangeApproved,
      ProposalStepKeepsTimelock

LEMMA SetGuardiansControl ==
  ASSUME IInv, NEW signer \in Keys, NEW r \in Requests, NEW relayer \in Relayers,
         NEW asked \in RelayerFees, SetGuardians(signer, r, relayer, asked)
  PROVE  ControlStepApproved /\ ProposalStepKeepsTimelock
<1> DEFINE a == Advanced(InitIfNeeded, signer)
<1> DEFINE stored == [i \in Slots |-> GuardianSlotFrom(r.action.guardians[i])]
<1>1. /\ Authorized(InitIfNeeded, signer, r) /\ RequireActiveKey(InitIfNeeded, signer)
      /\ wallet' = [a EXCEPT !.guardians = stored, !.rotation = EMPTY_ROTATION]
      /\ r.action.kind = "SetGuardians"
  BY DEF SetGuardians, WithGuardians
<1>2. /\ a \in WalletState
      /\ Exists => a.active_key = wallet.active_key
      /\ ~Exists => Sha256[a.active_key] = Id
  BY <1>1, AdvancedControl
<1>3. OwnerApprovals({"TransferSol", "SweepVault", "SetGuardians"}) # {}
  BY <1>1, OwnerApproved
<1>4. \E q \in OwnerApprovals({"SetGuardians"}) : q.action = r.action
  BY <1>1, OwnerApproved
<1> HIDE DEF a, stored
<1>5. /\ wallet'.active_key = a.active_key
      /\ wallet'.guardians = stored
      /\ ~wallet'.rotation.pending
  BY <1>1, <1>2 DEF WalletState, EMPTY_ROTATION
<1>6. \E q \in OwnerApprovals({"SetGuardians"}) :
        wallet'.guardians = [i \in Slots |-> GuardianSlotFrom(q.action.guardians[i])]
  BY <1>4, <1>5 DEF stored
<1>7. Exists'
  BY SetGuardiansInv, NoAccountAssumption DEF Exists
<1> QED
  BY <1>2, <1>3, <1>5, <1>6, <1>7
  DEF ControlStepApproved, KeyChangeApproved, GuardiansChangeApproved,
      ProposalStepKeepsTimelock

LEMMA ProposeRotationControl ==
  ASSUME IInv, NEW signer \in Keys, NEW r \in Requests, NEW relayer \in Relayers,
         NEW asked \in RelayerFees, ProposeRotation(signer, r, relayer, asked)
  PROVE  ControlStepApproved /\ ProposalStepKeepsTimelock
<1> DEFINE a == Advanced(wallet, signer)
<1> DEFINE key == r.action.new_key
<1>1. /\ Exists /\ InitIfNeeded = wallet /\ Authorized(wallet, signer, r)
      /\ r.action.kind = "ProposeRotation"
  BY DEF ProposeRotation, Exists, InitIfNeeded
<1>2. /\ a \in WalletState
      /\ a.active_key = wallet.active_key
      /\ a.guardians = wallet.guardians
      /\ a.rotation = wallet.rotation
  BY <1>1, AdvancedControl
<1>3. CASE signer = wallet.active_key
  <2>1. wallet' = Rotated(a, key)
    BY <1>3 DEF ProposeRotation, Rotate
  <2>2. RequireActiveKey(wallet, signer)
    BY <1>1, <1>3 DEF IInv, WalletWellFormed, WellFormed, RequireActiveKey, Opened
  <2>3. \E q \in OwnerApprovals({"ProposeRotation"}) : q.action.new_key = key
    BY <1>1, <2>2, OwnerApproved
  <2> HIDE DEF a
  <2>4. /\ wallet'.active_key = key
        /\ wallet'.guardians = wallet.guardians
        /\ ~wallet'.rotation.pending
        /\ wallet' \in WalletState
    <3>1. key \in AnyKey
      BY <1>1, RequestType, ActionType
    <3> QED
      BY <1>2, <2>1, <3>1, EmptyRotationType DEF Rotated, WalletState, EMPTY_ROTATION
  <2>5. Exists'
    BY <2>4, NoAccountAssumption DEF Exists
  <2> QED
    BY <1>1, <2>3, <2>4, <2>5
    DEF ControlStepApproved, KeyChangeApproved, GuardiansChangeApproved,
        ProposalStepKeepsTimelock
<1>4. CASE signer # wallet.active_key
  <2> DEFINE slot == P256Guardian(a, signer)
  <2> DEFINE pending == [pending |-> TRUE, new_key |-> key, proposed_at |-> now,
                         proposed_by |-> slot]
  <2>1. /\ GuardianSlotsOf(a, signer) # {}
        /\ MayReplace(a, slot)
        /\ wallet' = [a EXCEPT !.rotation = pending]
    BY <1>4 DEF ProposeRotation, Propose
  <2>2. signer \in GuardianKeys
    BY <1>1, <1>2, <2>1 DEF GuardianKeys, GuardianSlotsOf
  <2>3. \E q \in GuardianProposals : q.action = r.action
    <3>1. LiveApprovals({signer}) \subseteq LiveApprovals(GuardianKeys)
      BY <2>2 DEF LiveApprovals
    <3> QED
      BY <1>1, <3>1, SignerApproved DEF GuardianProposals
  <2>4. wallet.rotation.pending =>
          \/ wallet.rotation.proposed_by = slot
          \/ now - wallet.rotation.proposed_at > ROTATION_DELAY + ROTATION_WINDOW
    <3>1. wallet.rotation.pending =>
            wallet.rotation.proposed_by = slot \/ now > ClosesAt(wallet.rotation)
      BY <1>2, <2>1 DEF MayReplace, IsExpired
    <3> QED
      BY <1>1, <3>1, WindowOfPending, ParametersAssumption
  <2> HIDE DEF a, slot
  <2>5. /\ wallet'.active_key = wallet.active_key
        /\ wallet'.guardians = wallet.guardians
        /\ wallet'.rotation = pending
    BY <1>2, <2>1 DEF WalletState
  <2>6. Exists'
    BY ProposeRotationInv, NoAccountAssumption DEF Exists
  <2> QED
    BY <1>1, <2>3, <2>4, <2>5, <2>6
    DEF ControlStepApproved, KeyChangeApproved, GuardiansChangeApproved,
        ProposalStepKeepsTimelock
<1> QED
  BY <1>3, <1>4

LEMMA CancelRotationControl ==
  ASSUME IInv, NEW signer \in Keys, NEW r \in Requests, NEW relayer \in Relayers,
         NEW asked \in RelayerFees, CancelRotation(signer, r, relayer, asked)
  PROVE  ControlStepApproved /\ ProposalStepKeepsTimelock
<1> DEFINE a == Advanced(wallet, signer)
<1>1. /\ Exists /\ InitIfNeeded = wallet /\ Authorized(wallet, signer, r)
      /\ wallet' = [a EXCEPT !.rotation = EMPTY_ROTATION]
  BY DEF CancelRotation, CanCancel, Cancelled, VaultRefunds, Exists, InitIfNeeded
<1>2. /\ a \in WalletState
      /\ a.active_key = wallet.active_key
      /\ a.guardians = wallet.guardians
  BY <1>1, AdvancedControl
<1> HIDE DEF a
<1>3. /\ wallet'.active_key = wallet.active_key
      /\ wallet'.guardians = wallet.guardians
      /\ ~wallet'.rotation.pending
      /\ wallet' \in WalletState
  BY <1>1, <1>2, EmptyRotationType DEF WalletState, EMPTY_ROTATION
<1>4. Exists'
  BY <1>3, NoAccountAssumption DEF Exists
<1> QED
  BY <1>1, <1>3, <1>4
  DEF ControlStepApproved, KeyChangeApproved, GuardiansChangeApproved,
      ProposalStepKeepsTimelock

LEMMA ConfirmRotationControl ==
  ASSUME IInv, ConfirmRotation
  PROVE  ControlStepApproved /\ ProposalStepKeepsTimelock
<1> DEFINE key == wallet.rotation.new_key
<1> DEFINE t == wallet.rotation.proposed_at
<1>1. /\ Exists /\ wallet \in WalletState /\ WellFormed(wallet)
      /\ wallet.rotation.pending
      /\ now >= OpensAt(wallet.rotation) /\ ~ (now > ClosesAt(wallet.rotation))
      /\ wallet' = Rotated(wallet, key)
  BY DEF ConfirmRotation, IsExpired, Exists, IInv, TypeOK, WalletWellFormed
<1>2. now - t \in ROTATION_DELAY .. ROTATION_DELAY + ROTATION_WINDOW
  BY <1>1, WindowOfPending, ParametersAssumption
<1>3. key \in AnyKey /\ key # ZeroKey
  BY <1>1 DEF WalletState, RotationSlot, WellFormed
<1>4. /\ wallet'.active_key = key
      /\ wallet'.guardians = wallet.guardians
      /\ ~wallet'.rotation.pending
      /\ wallet' \in WalletState
  BY <1>1, <1>3, EmptyRotationType DEF Rotated, WalletState, EMPTY_ROTATION
<1>5. Exists'
  BY <1>4, NoAccountAssumption DEF Exists
<1> QED
  BY <1>1, <1>2, <1>4, <1>5
  DEF ControlStepApproved, KeyChangeApproved, GuardiansChangeApproved,
      ProposalStepKeepsTimelock

LEMMA CloseWalletControl ==
  ASSUME IInv, NEW signer \in Keys, NEW r \in Requests, NEW relayer \in Relayers,
         NEW asked \in RelayerFees, CloseWallet(signer, r, relayer, asked)
  PROVE  ControlStepApproved /\ ProposalStepKeepsTimelock
<1>1. /\ Exists /\ InitIfNeeded = wallet /\ Authorized(wallet, signer, r)
      /\ RequireActiveKey(wallet, signer) /\ r.action.kind = "CloseWallet"
      /\ ~Exists'
  BY DEF CloseWallet, CanClose, CloseAmount, Closed, Exists, InitIfNeeded
<1>2. OwnerApprovals({"CloseWallet"}) # {}
  BY <1>1, OwnerApproved
<1> QED
  BY <1>1, <1>2 DEF ControlStepApproved, ProposalStepKeepsTimelock

LEMMA UnchangedControl ==
  ASSUME UNCHANGED wallet
  PROVE  ControlStepApproved /\ ProposalStepKeepsTimelock
  BY DEF ControlStepApproved, KeyChangeApproved, GuardiansChangeApproved,
         ProposalStepKeepsTimelock, Exists

LEMMA NextControl ==
  IInv /\ [Next]_vars => ControlStepApproved /\ ProposalStepKeepsTimelock
<1> SUFFICES ASSUME IInv, [Next]_vars
             PROVE  ControlStepApproved /\ ProposalStepKeepsTimelock
  OBVIOUS
<1>1. ASSUME NEW signer \in Keys, NEW r \in Requests, NEW relayer \in Relayers,
             NEW asked \in RelayerFees, Execute(signer, r, relayer, asked)
      PROVE  ControlStepApproved /\ ProposalStepKeepsTimelock
  BY <1>1, PaymentControl, SetGuardiansControl, ProposeRotationControl,
     CancelRotationControl, CloseWalletControl DEF Execute
<1>2. CASE Unsigned
  BY <1>2, ConfirmRotationControl, UnchangedControl DEF Unsigned, Deposit, Tick
<1>3. CASE UNCHANGED vars
  BY <1>3, UnchangedControl DEF vars
<1> QED
  BY <1>1, <1>2, <1>3 DEF Next

\* Control never moves without a live signature of the key that holds it or a
\* guardian's proposal inside its window, whatever anyone delivers in whatever
\* order (authorization.rs, propose_rotation.rs, confirm_rotation.rs).
THEOREM ControlIsApproved == Spec => ControlApproved
<1>1. IInv /\ [Next]_vars => [ControlStepApproved]_vars
  BY NextControl
<1> QED
  BY <1>1, Inductive, PTL DEF Spec, ControlApproved

\* No guardian displaces another's proposal before its window has passed, and
\* every proposal waits the whole delay from the second it was written
\* (propose_rotation.rs).
THEOREM TimelockIsKept == Spec => ProposalsKeepTheirTimelock
<1>1. IInv /\ [Next]_vars => [ProposalStepKeepsTimelock]_vars
  BY NextControl
<1> QED
  BY <1>1, Inductive, PTL DEF Spec, ProposalsKeepTheirTimelock

-----------------------------------------------------------------------------
(* What can take the nonce of a cancellation away. *)

\* The event a signed instruction emits is among the step's events.
LEMMA EmitReports ==
  ASSUME NEW w, NEW signer, NEW event, Emit(w, signer, event)
  PROVE  \E i \in DOMAIN emitted' : emitted'[i] = event
<1>1. CASE IsNew(w)
  <2>1. emitted' = <<[type |-> "WalletCreated", key |-> signer], event>>
    BY <1>1 DEF Emit
  <2>2. 2 \in DOMAIN emitted' /\ emitted'[2] = event
    BY <2>1
  <2> QED
    BY <2>2
<1>2. CASE ~IsNew(w)
  <2>1. 1 \in DOMAIN emitted' /\ emitted'[1] = event
    BY <1>2 DEF Emit
  <2> QED
    BY <2>1
<1> QED
  BY <1>1, <1>2

LEMMA PaymentVoids ==
  ASSUME IInv, NEW signer \in Keys, NEW r \in Requests, NEW relayer \in Relayers,
         NEW asked \in RelayerFees,
         \/ TransferSol(signer, r, relayer, asked)
         \/ SweepVault(signer, r, relayer, asked)
  PROVE  CancelStepVoidedByRestart
<1>1. /\ Authorized(InitIfNeeded, signer, r) /\ RequireActiveKey(InitIfNeeded, signer)
      /\ r.action.kind \in {"TransferSol", "SweepVault"}
  BY DEF TransferSol, CanTransfer, VaultPays, SweepVault
<1>2. PICK q \in OwnerApprovals({"TransferSol", "SweepVault"}) : q.action = r.action
  BY <1>1, OwnerApproved
<1>3. CASE TransferSol(signer, r, relayer, asked)
  <2>1. \E i \in DOMAIN emitted' :
          emitted'[i] = Payout("SolTransferred", r, r.action.lamports, Refund(r, asked))
    BY <1>3, EmitReports DEF TransferSol, CanTransfer, VaultPays
  <2>2. Reported(q)
    BY <1>2, <1>3, <2>1 DEF TransferSol, CanTransfer, VaultPays, Payout, Reported, EventTypes
  <2> QED
    BY <2>2 DEF CancelStepVoidedByRestart
<1>4. CASE SweepVault(signer, r, relayer, asked)
  <2> DEFINE amount == AfterInit(relayer)[Vault] - Refund(r, asked)
  <2>1. Emit(InitIfNeeded, signer, Payout("VaultSwept", r, amount, Refund(r, asked)))
    BY <1>4 DEF SweepVault
  <2> HIDE DEF amount
  <2>2. \E i \in DOMAIN emitted' :
          emitted'[i] = Payout("VaultSwept", r, amount, Refund(r, asked))
    BY <2>1, EmitReports
  <2>3. Reported(q)
    BY <1>2, <1>4, <2>2 DEF SweepVault, Payout, Reported, EventTypes
  <2> QED
    BY <2>3 DEF CancelStepVoidedByRestart
<1> QED
  BY <1>3, <1>4

LEMMA ProposeRotationVoids ==
  ASSUME IInv, NEW signer \in Keys, NEW r \in Requests, NEW relayer \in Relayers,
         NEW asked \in RelayerFees, ProposeRotation(signer, r, relayer, asked)
  PROVE  CancelStepVoidedByRestart
<1> DEFINE a == Advanced(wallet, signer)
<1> DEFINE key == r.action.new_key
<1>1. a \in WalletState /\ key \in AnyKey
  BY AdvancedControl, RequestType, ActionType DEF ProposeRotation, InitIfNeeded
<1>2. CASE signer = wallet.active_key
  <2>1. wallet' = Rotated(a, key)
    BY <1>2 DEF ProposeRotation, Rotate
  <2> HIDE DEF a, key
  <2>2. ~wallet'.rotation.pending
    BY <1>1, <2>1 DEF Rotated, WalletState, EMPTY_ROTATION
  <2> QED
    BY <2>2 DEF CancelStepVoidedByRestart
<1>3. CASE signer # wallet.active_key
  <2> DEFINE pending == [pending |-> TRUE, new_key |-> key, proposed_at |-> now,
                         proposed_by |-> P256Guardian(a, signer)]
  <2>1. wallet' = [a EXCEPT !.rotation = pending]
    BY <1>3 DEF ProposeRotation, Propose
  <2>2. pending.proposed_at = now
    OBVIOUS
  <2> HIDE DEF a, pending
  <2>3. wallet'.rotation.proposed_at = now
    BY <1>1, <2>1, <2>2 DEF WalletState
  <2> QED
    BY <2>3 DEF CancelStepVoidedByRestart
<1> QED
  BY <1>2, <1>3

\* No other step advances the nonce and leaves a proposal pending.
LEMMA OtherVoids ==
  ASSUME IInv, NEW signer \in Keys, NEW r \in Requests, NEW relayer \in Relayers,
         NEW asked \in RelayerFees,
         \/ SetGuardians(signer, r, relayer, asked)
         \/ CancelRotation(signer, r, relayer, asked)
         \/ CloseWallet(signer, r, relayer, asked)
  PROVE  CancelStepVoidedByRestart
<1> DEFINE a == Advanced(InitIfNeeded, signer)
<1>1. a \in WalletState
  BY AdvancedControl DEF SetGuardians, CancelRotation, CanCancel, Cancelled,
       VaultRefunds, CloseWallet, CanClose, CloseAmount, Closed, InitIfNeeded
<1>2. CASE SetGuardians(signer, r, relayer, asked)
  <2> DEFINE stored == [i \in Slots |-> GuardianSlotFrom(r.action.guardians[i])]
  <2>1. wallet' = [a EXCEPT !.guardians = stored, !.rotation = EMPTY_ROTATION]
    BY <1>2 DEF SetGuardians, WithGuardians
  <2> HIDE DEF a, stored
  <2>2. ~wallet'.rotation.pending
    BY <1>1, <2>1 DEF WalletState, EMPTY_ROTATION
  <2> QED
    BY <2>2 DEF CancelStepVoidedByRestart
<1>3. CASE CancelRotation(signer, r, relayer, asked)
  <2>1. wallet' = [a EXCEPT !.rotation = EMPTY_ROTATION]
    BY <1>3 DEF CancelRotation, CanCancel, Cancelled, VaultRefunds, InitIfNeeded
  <2> HIDE DEF a
  <2>2. ~wallet'.rotation.pending
    BY <1>1, <2>1 DEF WalletState, EMPTY_ROTATION
  <2> QED
    BY <2>2 DEF CancelStepVoidedByRestart
<1>4. CASE CloseWallet(signer, r, relayer, asked)
  BY <1>4 DEF CloseWallet, CanClose, CloseAmount, Closed, CancelStepVoidedByRestart, Exists
<1> QED
  BY <1>2, <1>3, <1>4

LEMMA NextVoids == IInv /\ [Next]_vars => CancelStepVoidedByRestart
<1> SUFFICES ASSUME IInv, [Next]_vars PROVE CancelStepVoidedByRestart
  OBVIOUS
<1>1. CASE ConfirmRotation
  <2>1. wallet \in WalletState /\ wallet.rotation.new_key \in AnyKey
    BY <1>1 DEF ConfirmRotation, IInv, TypeOK, WalletState, RotationSlot
  <2>2. ~wallet'.rotation.pending
    BY <1>1, <2>1 DEF ConfirmRotation, Rotated, WalletState, EMPTY_ROTATION
  <2> QED
    BY <2>2 DEF CancelStepVoidedByRestart
<1>2. CASE UNCHANGED wallet
  BY <1>2 DEF CancelStepVoidedByRestart
<1>3. ASSUME NEW signer \in Keys, NEW r \in Requests, NEW relayer \in Relayers,
             NEW asked \in RelayerFees, Execute(signer, r, relayer, asked)
      PROVE  CancelStepVoidedByRestart
  BY <1>3, PaymentVoids, ProposeRotationVoids, OtherVoids DEF Execute
<1> QED
  BY <1>1, <1>2, <1>3 DEF Next, Unsigned, Deposit, Tick, vars

\* Whatever a guardian signs, it cannot void the owner's cancellation and keep
\* its proposal's age (authorization.rs, propose_rotation.rs).
THEOREM CancelsAreHeld == Spec => CancelVoidedOnlyByRestart
<1>1. IInv /\ [Next]_vars => [CancelStepVoidedByRestart]_vars
  BY NextVoids
<1> QED
  BY <1>1, Inductive, PTL DEF Spec, CancelVoidedOnlyByRestart

-----------------------------------------------------------------------------
(* Every account stays rent-exempt or empty. *)

\* What the runtime's check at the end of each transaction amounts to over
\* many: the balances an instruction starts from, outside of a bundle.
RentInv == RentExempt(lamports, wallet)

\* Every signed instruction ends with the runtime's rent check.
LEMMA ExecuteRent ==
  ASSUME NEW signer, NEW r, NEW relayer, NEW asked, Execute(signer, r, relayer, asked)
  PROVE  RentInv'
<1>1. RentExempt(lamports', wallet')
  BY DEF Execute, TransferSol, CanTransfer, SweepVault, SetGuardians, ProposeRotation,
         CancelRotation, CanCancel, CloseWallet, CanClose
<1> QED
  BY <1>1 DEF RentInv, RentExempt, AtRent

\* Without a signature only a deposit moves lamports, and the account a
\* confirmation rotates is there before and after.
LEMMA UnsignedRent ==
  ASSUME IInv, RentInv, Unsigned \/ UNCHANGED vars
  PROVE  RentInv'
<1>1. CASE ConfirmRotation
  <2>1. wallet \in WalletState /\ wallet # NoAccount /\ wallet.rotation.new_key \in AnyKey
    BY <1>1 DEF ConfirmRotation, IInv, TypeOK, WalletState, RotationSlot
  <2>2. wallet' \in WalletState
    BY <1>1, <2>1, EmptyRotationType DEF ConfirmRotation, Rotated, WalletState
  <2> QED
    BY <1>1, <2>1, <2>2, NoAccountAssumption DEF ConfirmRotation, RentInv, RentExempt, AtRent
<1>2. CASE UNCHANGED <<wallet, lamports>>
  BY <1>2 DEF RentInv, RentExempt, AtRent
<1>3. ASSUME NEW party, NEW to, NEW n, Deposit(party, to, n)
      PROVE  RentInv'
  BY <1>3 DEF Deposit, RentInv, RentExempt, AtRent
<1> QED
  BY <1>1, <1>2, <1>3 DEF Unsigned, Tick, vars

\* No account is below its rent before the first transaction.
LEMMA InitRent == Init => RentInv
<1> SUFFICES ASSUME Init, ~Bundled, NEW a \in Accounts
             PROVE  lamports[a] = 0 \/ lamports[a] >= VaultRent
  BY DEF Init, RentInv, RentExempt, AtRent
<1>1. lamports[a] = IF a \in {Vault, State} THEN 0 ELSE Endowment[a]
  BY DEF Init
<1> QED
  BY <1>1, AccountsAssumption DEF Accounts

\* RentInv is inductive beside IInv.
LEMMA NextRent == IInv /\ RentInv /\ [Next]_vars => RentInv'
  BY ExecuteRent, UnsignedRent DEF Next

\* Which balances an instruction can meet (the runtime's rent check).
THEOREM AlwaysRentExempt == Spec => []RentInv
  BY InitRent, NextRent, Inductive, PTL DEF Spec
=============================================================================
