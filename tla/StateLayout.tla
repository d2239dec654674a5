---------------------------- MODULE StateLayout ----------------------------
(***************************************************************************)
(* The bytes of the state account, as borsh writes the struct and as a     *)
(* device reads them: at the offsets the encoding crate publishes, with    *)
(* the getProgramAccounts filters the README gives.  Offsets count from 0. *)
(***************************************************************************)
EXTENDS SmartWalletProperties, SequencesExt

CONSTANTS
  DISCRIMINATOR, WalletId, RpIdHashZero,    \* byte strings of fixed length
  KeyBytes,                                 \* the compressed form of each key
  U64ToLeBytes, I64ToLeBytes,               \* to_le_bytes of each integer
  StateBump, VaultBump                      \* a byte each

LOCAL Byte == 0 .. 255

WORD_LEN == 8
COMPRESSED_PUBKEY_LEN == Len(KeyBytes[ZeroKey])

ASSUME LayoutAssumption ==
  /\ {DISCRIMINATOR, WalletId, RpIdHashZero, KeyBytes[ZeroKey]} \subseteq Seq(Byte)
  /\ KeyBytes \in [AnyKey -> [1 .. COMPRESSED_PUBKEY_LEN -> Byte]]
  /\ \A k, l \in AnyKey : KeyBytes[k] = KeyBytes[l] => k = l
  /\ U64ToLeBytes \in [0 .. U64Max -> [1 .. WORD_LEN -> Byte]]
  /\ I64ToLeBytes \in [0 .. I64Max -> [1 .. WORD_LEN -> Byte]]
  /\ {StateBump, VaultBump} \subseteq Byte

-----------------------------------------------------------------------------
(* What the program writes. *)

GUARDIAN_KIND_NONE == 0
GUARDIAN_KIND_P256 == 1
GUARDIAN_KIND_WEBAUTHN == 2

KindByte(kind) ==
  CASE kind = "None" -> GUARDIAN_KIND_NONE
    [] kind = "P256" -> GUARDIAN_KIND_P256
    [] kind = "WebAuthn" -> GUARDIAN_KIND_WEBAUTHN

BoolByte(b) == IF b THEN 1 ELSE 0

\* Fault: an enum with a payload would end after the byte of an empty slot.
SlotBytesShrunk(slot) ==
  IF slot.kind = "None" THEN <<GUARDIAN_KIND_NONE>>
  ELSE <<KindByte(slot.kind)>> \o KeyBytes[slot.key] \o RpIdHashZero

\* v1 stores no passkey, so every rp_id_hash is zeros.
SlotBytes(slot) == <<KindByte(slot.kind)>> \o KeyBytes[slot.key] \o RpIdHashZero

\* Fault: two fields of the struct change places, the size stays.
RotationBytesReordered(rotation) ==
  <<BoolByte(rotation.pending)>> \o KeyBytes[rotation.new_key]
    \o <<rotation.proposed_by>> \o I64ToLeBytes[rotation.proposed_at]

RotationBytes(rotation) ==
  <<BoolByte(rotation.pending)>> \o KeyBytes[rotation.new_key]
    \o I64ToLeBytes[rotation.proposed_at] \o <<rotation.proposed_by>>

Data(w) ==
  DISCRIMINATOR \o WalletId \o KeyBytes[w.active_key]
    \o U64ToLeBytes[w.nonce] \o <<BoolByte(w.attested)>>
    \o FlattenSeq([i \in 1 .. MAX_GUARDIANS |-> SlotBytes(w.guardians[i - 1])])
    \o RotationBytes(w.rotation) \o <<StateBump, VaultBump>>

-----------------------------------------------------------------------------
(* Where a device looks. *)

WALLET_ID_OFFSET == Len(DISCRIMINATOR)
ACTIVE_KEY_OFFSET == WALLET_ID_OFFSET + Len(WalletId)
NONCE_OFFSET == ACTIVE_KEY_OFFSET + COMPRESSED_PUBKEY_LEN
ATTESTED_OFFSET == NONCE_OFFSET + WORD_LEN
GUARDIANS_OFFSET == ATTESTED_OFFSET + 1

GUARDIAN_SLOT_LEN == 1 + COMPRESSED_PUBKEY_LEN + Len(RpIdHashZero)
ROTATION_OFFSET == GUARDIANS_OFFSET + MAX_GUARDIANS * GUARDIAN_SLOT_LEN
ROTATION_NEW_KEY_OFFSET == ROTATION_OFFSET + 1
ROTATION_PROPOSED_AT_OFFSET == ROTATION_NEW_KEY_OFFSET + COMPRESSED_PUBKEY_LEN
ROTATION_PROPOSED_BY_OFFSET == ROTATION_PROPOSED_AT_OFFSET + WORD_LEN
STATE_BUMP_OFFSET == ROTATION_PROPOSED_BY_OFFSET + 1
VAULT_BUMP_OFFSET == STATE_BUMP_OFFSET + 1
STATE_LEN == VAULT_BUMP_OFFSET + 1

GuardianKindOffset(index) == GUARDIANS_OFFSET + index * GUARDIAN_SLOT_LEN
GuardianKeyOffset(index) == GuardianKindOffset(index) + 1
GuardianRpIdHashOffset(index) == GuardianKeyOffset(index) + COMPRESSED_PUBKEY_LEN

At(data, offset, len) == SubSeq(data, offset + 1, offset + len)

\* A getProgramAccounts filter.
Memcmp(data, offset, bytes) == At(data, offset, Len(bytes)) = bytes

SignsFor(data, key) == Memcmp(data, ACTIVE_KEY_OFFSET, KeyBytes[key])

Guards(data, key) ==
  \E i \in Slots : Memcmp(data, GuardianKindOffset(i), <<1>> \o KeyBytes[key])

ProposedTo(data, key) == Memcmp(data, ROTATION_OFFSET, <<1>> \o KeyBytes[key])

-----------------------------------------------------------------------------
(* What the layout promises. *)

\* A device that knows only its key finds, by size and one memcmp, exactly the
\* wallets it signs for, the wallets that name it as guardian, and those a
\* guardian proposes to move to it, whatever else the wallet holds (README,
\* "A device finds its wallets from its own key").
DevicesFindTheirWallets ==
  Exists =>
    LET data == Data(wallet)
    IN  /\ Len(data) = STATE_LEN
        /\ \A k \in Keys :
             /\ SignsFor(data, k) <=> wallet.active_key = k
             /\ Guards(data, k) <=> k \in GuardianKeys
             /\ ProposedTo(data, k) <=>
                  wallet.rotation.pending /\ wallet.rotation.new_key = k

\* Every field is read back from its offset, in every state the instructions
\* leave (state.rs: "both must describe this struct"; the compile-time check
\* compares the total size only).
OffsetsReadEveryField ==
  Exists =>
    LET data == Data(wallet)
        rotation == wallet.rotation
    IN  /\ Memcmp(data, WALLET_ID_OFFSET, WalletId)
        /\ Memcmp(data, ACTIVE_KEY_OFFSET, KeyBytes[wallet.active_key])
        /\ Memcmp(data, NONCE_OFFSET, U64ToLeBytes[wallet.nonce])
        /\ Memcmp(data, ATTESTED_OFFSET, <<BoolByte(wallet.attested)>>)
        /\ \A i \in Slots :
             /\ Memcmp(data, GuardianKindOffset(i), <<KindByte(wallet.guardians[i].kind)>>)
             /\ Memcmp(data, GuardianKeyOffset(i), KeyBytes[wallet.guardians[i].key])
             /\ Memcmp(data, GuardianRpIdHashOffset(i), RpIdHashZero)
        /\ Memcmp(data, ROTATION_OFFSET, <<BoolByte(rotation.pending)>>)
        /\ Memcmp(data, ROTATION_NEW_KEY_OFFSET, KeyBytes[rotation.new_key])
        /\ Memcmp(data, ROTATION_PROPOSED_AT_OFFSET, I64ToLeBytes[rotation.proposed_at])
        /\ Memcmp(data, ROTATION_PROPOSED_BY_OFFSET, <<rotation.proposed_by>>)
        /\ Memcmp(data, STATE_BUMP_OFFSET, <<StateBump>>)
        /\ Memcmp(data, VAULT_BUMP_OFFSET, <<VaultBump>>)

AnyOffset == 0 .. Len(Data(wallet)) - COMPRESSED_PUBKEY_LEN

KeyOffsets ==
  {ACTIVE_KEY_OFFSET, ROTATION_NEW_KEY_OFFSET} \union {GuardianKeyOffset(i) : i \in Slots}

\* Of these offsets, a filter finds only keys the wallet names.
NoTraceAt(offsets) ==
  Exists =>
    \A k \in Keys, offset \in offsets :
      Memcmp(Data(wallet), offset, KeyBytes[k]) =>
        \/ k = wallet.active_key
        \/ k \in GuardianKeys
        \/ wallet.rotation.pending /\ wallet.rotation.new_key = k

\* A key the wallet does not name any more is nowhere in its data: neither a
\* cancelled, replaced or confirmed proposal nor a dropped guardian nor a
\* replaced owner stays behind for a filter at any offset (state.rs, "a
\* removed key leaves no trace to match").
RemovedKeysLeaveNoTrace == NoTraceAt(AnyOffset)
=============================================================================
