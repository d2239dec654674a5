------------------------------ MODULE Encoding ------------------------------
(***************************************************************************)
(* The bytes an enclave signs: borsh of an Action behind a header of fixed *)
(* length.  Keys, addresses and IDs are byte strings already; a request is *)
(* the record SmartWallet takes, with the three guardian slots of the code *)
(* and TransferToken, which only the encoding knows.                       *)
(***************************************************************************)
EXTENDS Integers, Sequences

CONSTANTS
  DOMAIN_TAG,             \* protocol name and version
  COMPRESSED_PUBKEY_LEN, ADDRESS_LEN, WORD_LEN,
  U64, I64,               \* the values of the two integer types
  U64ToLeBytes, I64ToLeBytes    \* to_le_bytes of each

Byte == 0 .. 255
ByteString(n) == [1 .. n -> Byte]

ASSUME LengthsAssumption ==
  /\ {COMPRESSED_PUBKEY_LEN, ADDRESS_LEN, WORD_LEN} \subseteq Nat \ {0}
  /\ DOMAIN_TAG \in Seq(Byte)

\* An integer has WORD_LEN bytes, and no two integers have the same ones.
ToLeBytes(toBytes, values) ==
  /\ toBytes \in [values -> ByteString(WORD_LEN)]
  /\ \A v, w \in values : toBytes[v] = toBytes[w] => v = w

ASSUME WordsAssumption ==
  ToLeBytes(U64ToLeBytes, U64) /\ ToLeBytes(I64ToLeBytes, I64)

CompressedKey == ByteString(COMPRESSED_PUBKEY_LEN)
Address == ByteString(ADDRESS_LEN)

-----------------------------------------------------------------------------
(* Actions. *)

MAX_GUARDIANS == 3
Slots == 0 .. MAX_GUARDIANS - 1

Guardian ==
  [kind : {"None"}] \union [kind : {"P256", "WebAuthn"}, key : CompressedKey]

Action ==
       [kind : {"TransferSol"}, to : Address, lamports : U64]
  \union [kind : {"TransferToken"}, mint : Address, to : Address, amount : U64]
  \union [kind : {"ProposeRotation"}, new_key : CompressedKey]
  \union [kind : {"CancelRotation"}]
  \union [kind : {"SetGuardians"}, guardians : [Slots -> Guardian]]
  \union [kind : {"SweepVault", "CloseWallet"}, to : Address]

\* Fault: the key alone, as if a slot always held one.
SerializeGuardianUntagged(g) == IF g.kind = "None" THEN <<>> ELSE g.key

\* The index of an enum's variant, in one byte.
Variant(n) == <<n>>

\* A borsh enum is the index of its variant, then the variant's fields.
SerializeGuardian(g) ==
  CASE g.kind = "None" -> Variant(0)
    [] g.kind = "P256" -> Variant(1) \o g.key
    [] g.kind = "WebAuthn" -> Variant(2) \o g.key

\* A borsh array of fixed length is its elements.
SerializeGuardians(g) ==
  SerializeGuardian(g[0]) \o (SerializeGuardian(g[1]) \o SerializeGuardian(g[2]))

Serialize(a) ==
  CASE a.kind = "TransferSol" -> Variant(0) \o (a.to \o U64ToLeBytes[a.lamports])
    [] a.kind = "TransferToken" -> Variant(1) \o (a.mint \o (a.to \o U64ToLeBytes[a.amount]))
    [] a.kind = "ProposeRotation" -> Variant(2) \o a.new_key
    [] a.kind = "CancelRotation" -> Variant(3)
    [] a.kind = "SetGuardians" -> Variant(4) \o SerializeGuardians(a.guardians)
    [] a.kind = "SweepVault" -> Variant(5) \o a.to
    [] a.kind = "CloseWallet" -> Variant(6) \o a.to

-----------------------------------------------------------------------------
(* The preimage. *)

Request ==
  [wallet_id : Address, nonce : U64, expires_at : I64, max_relayer_fee : U64,
   action : Action]

\* Fault: the cap on the refund is not part of what is signed.
ToBytesUncapped(program_id, r) ==
  DOMAIN_TAG
    \o (program_id \o (r.wallet_id
    \o (U64ToLeBytes[r.nonce] \o (I64ToLeBytes[r.expires_at] \o Serialize(r.action)))))

\* Preimage::to_bytes.
ToBytes(program_id, r) ==
  DOMAIN_TAG
    \o (program_id \o (r.wallet_id
    \o (U64ToLeBytes[r.nonce] \o (I64ToLeBytes[r.expires_at]
    \o (U64ToLeBytes[r.max_relayer_fee] \o Serialize(r.action))))))
=============================================================================
