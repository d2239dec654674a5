----------------------------- MODULE Precompile -----------------------------
(***************************************************************************)
(* How a transaction carries an enclave's signature.  The runtime checks   *)
(* the secp256r1 instruction over bytes that its own offsets point at,     *)
(* anywhere in the transaction; the program reads fixed positions of the   *)
(* instruction before its own.  Only the guards of load_secp256r1_payload  *)
(* make these the same bytes.                                              *)
(*                                                                         *)
(* A transaction is any sequence of instructions; a step runs one.  An     *)
(* instruction of another program may call this one, any number of times:  *)
(* the Instructions sysvar then still answers for the outer instruction.   *)
(***************************************************************************)
EXTENDS Encoding

CONSTANTS
  SECP256R1_PROGRAM_ID, ProgramId,
  P256_SIGNATURE_LEN,
  Approvals,      \* what enclaves approve: [key, program_id, request]
  Verifying,      \* what P-256 verifies: [pubkey, signature, message]
  Transactions    \* the transactions anyone may submit

VARIABLES
  tx,             \* the instructions of the transaction being run
  at,             \* the position of the next one
  accepted        \* the authorizations the program accepted in it

vars == <<tx, at, accepted>>

\* `calls` are the authorized requests the program is run with in it: one in
\* an instruction of its own, any in one of another program.
Instruction ==
  [program : Address, accounts : Nat, data : Seq(Byte), calls : SUBSET Request]

HasDomainTag(message) ==
  /\ Len(message) >= Len(DOMAIN_TAG)
  /\ SubSeq(message, 1, Len(DOMAIN_TAG)) = DOMAIN_TAG

\* An enclave key signs what its owner approved and, for other protocols,
\* messages that do not begin with the domain tag.
ASSUME UnforgeableAssumption ==
  \A s \in Verifying :
    \/ \E a \in Approvals :
         s.pubkey = a.key /\ s.message = ToBytes(a.program_id, a.request)
    \/ ~HasDomainTag(s.message)

ASSUME TransactionsAssumption ==
  /\ P256_SIGNATURE_LEN \in Nat \ {0}
  /\ ProgramId \in Address /\ ProgramId # SECP256R1_PROGRAM_ID
  /\ Verifying \subseteq [pubkey : CompressedKey, signature : ByteString(P256_SIGNATURE_LEN),
                          message : Seq(Byte)]
  /\ Approvals \subseteq [key : CompressedKey, program_id : Address, request : Request]
  /\ Transactions \subseteq Seq(Instruction)

-----------------------------------------------------------------------------
(* Positions in the data count from 0, as in the code. *)

At(data, offset) == data[offset + 1]

Slice(data, offset, n) == SubSeq(data, offset + 1, offset + n)

From(data, offset) == SubSeq(data, offset + 1, Len(data))

U16FromLeBytes(data, offset) == At(data, offset) + 256 * At(data, offset + 1)

PRECOMPILE_OFFSETS_START == 2
PRECOMPILE_OFFSETS_LEN == 14
PRECOMPILE_CURRENT_INSTRUCTION == 65535
SECP256R1_PUBKEY_OFFSET == PRECOMPILE_OFFSETS_START + PRECOMPILE_OFFSETS_LEN
SECP256R1_SIGNATURE_OFFSET == SECP256R1_PUBKEY_OFFSET + COMPRESSED_PUBKEY_LEN
SECP256R1_MESSAGE_OFFSET == SECP256R1_SIGNATURE_OFFSET + P256_SIGNATURE_LEN

\* SignatureOffsets::parse, for the signature whose seven fields begin at `start`.
Parse(data, start) ==
  LET field(i) == U16FromLeBytes(data, start + 2 * i)
  IN  [signature_offset |-> field(0), signature_instruction_index |-> field(1),
       public_key_offset |-> field(2), public_key_instruction_index |-> field(3),
       message_data_offset |-> field(4), message_data_size |-> field(5),
       message_instruction_index |-> field(6)]

-----------------------------------------------------------------------------
(* The runtime. *)

HasSlice(t, i, index, offset, n) ==
  /\ index = PRECOMPILE_CURRENT_INSTRUCTION \/ index < Len(t)
  /\ offset + n <= Len(IF index = PRECOMPILE_CURRENT_INSTRUCTION
                       THEN t[i].data ELSE t[index + 1].data)

\* The bytes an offset points at: in this instruction or in any other.
GetDataSlice(t, i, index, offset, n) ==
  Slice(IF index = PRECOMPILE_CURRENT_INSTRUCTION THEN t[i].data ELSE t[index + 1].data,
        offset, n)

SignatureVerifies(t, i, o) ==
  /\ HasSlice(t, i, o.signature_instruction_index, o.signature_offset, P256_SIGNATURE_LEN)
  /\ HasSlice(t, i, o.public_key_instruction_index, o.public_key_offset, COMPRESSED_PUBKEY_LEN)
  /\ HasSlice(t, i, o.message_instruction_index, o.message_data_offset, o.message_data_size)
  /\ [pubkey |-> GetDataSlice(t, i, o.public_key_instruction_index,
                              o.public_key_offset, COMPRESSED_PUBKEY_LEN),
      signature |-> GetDataSlice(t, i, o.signature_instruction_index,
                                 o.signature_offset, P256_SIGNATURE_LEN),
      message |-> GetDataSlice(t, i, o.message_instruction_index,
                               o.message_data_offset, o.message_data_size)]
       \in Verifying

\* The secp256r1 instruction at position i.  With a count of 0 there is
\* nothing to verify: the program does not rely on the runtime refusing it.
Verified(t, i) ==
  LET data == t[i].data
      count == At(data, 0)
  IN  /\ Len(data) >= PRECOMPILE_OFFSETS_START
      /\ PRECOMPILE_OFFSETS_START + count * PRECOMPILE_OFFSETS_LEN <= Len(data)
      /\ \A j \in 0 .. count - 1 :
           SignatureVerifies(t, i,
             Parse(data, PRECOMPILE_OFFSETS_START + j * PRECOMPILE_OFFSETS_LEN))

-----------------------------------------------------------------------------
(* The program: load_secp256r1_payload. *)

\* Fault: the message may come from another instruction.
FixedLayoutAnyMessage(o) ==
  /\ o.signature_offset = SECP256R1_SIGNATURE_OFFSET
  /\ o.public_key_offset = SECP256R1_PUBKEY_OFFSET
  /\ o.message_data_offset = SECP256R1_MESSAGE_OFFSET
  /\ {o.signature_instruction_index, o.public_key_instruction_index}
       = {PRECOMPILE_CURRENT_INSTRUCTION}

FixedLayout(o) ==
  /\ o.signature_offset = SECP256R1_SIGNATURE_OFFSET
  /\ o.public_key_offset = SECP256R1_PUBKEY_OFFSET
  /\ o.message_data_offset = SECP256R1_MESSAGE_OFFSET
  /\ {o.signature_instruction_index, o.public_key_instruction_index,
      o.message_instruction_index} = {PRECOMPILE_CURRENT_INSTRUCTION}

\* Fault: the size is taken for the position of the last byte.
MessageEndsDataLate(data, o) ==
  SECP256R1_MESSAGE_OFFSET + o.message_data_size + 1 = Len(data)

MessageEndsData(data, o) == SECP256R1_MESSAGE_OFFSET + o.message_data_size = Len(data)

\* The instruction before position i, which get_instruction_relative(-1) loads.
LoadsPayload(t, i) ==
  /\ i > 1
  /\ t[i - 1].program = SECP256R1_PROGRAM_ID
  /\ t[i - 1].accounts = 0
  /\ LET data == t[i - 1].data
         offsets == Parse(data, PRECOMPILE_OFFSETS_START)
     IN  /\ Len(data) >= SECP256R1_MESSAGE_OFFSET
         /\ At(data, 0) = 1
         /\ FixedLayout(offsets)
         /\ MessageEndsData(data, offsets)

SignedPayload(t, i) ==
  [pubkey |-> Slice(t[i - 1].data, SECP256R1_PUBKEY_OFFSET, COMPRESSED_PUBKEY_LEN),
   message |-> From(t[i - 1].data, SECP256R1_MESSAGE_OFFSET)]

\* What verify_enclave_authorization asks of the payload, whatever the wallet
\* holds: the message is the preimage rebuilt from the arguments.
Accepts(t, i, request) ==
  LoadsPayload(t, i) /\ SignedPayload(t, i).message = ToBytes(ProgramId, request)

-----------------------------------------------------------------------------
(* A transaction. *)

Runs(t, i) ==
  IF t[i].program = SECP256R1_PROGRAM_ID
  THEN Verified(t, i)
  ELSE \A request \in t[i].calls : Accepts(t, i, request)

Accepted(t, i) ==
  IF t[i].program = SECP256R1_PROGRAM_ID THEN {}
  ELSE {[key |-> SignedPayload(t, i).pubkey, request |-> r] : r \in t[i].calls}

Submit ==
  /\ tx = <<>>
  /\ tx' \in Transactions
  /\ UNCHANGED <<at, accepted>>

Run ==
  /\ at <= Len(tx)
  /\ Runs(tx, at)
  /\ accepted' = accepted \union Accepted(tx, at)
  /\ at' = at + 1
  /\ UNCHANGED tx

Ended == tx' = <<>> /\ at' = 1 /\ accepted' = {}

\* One refused instruction undoes the transaction.
Fail ==
  /\ at <= Len(tx)
  /\ ~Runs(tx, at)
  /\ Ended

Commit ==
  /\ tx # <<>>
  /\ at > Len(tx)
  /\ Ended

Init == tx = <<>> /\ at = 1 /\ accepted = {}

Next == Submit \/ Run \/ Fail \/ Commit

Spec == Init /\ [][Next]_vars

TypeOK ==
  /\ tx \in Seq(Instruction)
  /\ at \in 1 .. Len(tx) + 1
  /\ accepted \subseteq [key : CompressedKey, request : Request]

-----------------------------------------------------------------------------
(* What the layout is for. *)

\* Whatever instructions surround it, whatever their offsets point at, and
\* however often another program calls in: the program accepts a request in
\* the name of a key only if that key's enclave approved that very request,
\* field by field, for this program (precompile.rs: "the runtime already
\* verified it").
AcceptedWasApproved ==
  \A a \in accepted :
    [key |-> a.key, program_id |-> ProgramId, request |-> a.request] \in Approvals

ToLeBytes16(n) == <<n % 256, n \div 256>>

\* new_secp256r1_instruction_with_signature: what the SDK and the tests build.
SdkData(pubkey, signature, message) ==
  <<1, 0>>
    \o ToLeBytes16(SECP256R1_SIGNATURE_OFFSET) \o ToLeBytes16(PRECOMPILE_CURRENT_INSTRUCTION)
    \o ToLeBytes16(SECP256R1_PUBKEY_OFFSET) \o ToLeBytes16(PRECOMPILE_CURRENT_INSTRUCTION)
    \o ToLeBytes16(SECP256R1_MESSAGE_OFFSET) \o ToLeBytes16(Len(message))
    \o ToLeBytes16(PRECOMPILE_CURRENT_INSTRUCTION)
    \o pubkey \o signature \o message

\* The instructions at i - 1 and i are the pair EnclaveRequest::sign returns.
IsSignedPair(t, i) ==
  /\ i \in 2 .. Len(t)
  /\ t[i - 1].program = SECP256R1_PROGRAM_ID /\ t[i - 1].accounts = 0
  /\ \E s \in Verifying, request \in t[i].calls :
       /\ t[i].program = ProgramId /\ t[i].calls = {request}
       /\ s.message = ToBytes(ProgramId, request)
       /\ t[i - 1].data = SdkData(s.pubkey, s.signature, s.message)

\* A pair built as the SDK and the tests build it is never refused for its
\* layout, wherever in the transaction it stands (precompile.rs's five checks,
\* requests.rs: "precompile first, program second").
SignedPairPasses ==
  [][at <= Len(tx) /\ (IsSignedPair(tx, at) \/ IsSignedPair(tx, at + 1)) => at' = at + 1]_vars
=============================================================================
