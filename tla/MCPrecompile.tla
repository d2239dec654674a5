---------------------------- MODULE MCPrecompile ----------------------------
(***************************************************************************)
(* Transactions built to make the precompile and the program read          *)
(* different bytes: every combination of instruction indices, offsets that *)
(* are off, counts of 0, 1 and 2, sizes off by one, next to an honest pair *)
(* whose bytes they could borrow.  One byte per key, address and integer   *)
(* leaves the most room for one field to be read as another.               *)
(***************************************************************************)
EXTENDS Precompile

\* Two's complement, little-endian, one byte.
MCU64 == 0 .. 3
MCI64 == -2 .. 3
MCU64ToLeBytes == [n \in MCU64 |-> <<n>>]
MCI64ToLeBytes == [n \in MCI64 |-> <<n % 256>>]

MCDomainTag == <<101>>
MCSecp256r1 == <<7>>
MCProgramId == <<8>>
other == <<9>>
owner == <<2>>
guardian == <<3>>
wallet == <<1>>
alice == <<4>>

RequestOf(nonce, expires_at, fee, action) ==
  [wallet_id |-> wallet, nonce |-> nonce, expires_at |-> expires_at,
   max_relayer_fee |-> fee, action |-> action]

P256(k) == [kind |-> "P256", key |-> k]
Slot(i, g) == [s \in Slots |-> IF s = i THEN g ELSE [kind |-> "None"]]

Pay == RequestOf(0, -1, 1, [kind |-> "TransferSol", to |-> alice, lamports |-> 2])
PayMoreFee == [Pay EXCEPT !.max_relayer_fee = 3]
Guard(i) == RequestOf(0, -1, 1, [kind |-> "SetGuardians", guardians |-> Slot(i, P256(guardian))])
Move == RequestOf(1, 2, 0, [kind |-> "ProposeRotation", new_key |-> guardian])

ApprovedBy(k, program_id, r) == [key |-> k, program_id |-> program_id, request |-> r]

MCApprovals ==
  {ApprovedBy(owner, MCProgramId, Pay), ApprovedBy(owner, MCProgramId, Guard(0)),
   ApprovedBy(owner, other, Move), ApprovedBy(guardian, MCProgramId, Move)}

\* A signature is the key's own byte, and two verify for each message.  The
\* owner's key also signs a message of some other protocol.
MCVerifying ==
  {[pubkey |-> a.key, signature |-> <<s>>, message |-> ToBytes(a.program_id, a.request)] :
     a \in MCApprovals, s \in {60, 61}}
  \union {[pubkey |-> owner, signature |-> <<60>>,
           message |-> <<102>> \o Tail(ToBytes(MCProgramId, PayMoreFee))]}

-----------------------------------------------------------------------------
(* Instruction data. *)

Offsets(so, si, po, pi, mo, ms, mi) ==
  ToLeBytes16(so) \o ToLeBytes16(si) \o ToLeBytes16(po) \o ToLeBytes16(pi)
    \o ToLeBytes16(mo) \o ToLeBytes16(ms) \o ToLeBytes16(mi)

Indices == {PRECOMPILE_CURRENT_INSTRUCTION, 0, 1}

\* The bodies a crafted instruction carries: a key, a signature, a message.
Bodies ==
  {<<key, sig, ToBytes(MCProgramId, r)>> :
     key \in {owner, guardian}, sig \in {<<60>>, <<0>>},
     r \in {Pay, PayMoreFee, Guard(0), Guard(1), Move}}

Crafted(body, count, si, pi, mi, shift, extra) ==
  <<count, 0>>
    \o Offsets(SECP256R1_SIGNATURE_OFFSET + shift[1], si, SECP256R1_PUBKEY_OFFSET + shift[2], pi,
               SECP256R1_MESSAGE_OFFSET + shift[3], Len(body[3]) + extra, mi)
    \o body[1] \o body[2] \o body[3]

NoShift == <<0, 0, 0>>

CraftedData ==
  {Crafted(b, c, si, pi, mi, NoShift, 0) :
     b \in Bodies, c \in 0 .. 1, si \in Indices, pi \in Indices, mi \in Indices}
  \union {Crafted(b, 1, c, c, c, shift, extra) :
     b \in Bodies, c \in Indices, extra \in -1 .. 1,
     shift \in {NoShift, <<1, 0, 0>>, <<0, 1, 0>>, <<0, 0, 1>>, <<0, 0, -1>>}}

\* Two signatures: the second set of offsets lies where the program looks for
\* the key and the signature.
TwoSignatures ==
  {<<2, 0>> \o Offsets(31, 65535, 30, 65535, 32, Len(m), 65535)
     \o Offsets(31, 65535, 30, 65535, 32, Len(m), 65535) \o owner \o <<60>> \o m :
     m \in {ToBytes(MCProgramId, Pay)}}

ShortData == {<<>>, <<1>>, <<0, 0>>, <<1, 0>> \o Offsets(17, 65535, 16, 65535, 18, 0, 65535)}

Secp(data) == [program |-> SECP256R1_PROGRAM_ID, accounts |-> 0, data |-> data, calls |-> {}]
Call(r) == [program |-> MCProgramId, accounts |-> 1, data |-> <<>>, calls |-> {r}]
CallFrom(program, rs) == [program |-> program, accounts |-> 1, data |-> <<>>, calls |-> rs]
Memo(data) == [program |-> other, accounts |-> 0, data |-> data, calls |-> {}]

Honest == SdkData(owner, <<60>>, ToBytes(MCProgramId, Pay))

\* The request a crafted instruction is meant for is the one its body spells.
Spelled(data) ==
  {r \in {Pay, PayMoreFee, Guard(0), Guard(1), Move} :
     Len(data) >= 18 /\ From(data, 18) = ToBytes(MCProgramId, r)}

MCTransactions ==
  {<<Secp(Honest), Secp(d), Call(r)>> : d \in CraftedData, r \in {PayMoreFee, Pay, Guard(1), Move}}
  \union {<<Memo(Honest), Secp(d), CallFrom(other, Spelled(d))>> : d \in CraftedData}
  \union {<<Secp(d), Call(Pay)>> : d \in ShortData \union TwoSignatures}
  \union {<<Secp(SdkData(s.pubkey, s.signature, s.message)), Call(r)>> :
            s \in MCVerifying, r \in {Pay, PayMoreFee, Guard(0), Guard(1), Move}}
  \union {<<Call(Pay)>>, <<Memo(Honest), Call(Pay)>>,
          <<Secp(Honest), Call(Pay), Call(Pay)>>,
          <<Secp(Honest), CallFrom(other, {Pay, PayMoreFee})>>,
          <<Secp(Honest), Memo(<<>>), Call(Pay)>>,
          <<[Secp(Honest) EXCEPT !.accounts = 1], Call(Pay)>>,
          <<Memo(<<>>), Secp(Honest), Call(Pay), Memo(<<>>)>>}
=============================================================================
