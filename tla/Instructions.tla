---------------------------- MODULE Instructions ----------------------------
(***************************************************************************)
(* The program instruction around an approval.  A client builds it from    *)
(* the request its enclave signed and hands it to a relayer, which can     *)
(* rewrite every argument and account of it before it sends it.  Each      *)
(* handler builds the request again from what it was given, and compares.  *)
(*                                                                         *)
(* confirm_rotation is not here: its one argument is in no approval.       *)
(***************************************************************************)
EXTENDS Encoding

CONSTANTS
  WalletPda, VaultPda,      \* find_program_address, of each wallet ID
  PROGRAM_ID, SYSTEM_PROGRAM, INSTRUCTIONS_SYSVAR, EVENT_AUTHORITY,
  Requests,                 \* what enclaves sign
  Instructions,             \* the values a relayer writes, see Rewrite
  Relayers                  \* accounts that sign as relayer

VARIABLES
  approved,                 \* the request that was signed
  ix                        \* the instruction, as it stands

vars == <<approved, ix>>

Names ==
  {"TransferSol", "ProposeRotation", "CancelRotation", "SetGuardians", "SweepVault",
   "CloseWallet"}

ASSUME InstructionsAssumption ==
  /\ WalletPda \in [Address -> Address] /\ VaultPda \in [Address -> Address]
  /\ {PROGRAM_ID, SYSTEM_PROGRAM, INSTRUCTIONS_SYSVAR, EVENT_AUTHORITY} \subseteq Address
  /\ Requests \subseteq {r \in Request : r.action.kind \in Names}
  /\ Relayers \subseteq Address

\* What an instruction takes besides the header, in the order of the code.
OwnArguments(name) ==
  CASE name = "TransferSol" -> [lamports : U64]
    [] name = "ProposeRotation" -> [new_key : CompressedKey]
    [] name = "SetGuardians" -> [guardians : [Slots -> Guardian]]
    [] OTHER -> {<<>>}

Destination(name) ==
  IF name \in {"TransferSol", "SweepVault", "CloseWallet"} THEN {<<a>> : a \in Address}
  ELSE {<<>>}

Arguments ==
  [wallet_id : Address, nonce : U64, expires_at : I64, max_relayer_fee : U64,
   relayer_fee : U64]

Accounts ==
  [wallet : Address, vault : Address, relayer : Address, instructions_sysvar : Address,
   system_program : Address, event_authority : Address, program : Address]

InstructionOf(name) ==
  [name : {name}, args : Arguments, own : OwnArguments(name), accounts : Accounts,
   to : Destination(name)]

ASSUME RewritesAssumption ==
  \A i \in Instructions : i.name \in Names /\ i \in InstructionOf(i.name)

-----------------------------------------------------------------------------
(* The client. *)

\* The program has an enum of its own for what the encoding calls Guardian.
ProgramGuardian(g) ==
  CASE g.kind = "None" -> [kind |-> "None"]
    [] g.kind = "P256" -> [kind |-> "P256", key |-> g.key]
    [] g.kind = "WebAuthn" -> [kind |-> "WebAuthn", key |-> g.key]

Own(a) ==
  CASE a.kind = "TransferSol" -> [lamports |-> a.lamports]
    [] a.kind = "ProposeRotation" -> [new_key |-> a.new_key]
    [] a.kind = "SetGuardians" ->
         [guardians |-> [i \in Slots |-> ProgramGuardian(a.guardians[i])]]
    [] OTHER -> <<>>

To(a) ==
  IF a.kind \in {"TransferSol", "SweepVault", "CloseWallet"} THEN <<a.to>> ELSE <<>>

ProgramInstruction(r, relayer, relayer_fee) ==
  [name |-> r.action.kind,
   args |-> [wallet_id |-> r.wallet_id, nonce |-> r.nonce, expires_at |-> r.expires_at,
             max_relayer_fee |-> r.max_relayer_fee, relayer_fee |-> relayer_fee],
   own |-> Own(r.action),
   accounts |-> [wallet |-> WalletPda[r.wallet_id], vault |-> VaultPda[r.wallet_id],
                 relayer |-> relayer, instructions_sysvar |-> INSTRUCTIONS_SYSVAR,
                 system_program |-> SYSTEM_PROGRAM, event_authority |-> EVENT_AUTHORITY,
                 program |-> PROGRAM_ID],
   to |-> To(r.action)]

-----------------------------------------------------------------------------
(* The program. *)

\* Anchor's account constraints: the seeds, the addresses, the signer.
Constrained(i) ==
  /\ i.accounts.wallet = WalletPda[i.args.wallet_id]
  /\ i.accounts.vault = VaultPda[i.args.wallet_id]
  /\ i.accounts.relayer \in Relayers
  /\ i.accounts.instructions_sysvar = INSTRUCTIONS_SYSVAR
  /\ i.accounts.system_program = SYSTEM_PROGRAM
  /\ i.accounts.event_authority = EVENT_AUTHORITY
  /\ i.accounts.program = PROGRAM_ID

EncodingGuardian(g) ==
  CASE g.kind = "None" -> [kind |-> "None"]
    [] g.kind = "P256" -> [kind |-> "P256", key |-> g.key]
    [] g.kind = "WebAuthn" -> [kind |-> "WebAuthn", key |-> g.key]

\* Fault: close_wallet began as a copy of sweep_vault.
PerformedAsSweep(i) ==
  CASE i.name = "TransferSol" ->
         [kind |-> "TransferSol", to |-> i.to[1], lamports |-> i.own.lamports]
    [] i.name = "ProposeRotation" -> [kind |-> "ProposeRotation", new_key |-> i.own.new_key]
    [] i.name = "CancelRotation" -> [kind |-> "CancelRotation"]
    [] i.name = "SetGuardians" ->
         [kind |-> "SetGuardians",
          guardians |-> [j \in Slots |-> EncodingGuardian(i.own.guardians[j])]]
    [] i.name \in {"SweepVault", "CloseWallet"} -> [kind |-> "SweepVault", to |-> i.to[1]]

\* The action each handler builds again.
Performed(i) ==
  CASE i.name = "TransferSol" ->
         [kind |-> "TransferSol", to |-> i.to[1], lamports |-> i.own.lamports]
    [] i.name = "ProposeRotation" -> [kind |-> "ProposeRotation", new_key |-> i.own.new_key]
    [] i.name = "CancelRotation" -> [kind |-> "CancelRotation"]
    [] i.name = "SetGuardians" ->
         [kind |-> "SetGuardians",
          guardians |-> [j \in Slots |-> EncodingGuardian(i.own.guardians[j])]]
    [] i.name \in {"SweepVault", "CloseWallet"} -> [kind |-> i.name, to |-> i.to[1]]

\* Fault: what the relayer asks is compared with itself.
RebuiltAtFeeAsked(i) ==
  [wallet_id |-> i.args.wallet_id, nonce |-> i.args.nonce, expires_at |-> i.args.expires_at,
   max_relayer_fee |-> i.args.relayer_fee, action |-> Performed(i)]

\* The request verify_enclave_authorization compares with what was signed.
Rebuilt(i) ==
  [wallet_id |-> i.args.wallet_id, nonce |-> i.args.nonce, expires_at |-> i.args.expires_at,
   max_relayer_fee |-> i.args.max_relayer_fee, action |-> Performed(i)]

Zeros == [n \in 1 .. COMPRESSED_PUBKEY_LEN |-> 0]

\* What a handler refuses whoever signed it.
Refuses(a) ==
  \/ a.kind = "ProposeRotation" /\ a.new_key = Zeros
  \/ a.kind = "SetGuardians" /\ \E j \in Slots : a.guardians[j].kind = "WebAuthn"

\* The instruction gets past everything that does not depend on the wallet.
\* The code compares the requests' bytes, which is the same (PreimageInjective).
Passes(i, r) == Constrained(i) /\ Rebuilt(i) = r /\ ~Refuses(Performed(i))

-----------------------------------------------------------------------------
(* The relayer. *)

Fees == {i.args.relayer_fee : i \in Instructions}

\* It drops what the client built for an instruction of its own.
Replace ==
  \E r \in Requests, relayer \in Relayers, fee \in Fees :
    ix' = ProgramInstruction(r, relayer, fee)

RewriteName ==
  \E i \in Instructions :
    ix.own \in OwnArguments(i.name) /\ ix.to \in Destination(i.name)
      /\ ix' = [ix EXCEPT !.name = i.name]

RewriteArguments ==
  \E i \in Instructions :
    \/ ix' = [ix EXCEPT !.args = i.args]
    \/ i.name = ix.name /\ ix' = [ix EXCEPT !.own = i.own]

RewriteAccounts ==
  \E i \in Instructions :
    \/ ix' = [ix EXCEPT !.accounts = i.accounts]
    \/ i.name = ix.name /\ ix' = [ix EXCEPT !.to = i.to]

Init ==
  /\ approved \in Requests
  /\ \E relayer \in Relayers, fee \in Fees : ix = ProgramInstruction(approved, relayer, fee)

Next ==
  /\ Replace \/ RewriteName \/ RewriteArguments \/ RewriteAccounts
  /\ UNCHANGED approved

Spec == Init /\ [][Next]_vars

-----------------------------------------------------------------------------
(* What binds the relayer. *)

\* Of the instruction that executes an approval the relayer chooses its own
\* account and the fee it asks, nothing else: not the wallet, the vault, the
\* amount, the key, a slot, the destination or the handler.  Each handler
\* writes its action out by hand, and sweep_vault and close_wallet take the
\* same arguments and accounts.
ApprovalBindsInstruction ==
  Passes(ix, approved)
    => ix = ProgramInstruction(approved, ix.accounts.relayer, ix.args.relayer_fee)

\* What the client builds for an approval passes, whichever relayer sends it
\* and whatever fee that relayer asks, unless the handler refuses the action:
\* the client signs before it knows either (README.md:29 lists what is signed).
AnyRelayerMaySend ==
  \/ Refuses(approved.action)
  \/ \A relayer \in Relayers, fee \in Fees :
       Passes(ProgramInstruction(approved, relayer, fee), approved)
=============================================================================
