--------------------------- MODULE MCInstructions ---------------------------
(***************************************************************************)
(* Two wallets and a request of every kind, and a relayer that rewrites    *)
(* arguments, accounts, destination and name with those of any other       *)
(* instruction, one at a time and in any order.                            *)
(***************************************************************************)
EXTENDS Instructions

\* Two's complement, little-endian, one byte.
MCU64 == 0 .. 3
MCI64 == -2 .. 3
MCU64ToLeBytes == [n \in MCU64 |-> <<n>>]
MCI64ToLeBytes == [n \in MCI64 |-> <<n % 256>>]

MCDomainTag == <<101>>
MCProgramId == <<8>>
MCSystem == <<11>>
MCSysvar == <<12>>
MCEvents == <<13>>

wallet == <<1>>
mallory == <<2>>      \* a second wallet
alice == <<3>>
bob == <<4>>

MCRelayers == {<<5>>, <<6>>}

\* The addresses derived from a wallet ID are its own.
MCWalletPda == [a \in Address |-> <<(a[1] + 100) % 256>>]
MCVaultPda == [a \in Address |-> <<(a[1] + 200) % 256>>]

RequestOf(action) ==
  [wallet_id |-> wallet, nonce |-> 1, expires_at |-> -1, max_relayer_fee |-> 2,
   action |-> action]

P256(k) == [kind |-> "P256", key |-> k]
WebAuthn(k) == [kind |-> "WebAuthn", key |-> k]
Only(i, g) == [s \in Slots |-> IF s = i THEN g ELSE [kind |-> "None"]]

Pay == RequestOf([kind |-> "TransferSol", to |-> alice, lamports |-> 2])

MCRequests ==
  {Pay, [Pay EXCEPT !.wallet_id = mallory, !.nonce = 0, !.max_relayer_fee = 3]}
  \union {RequestOf(a) :
     a \in [kind : {"SweepVault", "CloseWallet"}, to : {alice, bob}]
       \union [kind : {"CancelRotation"}]
       \union [kind : {"ProposeRotation"}, new_key : {<<7>>, Zeros}]
       \union [kind : {"SetGuardians"},
               guardians : {Only(0, P256(<<7>>)), Only(1, P256(<<7>>)), Only(0, WebAuthn(<<7>>))}]}

\* What a relayer writes: the instructions themselves, at two fees, and with
\* an account it does not sign for.
MCInstructions ==
  {ProgramInstruction(r, <<5>>, fee) : r \in MCRequests, fee \in {1, 3}}
  \union {ProgramInstruction(Pay, <<6>>, 1),
          [ProgramInstruction(Pay, bob, 1) EXCEPT !.accounts.vault = VaultPda[mallory]]}
=============================================================================
