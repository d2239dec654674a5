--------------------------- MODULE MCSmartWallet ---------------------------
(***************************************************************************)
(* Small instances of the wallet for TLC: one where control changes hands  *)
(* and no lamports matter, one where lamports move and nobody loses a key. *)
(***************************************************************************)
EXTENDS SmartWalletProperties

CONSTANTS owner, heir, guardian1, guardian2, otherProgram,
          relayer1, relayer2, alice, bob

\* wallet_id is the owner key's hash; another key hashes to another wallet.
MCSha256 == [k \in Keys |-> IF k = owner THEN Id ELSE <<k>>]

Key(k) == [kind |-> "P256", key |-> k]
NoGuardian == [kind |-> "None"]

\* The guardian list with `a` in the first slot, `b` in the second.
Pair(a, b) == [i \in Slots |-> CASE i = 0 -> a [] i = 1 -> b [] OTHER -> NoGuardian]

RequestFor(wallet_id, nonce, expires_at, fee, action) ==
  [wallet_id |-> wallet_id, nonce |-> nonce, expires_at |-> expires_at,
   max_relayer_fee |-> fee, action |-> action]

SignedBy(key, program, request) == [key |-> key, program |-> program, request |-> request]

SetTo(a, b) == [kind |-> "SetGuardians", guardians |-> Pair(a, b)]
MoveTo(k) == [kind |-> "ProposeRotation", new_key |-> k]
Cancel == [kind |-> "CancelRotation"]
Close(to) == [kind |-> "CloseWallet", to |-> to]
Sweep(to) == [kind |-> "SweepVault", to |-> to]
Pay(to, n) == [kind |-> "TransferSol", to |-> to, lamports |-> n]

-----------------------------------------------------------------------------
(* Recovery: the owner, two guardians and the key they would move to.      *)
(* Nonces 0 .. U64Max, so that the last one cannot be used.         *)

OwnerActions ==
  {SetTo(Key(guardian1), Key(guardian2)), SetTo(Key(guardian2), Key(guardian2)),
   SetTo(Key(guardian1), [kind |-> "WebAuthn", key |-> guardian2]),
   MoveTo(heir), Cancel, Sweep(bob), Close(bob)}

GuardianActions == {MoveTo(heir), MoveTo(guardian1), MoveTo(ZeroKey)}

RecoveryRequests ==
  {RequestFor(Id, n, e, 0, a) :
     n \in 0 .. U64Max, e \in {5, MaxTime + 1}, a \in OwnerActions \union GuardianActions}
  \union {RequestFor(MCSha256[heir], 1, MaxTime + 1, 0, MoveTo(heir))}

\* The owner never signs away to a guardian, except for another program, and
\* the new key acts only on the guardian list.
RecoverySignatures ==
  {SignedBy(owner, ProgramId, r) :
     r \in {q \in RecoveryRequests : q.action \in OwnerActions /\ q.wallet_id = Id}}
  \union {SignedBy(owner, otherProgram, r) :
     r \in {q \in RecoveryRequests : q.action = MoveTo(guardian1)}}
  \union {SignedBy(owner, ProgramId, RequestFor(MCSha256[heir], 1, MaxTime + 1, 0, MoveTo(heir)))}
  \union {SignedBy(g, ProgramId, r) : g \in {guardian1, guardian2},
     r \in {q \in RecoveryRequests : q.action \in GuardianActions /\ q.wallet_id = Id}}
  \union {SignedBy(heir, ProgramId, r) :
     r \in {q \in RecoveryRequests : q.action \in {Cancel, SetTo(Key(guardian2), Key(guardian2))}}}

RecoveryEndowment == [a \in Accounts |-> IF a = bob THEN 0 ELSE 1]

-----------------------------------------------------------------------------
(* Funds: two relayers, a payee and a depositor; three approvals in a row,  *)
(* one of them with a cap that takes its sum past u64::MAX.                 *)

FundsActions ==
  {Pay(bob, 2), Pay(Vault, 2), Pay(relayer1, 3),
   Sweep(bob), Sweep(Vault), Close(bob), Close(State), Cancel,
   SetTo(Key(guardian1), NoGuardian)}

FundsRequests ==
  {RequestFor(Id, n, 2, fee, a) :
     n \in 0 .. 2, fee \in {0, 2}, a \in FundsActions \union {MoveTo(heir)}}
  \union {RequestFor(Id, n, 2, U64Max - 1, Pay(bob, 2)) : n \in 0 .. 2}

FundsSignatures ==
  {SignedBy(owner, ProgramId, r) :
     r \in {q \in FundsRequests : q.action \in FundsActions}}
  \union {SignedBy(guardian1, ProgramId, r) :
     r \in {q \in FundsRequests : q.action \in {MoveTo(heir), Pay(bob, 2)}}}

FundsEndowment == [a \in Accounts |-> CASE a = alice -> 6 [] a = bob -> 0 [] OTHER -> 5]
=============================================================================
