---------------------------- MODULE MCKoraClient ----------------------------
(***************************************************************************)
(* Two runs of the client over one vault, and another device of the same   *)
(* wallet that pays from it, empties it and closes it.                     *)
(***************************************************************************)
EXTENDS KoraClient, TLC

CONSTANTS owner, kora, relayer1, funder, alice, bob, run1, run2

MCSha256 == [k \in Keys |-> Id]

RequestFor(nonce, expires_at, fee, action) ==
  [wallet_id |-> Id, nonce |-> nonce, expires_at |-> expires_at,
   max_relayer_fee |-> fee, action |-> action]

\* It may make the wallet, empty its vault and close it.
MCDeviceRequests ==
  {RequestFor(0, MaxTime + 1, 0, [kind |-> "TransferSol", to |-> bob, lamports |-> 2]),
   RequestFor(1, MaxTime + 1, 0, [kind |-> "SweepVault", to |-> bob]),
   RequestFor(2, MaxTime + 1, 0, [kind |-> "CloseWallet", to |-> bob])}

AllRequests == MCDeviceRequests \union UNION {Signable(c) : c \in Runs}

ClientSignatures ==
  {[key |-> EnclaveKey, program |-> ProgramId, request |-> r] : r \in AllRequests}

ClientEndowment ==
  [a \in Accounts |-> CASE a = Funder -> 14 [] a = alice -> 1 [] a = Kora -> 5
                        [] OTHER -> 0]

RunSymmetry == Permutations(Runs)
=============================================================================
