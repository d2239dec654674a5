----------------------------- MODULE MCRecovery -----------------------------
(***************************************************************************)
(* The recovery instance of the wallet, seen through Recovery and as its   *)
(* bytes: short keys, words of eight bytes as they are.                    *)
(***************************************************************************)
EXTENDS MCSmartWallet, ControlRefinement, StateLayout

MCDiscriminator == <<200, 201>>
MCWalletId == <<202, 203>>
MCRpIdHashZero == <<0, 0>>

\* SEC1: 2 or 3, then the coordinate.
MCKeyBytes ==
  [k \in AnyKey |->
     CASE k = owner -> <<2, 101, 102>> [] k = heir -> <<3, 101, 102>>
       [] k = guardian1 -> <<2, 103, 104>> [] k = guardian2 -> <<3, 104, 1>>
       [] OTHER -> <<0, 0, 0>>]

MCWordBytes(max) == [n \in 0 .. max |-> <<n % 256, n \div 256, 0, 0, 0, 0, 0, 0>>]
MCU64ToLeBytes == MCWordBytes(U64Max)
MCI64ToLeBytes == MCWordBytes(I64Max)
=============================================================================
