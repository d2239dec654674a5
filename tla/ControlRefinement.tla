-------------------------- MODULE ControlRefinement --------------------------
(***************************************************************************)
(* The program implements Recovery.  A guardian is a key and not a slot, a *)
(* proposal has an age and not a timestamp, and the signatures, refunds    *)
(* and nonces that carry an action are steps of nothing.                   *)
(***************************************************************************)
EXTENDS SmartWalletProperties

IsPending == Exists /\ wallet.rotation.pending

Holder == IF Exists THEN {wallet.active_key} ELSE {}

\* The pending proposal, under the key of its guardian.
Pending ==
  IF IsPending
  THEN {[by |-> wallet.guardians[wallet.rotation.proposed_by].key,
         key |-> wallet.rotation.new_key]}
  ELSE {}

\* How old it is, up to the first second past its window.
Age ==
  IF IsPending
  THEN Lesser(now - wallet.rotation.proposed_at, ROTATION_DELAY + ROTATION_WINDOW + 1)
  ELSE 0

Control == INSTANCE Recovery WITH
  Founders  <- {k \in Keys : Sha256[k] = Id},
  holder    <- Holder,
  guardians <- GuardianKeys,
  proposal  <- Pending,
  age       <- Age

\* Every step of the program is one of Recovery's, or changes nothing it
\* speaks of: slots do what keys promise, duplicates included, timestamps what
\* ages promise, and no action has a side effect on control
\* (propose_rotation, confirm_rotation, set_guardians, close_wallet).
ImplementsRecovery == Control!Spec
=============================================================================
