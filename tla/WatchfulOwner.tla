--------------------------- MODULE WatchfulOwner ---------------------------
(***************************************************************************)
(* The owner the timelock is for: a device that looks at the wallet every  *)
(* WATCH_PERIOD seconds and, when a proposal waits, signs a cancellation   *)
(* for the nonce it read.  Whoever relays it needs up to DELIVERY_TIME     *)
(* seconds to have it executed or refused, and the guardians may put a     *)
(* proposal before it: they share the wallet's nonce with the owner.       *)
(***************************************************************************)
EXTENDS SmartWalletProperties

CONSTANTS
  WATCH_PERIOD,         \* the owner looks again after at most this time
  DELIVERY_TIME,        \* a transaction is executed or refused within it
  MAX_RELAYER_FEE       \* what the owner lets the relayer have

VARIABLES
  sent,                 \* the cancellation in flight, if any
  since                 \* when the owner last looked or last got an answer

watchVars == <<vars, sent, since>>

ASSUME WatchAssumption ==
  /\ WATCH_PERIOD \in Nat /\ DELIVERY_TIME \in Nat
  /\ WATCH_PERIOD + 2 * DELIVERY_TIME < ROTATION_DELAY
  /\ 0 \in RelayerFees

Waiting == Exists /\ wallet.rotation.pending

CancellationOf(nonce, expires_at) ==
  [wallet_id |-> Id, nonce |-> nonce, expires_at |-> expires_at,
   max_relayer_fee |-> MAX_RELAYER_FEE, action |-> [kind |-> "CancelRotation"]]

\* Whoever owns the wallet can sign any cancellation, and there is a relayer.
ASSUME OwnerAssumption ==
  /\ Relayers # {}
  /\ \A key \in Keys, nonce \in 0 .. U64Max, t \in 1 .. MaxTime + DELIVERY_TIME + 1 :
       LET r == CancellationOf(nonce, t)
       IN  /\ r \in Requests
           /\ [key |-> key, program |-> ProgramId, request |-> r] \in Signatures

Cancellation == CancellationOf(wallet.nonce, now + DELIVERY_TIME + 1)

-----------------------------------------------------------------------------
(* The owner. *)

Look ==
  /\ sent = {}
  /\ sent' = IF Waiting THEN {Cancellation} ELSE {}
  /\ since' = now
  /\ UNCHANGED vars

CanBeCarried ==
  \E r \in sent \intersect Requests, relayer \in Relayers :
    CanCancel(wallet.active_key, r, relayer, 0)

WasVoided == \E r \in sent : ~IsLive(r)

\* Some relayer carries the cancellation for nothing.
Cancels ==
  /\ \E r \in sent \intersect Requests, relayer \in Relayers :
       CancelRotation(wallet.active_key, r, relayer, 0)
  /\ sent' = {}
  /\ since' = now

\* The owner learns that the nonce is gone.
Refused ==
  /\ WasVoided
  /\ sent' = {}
  /\ since' = now
  /\ UNCHANGED vars

-----------------------------------------------------------------------------
(* Everything else. *)

\* While a proposal waits the owner signs nothing but its cancellation;
\* anyone else delivers what they like.
Others ==
  /\ \/ \E signer \in Keys, r \in Requests, relayer \in Relayers, asked \in RelayerFees :
          /\ Waiting => signer # wallet.active_key
          /\ Execute(signer, r, relayer, asked)
     \/ ConfirmRotation
     \/ \E party \in Parties, to \in {Vault, State}, n \in Deposits : Deposit(party, to, n)
  /\ UNCHANGED <<sent, since>>

Deadline == since + (IF sent = {} THEN WATCH_PERIOD ELSE DELIVERY_TIME)

\* The owner is never late.
Passes == now < Deadline /\ Tick /\ UNCHANGED <<sent, since>>

WatchInit == Init /\ sent = {} /\ since = now

WatchNext == Look \/ Cancels \/ Refused \/ Others \/ Passes

WatchSpec == WatchInit /\ [][WatchNext]_watchVars

-----------------------------------------------------------------------------
(* What watching is worth. *)

OwnerStepKeepsControl ==
  Exists /\ Exists' /\ wallet'.active_key # wallet.active_key =>
    \E r \in OwnerApprovals({"ProposeRotation"}) : r.action.new_key = wallet'.active_key

\* No guardian ever takes the wallet from an owner that watches, however the
\* guardians and relayers time and order their transactions: each proposal
\* that voids a cancellation starts the delay over, and the delay is longer
\* than one look and two deliveries (propose_rotation, cancel_rotation,
\* confirm_rotation and the nonce they share).
OwnerKeepsControl == [][OwnerStepKeepsControl]_watchVars

\* The owner is never asked the impossible: at a deadline it can look, or its
\* cancellation was voided, or some relayer can carry it, with the vault empty
\* too (cancel_rotation, refund_relayer), as long as there is a nonce left.
DeadlinesCanBeMet ==
  now = Deadline /\ (Waiting => wallet.nonce < U64Max) =>
    sent = {} \/ CanBeCarried \/ WasVoided
=============================================================================
