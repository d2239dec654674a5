------------------------ MODULE WatchfulOwnerProofs ------------------------
(***************************************************************************)
(* An owner that watches keeps the wallet, for every delay, watch period   *)
(* and delivery time with room for one look and two deliveries.            *)
(***************************************************************************)
EXTENDS WatchfulOwner, FundsProofs

\* The owner is on time, and what is in flight was signed for this proposal or
\* for one before it.
FlightInv ==
  /\ since \in Nat /\ since <= now /\ now <= Deadline
  /\ \A r \in sent :
       /\ Waiting
       /\ r = CancellationOf(r.nonce, since + DELIVERY_TIME + 1)
       /\ r.nonce \in Nat /\ r.nonce <= wallet.nonce

\* How long the owner's last look or answer may be behind the proposal.
FreshInv ==
  Waiting =>
    LET p == wallet.rotation.proposed_at
    IN  /\ sent = {} => since <= p + DELIVERY_TIME
        /\ \A r \in sent :
             /\ r.nonce = wallet.nonce => since <= p + DELIVERY_TIME + WATCH_PERIOD
             /\ r.nonce # wallet.nonce => since <= p

WatchInv == IInv /\ RentInv /\ FlightInv /\ FreshInv

LEMMA WaitingType ==
  ASSUME IInv
  PROVE  /\ now \in Nat
         /\ Waiting => /\ wallet.rotation.proposed_at \in Nat
                       /\ wallet.nonce \in Nat
                       /\ wallet.rotation.proposed_at <= now
                       /\ wallet.active_key \in Keys
<1>1. now \in Nat
  BY ParametersAssumption DEF IInv, TypeOK
<1>2. ASSUME Waiting
      PROVE  /\ wallet.rotation.proposed_at \in Nat
             /\ wallet.nonce \in Nat
             /\ wallet.rotation.proposed_at <= now
             /\ wallet.active_key \in Keys
  <2>1. wallet \in WalletState /\ WellFormed(wallet)
    BY <1>2 DEF Waiting, Exists, IInv, TypeOK, WalletWellFormed
  <2>2. wallet.rotation.proposed_at \in Nat /\ wallet.nonce \in Nat
    BY <2>1, ParametersAssumption DEF WalletState, RotationSlot
  <2>3. wallet.rotation.proposed_at <= now
    BY <1>2, <2>1 DEF Waiting, WellFormed
  <2>4. wallet.active_key \in Keys
    BY <2>1 DEF WalletState, WellFormed, IsNew, AnyKey
  <2> QED
    BY <2>2, <2>3, <2>4
<1> QED
  BY <1>1, <1>2

\* The window of a proposal does not open under the owner's eyes.
LEMMA WindowStaysShut ==
  ASSUME WatchInv, Waiting
  PROVE  now - wallet.rotation.proposed_at < ROTATION_DELAY
<1> DEFINE p == wallet.rotation.proposed_at
<1>1. /\ p \in Nat /\ now \in Nat /\ since \in Nat
      /\ WATCH_PERIOD \in Nat /\ DELIVERY_TIME \in Nat /\ ROTATION_DELAY \in Nat
      /\ WATCH_PERIOD + 2 * DELIVERY_TIME < ROTATION_DELAY
  BY WaitingType, WatchAssumption, ParametersAssumption DEF WatchInv, FlightInv
<1> HIDE DEF p
<1>2. CASE sent = {}
  <2>1. now <= since + WATCH_PERIOD /\ since <= p + DELIVERY_TIME
    BY <1>2 DEF WatchInv, FlightInv, FreshInv, Deadline, p
  <2> QED
    BY <1>1, <2>1 DEF p
<1>3. CASE sent # {}
  <2>1. PICK r \in sent : TRUE
    BY <1>3
  <2>2. now <= since + DELIVERY_TIME
    BY <1>3 DEF WatchInv, FlightInv, Deadline
  <2>3. since <= p + DELIVERY_TIME + WATCH_PERIOD
    <3>1. r.nonce = wallet.nonce => since <= p + DELIVERY_TIME + WATCH_PERIOD
      BY <2>1 DEF WatchInv, FreshInv, p
    <3>2. r.nonce # wallet.nonce => since <= p
      BY <2>1 DEF WatchInv, FreshInv, p
    <3> QED
      BY <1>1, <3>1, <3>2
  <2> QED
    BY <1>1, <2>2, <2>3 DEF p
<1> QED
  BY <1>2, <1>3

\* A signed instruction that makes the wallet leaves no proposal in it.
LEMMA CreationIdle ==
  ASSUME IInv, ~Exists, NEW signer \in Keys, NEW r \in Requests, NEW relayer \in Relayers,
         NEW asked \in RelayerFees, Execute(signer, r, relayer, asked)
  PROVE  ~Waiting'
<1> DEFINE a == Advanced(InitIfNeeded, signer)
<1>1. \/ TransferSol(signer, r, relayer, asked)
      \/ SweepVault(signer, r, relayer, asked)
      \/ SetGuardians(signer, r, relayer, asked)
  BY DEF Execute, ProposeRotation, CancelRotation, CanCancel, Cancelled, VaultRefunds,
       CloseWallet, CanClose, CloseAmount, Closed, Exists
<1>2. Authorized(InitIfNeeded, signer, r)
  BY <1>1 DEF TransferSol, CanTransfer, VaultPays, SweepVault, SetGuardians
<1>3. a \in WalletState /\ ~a.rotation.pending
  BY <1>2, AdvancedControl
<1>4. CASE wallet' = a
  BY <1>3, <1>4 DEF Waiting
<1>5. CASE SetGuardians(signer, r, relayer, asked)
  <2> DEFINE stored == [i \in Slots |-> GuardianSlotFrom(r.action.guardians[i])]
  <2>1. wallet' = [a EXCEPT !.guardians = stored, !.rotation = EMPTY_ROTATION]
    BY <1>5 DEF SetGuardians, WithGuardians
  <2> HIDE DEF a, stored
  <2>2. ~wallet'.rotation.pending
    BY <1>3, <2>1 DEF WalletState, EMPTY_ROTATION
  <2> QED
    BY <2>2 DEF Waiting
<1> QED
  BY <1>1, <1>4, <1>5 DEF TransferSol, CanTransfer, VaultPays, SweepVault

\* While a proposal waits, whoever is not the owner can only propose, and
\* pays with a nonce.
LEMMA OthersOnlyPropose ==
  ASSUME IInv, Waiting, NEW signer \in Keys, signer # wallet.active_key,
         NEW r \in Requests, NEW relayer \in Relayers,
         NEW asked \in RelayerFees, Execute(signer, r, relayer, asked)
  PROVE  /\ Waiting' /\ now' = now
         /\ wallet'.rotation.proposed_at = now
         /\ wallet'.nonce = wallet.nonce + 1
<1> DEFINE a == Advanced(wallet, signer)
<1>1. /\ Exists /\ wallet \in WalletState /\ ~IsNew(wallet)
      /\ InitIfNeeded = wallet /\ Opened(wallet, signer) = wallet
  BY DEF Waiting, Exists, IInv, TypeOK, WalletWellFormed, WellFormed, InitIfNeeded, Opened
<1>2. ProposeRotation(signer, r, relayer, asked)
  BY <1>1 DEF Execute, TransferSol, CanTransfer, VaultPays, SweepVault, SetGuardians,
       CancelRotation, CanCancel, Cancelled, VaultRefunds, CloseWallet, CanClose,
       CloseAmount, Closed, RequireActiveKey
<1>3. Authorized(wallet, signer, r) /\ now' = now
  BY <1>2 DEF ProposeRotation
<1>4. a \in WalletState
  BY <1>1, <1>3, AdvancedControl
<1>5. a.nonce = wallet.nonce + 1
  BY <1>1, <1>3, AdvancedCounts DEF WalletState
<1> DEFINE pending == [pending |-> TRUE, new_key |-> r.action.new_key, proposed_at |-> now,
                       proposed_by |-> P256Guardian(a, signer)]
<1>6. wallet' = [a EXCEPT !.rotation = pending]
  BY <1>2 DEF ProposeRotation, Propose
<1>7. pending.pending /\ pending.proposed_at = now
  OBVIOUS
<1> HIDE DEF a, pending
<1>8. /\ wallet'.rotation.pending /\ wallet'.rotation.proposed_at = now
      /\ wallet'.nonce = wallet.nonce + 1
  BY <1>4, <1>5, <1>6, <1>7 DEF WalletState
<1>9. Exists'
  BY <1>2, ProposeRotationInv, NoAccountAssumption DEF Exists
<1> QED
  BY <1>3, <1>8, <1>9 DEF Waiting

LEMMA WatchIsNext ==
  ASSUME WatchInv, [WatchNext]_watchVars
  PROVE  [Next]_vars
<1>1. CASE Cancels
  <2>1. PICK r \in sent \intersect Requests, relayer \in Relayers :
          CancelRotation(wallet.active_key, r, relayer, 0)
    BY <1>1 DEF Cancels
  <2>2. wallet.active_key \in Keys
    BY <2>1, WaitingType DEF WatchInv, FlightInv
  <2>3. Execute(wallet.active_key, r, relayer, 0)
    BY <2>1 DEF Execute
  <2> QED
    BY <2>2, <2>3, WatchAssumption DEF Next
<1>2. CASE Others
  BY <1>2 DEF Others, Next, Unsigned
<1>3. CASE Passes
  BY <1>3 DEF Passes, Next, Unsigned
<1>4. CASE UNCHANGED vars
  BY <1>4
<1> QED
  BY <1>1, <1>2, <1>3, <1>4 DEF WatchNext, Look, Refused, watchVars

-----------------------------------------------------------------------------
(* Each step keeps the owner ahead. *)

LEMMA LookInv ==
  ASSUME WatchInv, Look
  PROVE  FlightInv' /\ FreshInv'
<1>1. /\ sent = {} /\ since' = now /\ now' = now /\ wallet' = wallet
      /\ sent' = IF Waiting THEN {Cancellation} ELSE {}
  BY DEF Look, vars
<1>2. /\ now \in Nat /\ since \in Nat /\ now <= since + WATCH_PERIOD
      /\ WATCH_PERIOD \in Nat /\ DELIVERY_TIME \in Nat
  BY <1>1, WaitingType, WatchAssumption DEF WatchInv, FlightInv, Deadline
<1>3. Waiting' = Waiting
  BY <1>1 DEF Waiting, Exists
<1>4. FlightInv'
  <2>1. since' \in Nat /\ since' <= now' /\ now' <= Deadline'
    BY <1>1, <1>2 DEF Deadline
  <2>2. ASSUME NEW r \in sent'
        PROVE  /\ Waiting' /\ r = CancellationOf(r.nonce, since' + DELIVERY_TIME + 1)
               /\ r.nonce \in Nat /\ r.nonce <= wallet'.nonce
    <3>1. Waiting /\ r = Cancellation
      BY <1>1, <2>2
    <3>2. wallet.nonce \in Nat
      BY <3>1, WaitingType DEF WatchInv
    <3> QED
      BY <1>1, <1>3, <3>1, <3>2 DEF Cancellation, CancellationOf
  <2> QED
    BY <2>1, <2>2 DEF FlightInv
<1>5. FreshInv'
  <2>1. SUFFICES ASSUME Waiting PROVE FreshInv'
    BY <1>3 DEF FreshInv
  <2> DEFINE p == wallet.rotation.proposed_at
  <2>2. p \in Nat /\ since <= p + DELIVERY_TIME
    BY <1>1, <2>1, WaitingType DEF WatchInv, FreshInv
  <2>3. sent' = {Cancellation} /\ Cancellation.nonce = wallet.nonce
    BY <1>1, <2>1 DEF Cancellation, CancellationOf
  <2>4. wallet'.rotation.proposed_at = p
    BY <1>1
  <2> HIDE DEF p
  <2>5. since' <= p + DELIVERY_TIME + WATCH_PERIOD
    BY <1>1, <1>2, <2>2
  <2> QED
    BY <1>1, <2>3, <2>4, <2>5 DEF FreshInv
<1> QED
  BY <1>4, <1>5

LEMMA CancelsInv ==
  ASSUME WatchInv, Cancels
  PROVE  FlightInv' /\ FreshInv'
<1>1. PICK r \in sent \intersect Requests, relayer \in Relayers :
        CancelRotation(wallet.active_key, r, relayer, 0)
  BY DEF Cancels
<1>2. sent' = {} /\ since' = now /\ now' = now
  BY <1>1 DEF Cancels, CancelRotation, CanCancel, Cancelled, VaultRefunds
<1> DEFINE a == Advanced(wallet, wallet.active_key)
<1>3. wallet.active_key \in Keys
  BY <1>1, WaitingType DEF WatchInv, FlightInv
<1>4. a \in WalletState
  BY <1>1, <1>3, AdvancedControl DEF CancelRotation, CanCancel, Cancelled, VaultRefunds,
       InitIfNeeded, WatchInv
<1>5. wallet' = [a EXCEPT !.rotation = EMPTY_ROTATION]
  BY <1>1 DEF CancelRotation, CanCancel, Cancelled, VaultRefunds
<1> HIDE DEF a
<1>6. ~Waiting'
  BY <1>4, <1>5 DEF Waiting, WalletState, EMPTY_ROTATION
<1>7. now \in Nat /\ now <= now + WATCH_PERIOD
  BY WaitingType, WatchAssumption DEF WatchInv
<1> QED
  BY <1>2, <1>6, <1>7 DEF FlightInv, FreshInv, Deadline

LEMMA RefusedInv ==
  ASSUME WatchInv, Refused
  PROVE  FlightInv' /\ FreshInv'
<1>1. /\ sent' = {} /\ since' = now /\ now' = now /\ wallet' = wallet
  BY DEF Refused, vars
<1>2. PICK r \in sent : ~IsLive(r)
  BY DEF Refused, WasVoided
<1> DEFINE p == wallet.rotation.proposed_at
<1>3. /\ now \in Nat /\ since \in Nat /\ p \in Nat
      /\ WATCH_PERIOD \in Nat /\ DELIVERY_TIME \in Nat
      /\ now <= since + DELIVERY_TIME
      /\ Waiting
  BY <1>2, WaitingType, WatchAssumption DEF WatchInv, FlightInv, Deadline
<1>4. r.wallet_id = Id /\ r.expires_at > now
  <2>1. r.wallet_id = Id /\ r.expires_at = since + DELIVERY_TIME + 1
    BY <1>2 DEF WatchInv, FlightInv, CancellationOf
  <2> QED
    BY <1>3, <2>1
<1>5. r.nonce # wallet.nonce
  BY <1>2, <1>3, <1>4 DEF IsLive, CurrentNonce, Waiting
<1>6. since <= p
  BY <1>2, <1>3, <1>5 DEF WatchInv, FreshInv
<1> HIDE DEF p
<1>7. now <= p + DELIVERY_TIME /\ now <= now + WATCH_PERIOD
  BY <1>3, <1>6
<1>8. FlightInv'
  BY <1>1, <1>3, <1>7 DEF FlightInv, Deadline
<1>9. FreshInv'
  BY <1>1, <1>7 DEF FreshInv, p
<1> QED
  BY <1>8, <1>9

LEMMA PassesInv ==
  ASSUME WatchInv, Passes
  PROVE  FlightInv' /\ FreshInv'
<1>1. /\ sent' = sent /\ since' = since /\ now' = now + 1 /\ wallet' = wallet
      /\ now < Deadline
  BY DEF Passes, Tick
<1>2. now \in Nat /\ since \in Nat /\ Deadline \in Nat
  BY WaitingType, WatchAssumption DEF WatchInv, FlightInv, Deadline
<1>3. Waiting' = Waiting /\ Deadline' = Deadline
  BY <1>1 DEF Waiting, Exists, Deadline
<1>4. since' <= now' /\ now' <= Deadline'
  BY <1>1, <1>2, <1>3 DEF WatchInv, FlightInv
<1>5. FlightInv'
  BY <1>1, <1>3, <1>4 DEF WatchInv, FlightInv
<1>6. FreshInv'
  BY <1>1, <1>3 DEF WatchInv, FreshInv
<1> QED
  BY <1>5, <1>6

\* What others do leaves the owner's clock alone; a proposal of theirs is of
\* this very second when it voids what is in flight.
LEMMA OthersInv ==
  ASSUME WatchInv, Others
  PROVE  FlightInv' /\ FreshInv'
<1>0. /\ sent' = sent /\ since' = since
      /\ now \in Nat /\ since \in Nat /\ since <= now /\ now <= Deadline
      /\ DELIVERY_TIME \in Nat /\ WATCH_PERIOD \in Nat
  BY WaitingType, WatchAssumption DEF Others, WatchInv, FlightInv
<1>1. CASE UNCHANGED <<wallet, now>>
  <2>1. Waiting' = Waiting /\ Deadline' = Deadline
    BY <1>0, <1>1 DEF Waiting, Exists, Deadline
  <2> QED
    BY <1>0, <1>1, <2>1 DEF WatchInv, FlightInv, FreshInv
<1>2. CASE ConfirmRotation
  <2>1. Waiting /\ now >= OpensAt(wallet.rotation)
    BY <1>2 DEF ConfirmRotation, Waiting, Exists
  <2>2. now - wallet.rotation.proposed_at >= ROTATION_DELAY
    BY <2>1, WindowOfPending, ParametersAssumption DEF Waiting, WatchInv
  <2> QED
    BY <2>1, <2>2, WindowStaysShut, WaitingType, ParametersAssumption DEF WatchInv
<1>3. ASSUME NEW signer \in Keys, NEW r \in Requests, NEW relayer \in Relayers,
             NEW asked \in RelayerFees, Execute(signer, r, relayer, asked),
             Waiting => signer # wallet.active_key
      PROVE  FlightInv' /\ FreshInv'
  <2>1. now' = now /\ Deadline' = Deadline
    BY <1>0, <1>3 DEF Execute, TransferSol, CanTransfer, VaultPays, SweepVault,
         SetGuardians, ProposeRotation, CancelRotation, CanCancel, Cancelled,
         VaultRefunds, CloseWallet, CanClose, CloseAmount, Closed, Deadline
  <2>2. CASE Waiting
    <3>1. /\ Waiting' /\ wallet'.rotation.proposed_at = now
          /\ wallet'.nonce = wallet.nonce + 1 /\ wallet.nonce \in Nat
      BY <1>3, <2>2, OthersOnlyPropose, WaitingType DEF WatchInv
    <3>2. \A q \in sent : q.nonce \in Nat /\ q.nonce <= wallet.nonce
      BY DEF WatchInv, FlightInv
    <3>3. \A q \in sent' : q.nonce # wallet'.nonce /\ q.nonce <= wallet'.nonce
      BY <1>0, <3>1, <3>2
    <3>4. FlightInv'
      BY <1>0, <2>1, <3>1, <3>3 DEF WatchInv, FlightInv
    <3>5. since <= now + DELIVERY_TIME
      BY <1>0
    <3>6. FreshInv'
      BY <1>0, <3>1, <3>3, <3>5 DEF FreshInv
    <3> QED
      BY <3>4, <3>6
  <2>3. CASE ~Waiting
    <3>1. sent' = {}
      BY <1>0, <2>3 DEF WatchInv, FlightInv
    <3>2. Waiting' => wallet'.rotation.proposed_at = now
      <4>1. Waiting' => Exists
        BY <1>3, CreationIdle DEF WatchInv
      <4>2. Next
        BY <1>3 DEF Next
      <4>3. ProposalStepKeepsTimelock
        BY <4>2, NextControl DEF WatchInv
      <4>4. Waiting' => wallet'.rotation # wallet.rotation
        BY <2>3, <4>1 DEF Waiting
      <4> QED
        BY <4>1, <4>3, <4>4 DEF ProposalStepKeepsTimelock, Waiting
    <3>3. FlightInv'
      BY <1>0, <2>1, <3>1 DEF FlightInv
    <3>4. since <= now + DELIVERY_TIME
      BY <1>0
    <3>5. FreshInv'
      BY <1>0, <3>1, <3>2, <3>4 DEF FreshInv
    <3> QED
      BY <3>3, <3>5
  <2> QED
    BY <2>2, <2>3
<1> QED
  BY <1>1, <1>2, <1>3 DEF Others, Deposit

LEMMA WatchInitInv == WatchInit => WatchInv
<1> SUFFICES ASSUME WatchInit PROVE WatchInv
  OBVIOUS
<1>1. IInv
  BY InitInv DEF WatchInit
<1>4. RentInv
  BY InitRent DEF WatchInit
<1>2. now \in Nat /\ sent = {} /\ since = now /\ ~Waiting
  BY DEF WatchInit, Init, Waiting, Exists
<1>3. now <= now + WATCH_PERIOD
  BY <1>2, WatchAssumption
<1> QED
  BY <1>1, <1>2, <1>3, <1>4 DEF WatchInv, FlightInv, FreshInv, Deadline

LEMMA WatchNextInv == WatchInv /\ [WatchNext]_watchVars => WatchInv'
<1> SUFFICES ASSUME WatchInv, [WatchNext]_watchVars PROVE WatchInv'
  OBVIOUS
<1>1. IInv' /\ RentInv'
  BY WatchIsNext, NextInv, NextRent DEF WatchInv
<1>2. CASE UNCHANGED watchVars
  <2>1. Waiting' = Waiting /\ Deadline' = Deadline
    BY <1>2 DEF watchVars, vars, Waiting, Exists, Deadline
  <2>2. FlightInv' /\ FreshInv'
    BY <1>2, <2>1 DEF watchVars, vars, WatchInv, FlightInv, FreshInv
  <2> QED
    BY <1>1, <2>2 DEF WatchInv
<1>3. CASE WatchNext
  <2>1. FlightInv' /\ FreshInv'
    BY <1>3, LookInv, CancelsInv, RefusedInv, OthersInv, PassesInv DEF WatchNext
  <2> QED
    BY <1>1, <2>1 DEF WatchInv
<1> QED
  BY <1>2, <1>3

\* The inductive invariant holds in every state of the protocol.
LEMMA WatchInductive == WatchSpec => []WatchInv
  BY WatchInitInv, WatchNextInv, PTL DEF WatchSpec

\* An owner that looks and cancels in time is never moved from its wallet by a
\* guardian: the timelock of propose_rotation and confirm_rotation does what it
\* is for, in spite of the nonce they share with cancel_rotation.
THEOREM WatchingKeepsControl == WatchSpec => OwnerKeepsControl
<1>2. WatchInv /\ [WatchNext]_watchVars => [OwnerStepKeepsControl]_watchVars
  <2> SUFFICES ASSUME WatchInv, [WatchNext]_watchVars PROVE OwnerStepKeepsControl
    OBVIOUS
  <2>1. ControlStepApproved
    BY WatchIsNext, NextControl DEF WatchInv
  <2>2. wallet.rotation.pending /\ Exists =>
          now - wallet.rotation.proposed_at \notin
            ROTATION_DELAY .. ROTATION_DELAY + ROTATION_WINDOW
    BY WindowStaysShut, WaitingType, ParametersAssumption DEF Waiting, WatchInv
  <2> QED
    BY <2>1, <2>2 DEF ControlStepApproved, KeyChangeApproved, OwnerStepKeepsControl
<1> QED
  BY <1>2, WatchInductive, PTL DEF WatchSpec, OwnerKeepsControl

\* What is in flight at its deadline is for the nonce of now, and then nothing
\* stands against it, or for an earlier one.
LEMMA DeadlineMet == WatchInv => DeadlinesCanBeMet
<1> SUFFICES ASSUME WatchInv, now = Deadline, Waiting => wallet.nonce < U64Max,
                    NEW r \in sent, ~WasVoided
             PROVE  CanBeCarried
  BY DEF DeadlinesCanBeMet
<1>1. /\ Waiting /\ wallet.nonce < U64Max /\ IsLive(r)
      /\ r = CancellationOf(r.nonce, since + DELIVERY_TIME + 1)
  BY DEF WasVoided, WatchInv, FlightInv
<1>2. r.nonce = wallet.nonce
  BY <1>1 DEF IsLive, CurrentNonce, Waiting
<1>3. wallet.nonce \in 0 .. U64Max /\ wallet.active_key \in Keys
  BY <1>1, WaitingType DEF WatchInv, IInv, TypeOK, WalletState, Waiting, Exists
<1>4. since + DELIVERY_TIME + 1 \in 1 .. MaxTime + DELIVERY_TIME + 1
  <2>1. since \in Nat /\ since <= now
    BY DEF WatchInv, FlightInv
  <2>2. now \in 0 .. MaxTime
    BY DEF WatchInv, IInv, TypeOK
  <2>3. MaxTime \in Nat /\ DELIVERY_TIME \in Nat
    BY WatchAssumption, ParametersAssumption
  <2> QED
    BY <2>1, <2>2, <2>3
<1>5. /\ r \in Requests
      /\ [key |-> wallet.active_key, program |-> ProgramId, request |-> r] \in Signatures
  BY <1>1, <1>2, <1>3, <1>4, OwnerAssumption
<1>6. r \in OwnerApprovals({"CancelRotation"})
  <2>1. r.action.kind = "CancelRotation"
    BY <1>1 DEF CancellationOf
  <2> DEFINE s == [key |-> wallet.active_key, program |-> ProgramId, request |-> r]
  <2>2. /\ s \in Signatures /\ s.key \in OwnerKeys /\ s.program = ProgramId
        /\ s.request = r /\ IsLive(s.request)
    BY <1>1, <1>5 DEF OwnerKeys, Waiting
  <2> HIDE DEF s
  <2>3. r \in LiveApprovals(OwnerKeys)
    BY <2>2 DEF LiveApprovals
  <2> QED
    BY <2>1, <2>3 DEF OwnerApprovals
<1>7. PICK relayer \in Relayers : TRUE
  BY OwnerAssumption
<1>8. CanCancel(wallet.active_key, r, relayer, 0)
  BY <1>1, <1>5, <1>6, CancelNeverBlocked DEF OwnerCanCancel, Waiting, WatchInv
<1> QED
  BY <1>5, <1>8 DEF CanBeCarried

\* The owner's part of the bargain is one it can keep: time never stops at a
\* deadline that neither a relayer nor a look can meet (cancel_rotation.rs,
\* refund_relayer).
THEOREM WatchingIsPossible == WatchSpec => []DeadlinesCanBeMet
  BY WatchInductive, DeadlineMet, PTL
=============================================================================
