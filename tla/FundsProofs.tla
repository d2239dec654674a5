---------------------------- MODULE FundsProofs ----------------------------
(***************************************************************************)
(* Nobody spends from the vault without a signature, for every balance,    *)
(* rent, fee and set of signatures.                                        *)
(***************************************************************************)
EXTENDS SmartWalletProofs

LEMMA MoveValues ==
  ASSUME NEW l \in [Accounts -> Nat], NEW from \in Accounts, NEW to \in Accounts,
         NEW n \in Nat, l[from] >= n
  PROVE  LET m == Move(l, from, to, n)
         IN  /\ from # to => m[from] = l[from] - n /\ m[to] = l[to] + n
             /\ from = to => m[from] = l[from]
             /\ \A a \in Accounts \ {from, to} : m[a] = l[a]
<1> DEFINE debited == [l EXCEPT ![from] = @ - n]
<1>1. /\ debited \in [Accounts -> Nat]
      /\ debited[from] = l[from] - n
      /\ \A a \in Accounts \ {from} : debited[a] = l[a]
  OBVIOUS
<1>2. Move(l, from, to, n) = [debited EXCEPT ![to] = @ + n]
  BY DEF Move
<1> HIDE DEF debited
<1> QED
  BY <1>1, <1>2

\* What the two payments take from the vault, and what they bring to a
\* destination that is neither the vault nor the relayer.
LEMMA PaidValues ==
  ASSUME NEW l \in [Accounts -> Nat], NEW to \in Accounts, NEW relayer \in Relayers,
         NEW amount, NEW refund \in Nat, CanPay(l, to, amount, refund)
  PROVE  LET p == Paid(l, to, amount, relayer, refund)
         IN  /\ amount \in Nat
             /\ p \in [Accounts -> Nat]
             /\ l[Vault] - p[Vault] <= amount + refund
             /\ to # Vault => p[Vault] = l[Vault] - amount - refund
             /\ to = Vault => p[Vault] = l[Vault] - refund
             /\ to \notin {Vault, relayer} => p[to] = l[to] + amount
<1> DEFINE m == Move(l, Vault, to, amount)
<1> DEFINE p == Move(m, Vault, relayer, refund)
<1>0. Vault \in Accounts /\ relayer \in Accounts /\ relayer # Vault
  BY AccountsAssumption DEF Accounts
<1>1. amount \in Nat /\ l[Vault] >= amount
  BY <1>0 DEF CanPay
<1>2. /\ m \in [Accounts -> Nat] /\ m[Vault] >= refund
      /\ Vault # to => m[Vault] = l[Vault] - amount /\ m[to] = l[to] + amount
      /\ Vault = to => m[Vault] = l[Vault]
  BY <1>0, <1>1, MoveType, MoveValues DEF CanPay
<1> HIDE DEF m
<1>3. /\ p \in [Accounts -> Nat]
      /\ p[Vault] = m[Vault] - refund
      /\ \A a \in Accounts \ {Vault, relayer} : p[a] = m[a]
  BY <1>0, <1>2, MoveType, MoveValues
<1>4. p = Paid(l, to, amount, relayer, refund)
  BY DEF Paid, m
<1> HIDE DEF p
<1>5. l[Vault] \in Nat /\ m[Vault] \in Nat /\ l[to] \in Nat
  BY <1>0, <1>2
<1>6. l[Vault] - p[Vault] <= amount + refund
  BY <1>1, <1>2, <1>3, <1>5
<1> QED
  BY <1>1, <1>2, <1>3, <1>4, <1>5, <1>6

\* init_if_needed moves the relayer's lamports, and only the state's with them.
LEMMA AfterInitValues ==
  ASSUME IInv, NEW relayer \in Relayers, lamports[relayer] >= RentAdvance
  PROVE  /\ AfterInit(relayer) \in [Accounts -> Nat]
         /\ \A a \in Accounts \ ({State} \union Relayers) :
              AfterInit(relayer)[a] = lamports[a]
<1>1. relayer \in Accounts /\ State \in Accounts
  BY DEF Accounts
<1>2. lamports \in [Accounts -> Nat]
  BY DEF IInv, TypeOK
<1>3. RentAdvance \in Nat
  BY <1>1, <1>2, ParametersAssumption DEF RentAdvance
<1> QED
  BY <1>1, <1>2, <1>3, AfterInitType, MoveValues DEF AfterInit

\* An approved payout within its outlay and its cap.
LEMMA PayoutApproved ==
  ASSUME IInv, lamports' \in [Accounts -> Nat],
         NEW q \in LiveApprovals(OwnerKeys) \union GuardianProposals,
         Reported(q),
         NEW amount \in Nat, NEW refund \in Nat, q.max_relayer_fee \in Nat,
         Outlay(q) \in Nat, amount <= Outlay(q), refund <= q.max_relayer_fee,
         VaultDrop <= amount + refund,
         PlainDestination(q) =>
           VaultDrop - (lamports'[q.action.to] - lamports[q.action.to]) <= refund
  PROVE  VaultStepApproved
<1>1. lamports[Vault] \in Nat /\ lamports'[Vault] \in Nat
  BY DEF IInv, TypeOK, Accounts
<1>2. VaultDrop \in Int
  BY <1>1 DEF VaultDrop
<1>3. VaultDrop <= Outlay(q) + q.max_relayer_fee
  BY <1>2
<1>4. PlainDestination(q) =>
        VaultDrop - (lamports'[q.action.to] - lamports[q.action.to]) <= q.max_relayer_fee
  <2>1. SUFFICES ASSUME PlainDestination(q)
                 PROVE  VaultDrop - (lamports'[q.action.to] - lamports[q.action.to])
                          <= q.max_relayer_fee
    OBVIOUS
  <2>2. lamports[q.action.to] \in Nat /\ lamports'[q.action.to] \in Nat
    BY <2>1 DEF PlainDestination, IInv, TypeOK
  <2> QED
    BY <1>2, <2>1, <2>2
<1> QED
  BY <1>3, <1>4 DEF VaultStepApproved

\* The owner's live approval behind an authorized instruction, with its outlay.
LEMMA OwnerOutlay ==
  ASSUME IInv, NEW signer \in Keys, NEW r \in Requests,
         Authorized(InitIfNeeded, signer, r), RequireActiveKey(InitIfNeeded, signer)
  PROVE  \E q \in LiveApprovals(OwnerKeys) :
           q.action = r.action /\ q.max_relayer_fee = r.max_relayer_fee
<1>1. \E q \in OwnerApprovals({r.action.kind}) :
        q.action = r.action /\ q.max_relayer_fee = r.max_relayer_fee
  BY OwnerApproved
<1> QED
  BY <1>1 DEF OwnerApprovals

LEMMA TransferSolSpends ==
  ASSUME IInv, IInv', NEW signer \in Keys, NEW r \in Requests, NEW relayer \in Relayers,
         NEW asked \in RelayerFees, TransferSol(signer, r, relayer, asked)
  PROVE  VaultStepApproved
<1> DEFINE l == AfterInit(relayer)
<1> DEFINE amount == r.action.lamports
<1> DEFINE refund == Refund(r, asked)
<1>1. PICK q \in LiveApprovals(OwnerKeys) :
        q.action = r.action /\ q.max_relayer_fee = r.max_relayer_fee
  BY OwnerOutlay DEF TransferSol, CanTransfer, VaultPays
<1>2. /\ r.action.kind = "TransferSol"
      /\ CanPay(l, r.action.to, amount, refund)
      /\ lamports' = Paid(l, r.action.to, amount, relayer, refund)
      /\ lamports[relayer] >= RentAdvance
  BY DEF TransferSol, CanTransfer, VaultPays
<1>3. /\ refund \in Nat /\ refund <= r.max_relayer_fee /\ r.max_relayer_fee \in Nat
      /\ r.action.to \in Accounts
  BY <1>2, RefundBounds, RequestType, ActionType
<1>4. /\ l \in [Accounts -> Nat]
      /\ \A a \in Accounts \ ({State} \union Relayers) : l[a] = lamports[a]
  BY <1>2, AfterInitValues
<1>5. Vault \in Accounts \ ({State} \union Relayers) /\ l[Vault] = lamports[Vault]
  BY <1>4, AccountsAssumption DEF Accounts
<1> HIDE DEF l
<1>6. /\ amount \in Nat /\ lamports' \in [Accounts -> Nat]
      /\ VaultDrop <= amount + refund
      /\ r.action.to \notin {Vault, relayer} =>
           VaultDrop = amount + refund /\ lamports'[r.action.to] = l[r.action.to] + amount
  BY <1>2, <1>3, <1>4, <1>5, PaidValues DEF VaultDrop
<1>7. Outlay(q) = amount
  BY <1>1, <1>2 DEF Outlay
<1>8. PlainDestination(q) =>
        VaultDrop - (lamports'[q.action.to] - lamports[q.action.to]) <= refund
  BY <1>1, <1>3, <1>4, <1>6 DEF PlainDestination
<1>9. Reported(q)
  <2>1. \E i \in DOMAIN emitted' : emitted'[i] = Payout("SolTransferred", r, amount, refund)
    BY EmitReports DEF TransferSol, CanTransfer, VaultPays
  <2> QED
    BY <1>1, <1>2, <2>1 DEF Payout, Reported, EventTypes
<1> HIDE DEF refund, amount
<1> QED
  BY <1>1, <1>3, <1>6, <1>7, <1>8, <1>9, PayoutApproved

LEMMA SweepVaultSpends ==
  ASSUME IInv, IInv', NEW signer \in Keys, NEW r \in Requests, NEW relayer \in Relayers,
         NEW asked \in RelayerFees, SweepVault(signer, r, relayer, asked)
  PROVE  VaultStepApproved
<1> DEFINE l == AfterInit(relayer)
<1> DEFINE refund == Refund(r, asked)
<1> DEFINE amount == l[Vault] - refund
<1>1. PICK q \in LiveApprovals(OwnerKeys) :
        q.action = r.action /\ q.max_relayer_fee = r.max_relayer_fee
  BY OwnerOutlay DEF SweepVault
<1>2. /\ r.action.kind = "SweepVault"
      /\ CanPay(l, r.action.to, amount, refund)
      /\ lamports' = Paid(l, r.action.to, amount, relayer, refund)
      /\ lamports[relayer] >= RentAdvance
  BY DEF SweepVault, VaultPays
<1>3. /\ refund \in Nat /\ refund <= r.max_relayer_fee /\ r.max_relayer_fee \in Nat
      /\ r.action.to \in Accounts
  BY <1>2, RefundBounds, RequestType, ActionType
<1>4. /\ l \in [Accounts -> Nat]
      /\ \A a \in Accounts \ ({State} \union Relayers) : l[a] = lamports[a]
  BY <1>2, AfterInitValues
<1>5. Vault \in Accounts \ ({State} \union Relayers) /\ l[Vault] = lamports[Vault]
  BY <1>4, AccountsAssumption DEF Accounts
<1> HIDE DEF l
<1>6. /\ amount \in Nat /\ lamports' \in [Accounts -> Nat]
      /\ VaultDrop <= amount + refund
      /\ r.action.to \notin {Vault, relayer} =>
           VaultDrop = amount + refund /\ lamports'[r.action.to] = l[r.action.to] + amount
  BY <1>2, <1>3, <1>4, <1>5, PaidValues DEF VaultDrop
<1>7. Outlay(q) = lamports[Vault] /\ Outlay(q) \in Nat /\ amount <= Outlay(q)
  <2>1. Outlay(q) = lamports[Vault]
    BY <1>1, <1>2 DEF Outlay
  <2> QED
    BY <1>3, <1>5, <2>1 DEF IInv, TypeOK
<1>8. PlainDestination(q) =>
        VaultDrop - (lamports'[q.action.to] - lamports[q.action.to]) <= refund
  BY <1>1, <1>3, <1>4, <1>6 DEF PlainDestination
<1>9. Reported(q)
  <2>1. \E i \in DOMAIN emitted' : emitted'[i] = Payout("VaultSwept", r, amount, refund)
    BY EmitReports DEF SweepVault, l
  <2> QED
    BY <1>1, <1>2, <2>1 DEF Payout, Reported, EventTypes
<1> HIDE DEF refund, amount
<1> QED
  BY <1>1, <1>3, <1>6, <1>7, <1>8, <1>9, PayoutApproved

LEMMA CloseWalletSpends ==
  ASSUME IInv, IInv', NEW signer \in Keys, NEW r \in Requests, NEW relayer \in Relayers,
         NEW asked \in RelayerFees, CloseWallet(signer, r, relayer, asked)
  PROVE  VaultStepApproved
<1> DEFINE refund == CloseRefund(r, asked)
<1> DEFINE amount == lamports[Vault] - refund
<1> DEFINE p == Paid(lamports, r.action.to, amount, relayer, refund)
<1>0. InitIfNeeded = wallet /\ Authorized(wallet, signer, r) /\ RequireActiveKey(wallet, signer)
  BY DEF CloseWallet, CanClose, CloseAmount, Closed, InitIfNeeded
<1>1. PICK q \in LiveApprovals(OwnerKeys) :
        q.action = r.action /\ q.max_relayer_fee = r.max_relayer_fee
  BY <1>0, OwnerOutlay
<1>2. /\ r.action.kind = "CloseWallet"
      /\ CanPay(lamports, r.action.to, amount, refund)
      /\ lamports' = Move(p, State, relayer, p[State])
  BY DEF CloseWallet, CanClose, CloseAmount, Closed
<1>3. lamports \in [Accounts -> Nat] /\ Vault \in Accounts /\ State \in Accounts
  BY DEF IInv, TypeOK, Accounts
<1>4. /\ refund \in Nat /\ refund <= r.max_relayer_fee /\ r.max_relayer_fee \in Nat
      /\ r.action.to \in Accounts
  BY <1>2, <1>3, RefundBounds, RequestType, ActionType DEF CloseRefund, Lesser
<1>5. /\ amount \in Nat /\ p \in [Accounts -> Nat]
      /\ lamports[Vault] - p[Vault] <= amount + refund
      /\ r.action.to \notin {Vault, relayer} =>
           /\ lamports[Vault] - p[Vault] = amount + refund
           /\ p[r.action.to] = lamports[r.action.to] + amount
  BY <1>2, <1>3, <1>4, PaidValues
<1> HIDE DEF p
<1>6. /\ lamports' \in [Accounts -> Nat]
      /\ \A a \in Accounts \ {State, relayer} : lamports'[a] = p[a]
  <2>1. relayer \in Accounts
    BY DEF Accounts
  <2>2. p[State] \in Nat /\ p[State] >= p[State]
    BY <1>3, <1>5
  <2>3. lamports' \in [Accounts -> Nat]
    BY <1>2, <1>3, <1>5, <2>1, <2>2, MoveType
  <2>4. \A a \in Accounts \ {State, relayer} : lamports'[a] = p[a]
    BY <1>2, <1>3, <1>5, <2>1, <2>2, MoveValues
  <2> QED
    BY <2>3, <2>4
<1>7. lamports'[Vault] = p[Vault]
  BY <1>3, <1>6, AccountsAssumption
<1>8. VaultDrop <= amount + refund
  BY <1>5, <1>7 DEF VaultDrop
<1>9. Outlay(q) = lamports[Vault] /\ Outlay(q) \in Nat /\ amount <= Outlay(q)
  <2>1. Outlay(q) = lamports[Vault]
    BY <1>1, <1>2 DEF Outlay
  <2> QED
    BY <1>3, <1>4, <2>1
<1>10. PlainDestination(q) =>
         VaultDrop - (lamports'[q.action.to] - lamports[q.action.to]) <= refund
  BY <1>1, <1>3, <1>4, <1>5, <1>6, <1>7 DEF PlainDestination, VaultDrop
<1>11. Reported(q)
  <2>1. emitted' = <<Payout("WalletClosed", r, amount, refund)>>
    BY DEF CloseWallet, CanClose, CloseAmount, Closed
  <2>2. 1 \in DOMAIN emitted' /\ emitted'[1] = Payout("WalletClosed", r, amount, refund)
    BY <2>1
  <2> QED
    BY <1>1, <1>2, <2>2 DEF Payout, Reported, EventTypes
<1> HIDE DEF refund, amount
<1> QED
  BY <1>1, <1>4, <1>5, <1>6, <1>8, <1>9, <1>10, <1>11, PayoutApproved

\* An instruction that only refunds its relayer.
LEMMA RefundSpends ==
  ASSUME IInv, NEW r \in Requests, NEW relayer \in Relayers, NEW asked \in RelayerFees,
         NEW l \in [Accounts -> Nat], l[Vault] = lamports[Vault],
         VaultRefunds(l, relayer, Refund(r, asked)),
         NEW q \in LiveApprovals(OwnerKeys) \union GuardianProposals,
         q.action = r.action, q.max_relayer_fee = r.max_relayer_fee, Reported(r),
         r.action.kind \in RefundOnly
  PROVE  VaultStepApproved /\ RefundStepApproved
<1> DEFINE refund == Refund(r, asked)
<1>1. /\ refund \in Nat /\ refund <= q.max_relayer_fee /\ q.max_relayer_fee \in Nat
      /\ l[Vault] >= refund /\ lamports' = Move(l, Vault, relayer, refund)
  BY RefundBounds, RequestType DEF VaultRefunds
<1>2. Vault \in Accounts /\ relayer \in Accounts /\ Vault # relayer
  BY AccountsAssumption DEF Accounts
<1> HIDE DEF refund
<1>3. lamports' \in [Accounts -> Nat] /\ lamports'[Vault] = lamports[Vault] - refund
  BY <1>1, <1>2, MoveType, MoveValues
<1>4. VaultDrop = refund
  BY <1>1, <1>2, <1>3 DEF VaultDrop
<1>5. Outlay(q) = 0 /\ ~PlainDestination(q) /\ Reported(q)
  BY DEF Outlay, PlainDestination, Reported, RefundOnly
<1>6. RefundStepApproved
  BY <1>1, <1>4, <1>5 DEF RefundStepApproved
<1> QED
  BY <1>1, <1>3, <1>4, <1>5, <1>6, PayoutApproved

LEMMA SetGuardiansSpends ==
  ASSUME IInv, NEW signer \in Keys, NEW r \in Requests, NEW relayer \in Relayers,
         NEW asked \in RelayerFees, SetGuardians(signer, r, relayer, asked)
  PROVE  VaultStepApproved /\ RefundStepApproved
<1>1. \E q \in LiveApprovals(OwnerKeys) :
        q.action = r.action /\ q.max_relayer_fee = r.max_relayer_fee
  BY OwnerOutlay DEF SetGuardians
<1>2. /\ AfterInit(relayer) \in [Accounts -> Nat]
      /\ AfterInit(relayer)[Vault] = lamports[Vault]
      /\ r.action.kind = "SetGuardians"
      /\ VaultRefunds(AfterInit(relayer), relayer, Refund(r, asked))
  BY AfterInitValues, AccountsAssumption DEF SetGuardians, Accounts
<1>3. Reported(r)
  <2>1. \E i \in DOMAIN emitted' :
          emitted'[i] = [type |-> "GuardiansSet", guardians |-> r.action.guardians]
    BY EmitReports DEF SetGuardians
  <2> QED
    BY <1>2, <2>1 DEF Reported, EventTypes, Payouts
<1> QED
  BY <1>1, <1>2, <1>3, RefundSpends DEF RefundOnly

LEMMA ProposeRotationSpends ==
  ASSUME IInv, NEW signer \in Keys, NEW r \in Requests, NEW relayer \in Relayers,
         NEW asked \in RelayerFees, ProposeRotation(signer, r, relayer, asked)
  PROVE  VaultStepApproved /\ RefundStepApproved
<1>1. /\ Exists /\ InitIfNeeded = wallet /\ Authorized(wallet, signer, r)
      /\ r.action.kind = "ProposeRotation"
      /\ VaultRefunds(lamports, relayer, Refund(r, asked))
      /\ lamports \in [Accounts -> Nat]
  BY DEF ProposeRotation, Exists, InitIfNeeded, IInv, TypeOK
<1>2. PICK q \in LiveApprovals({signer}) :
        q.action = r.action /\ q.max_relayer_fee = r.max_relayer_fee
  BY <1>1, SignerApproved
<1>0. Reported(r)
  <2>1. \E e : /\ emitted' = <<e>>
                /\ e.type \in {"RotationProposed", "KeyRotated"}
    BY DEF ProposeRotation, Rotate, Propose, KeyRotated
  <2>2. 1 \in DOMAIN emitted' /\ emitted'[1].type \in {"RotationProposed", "KeyRotated"}
    BY <2>1
  <2> QED
    BY <1>1, <2>2 DEF Reported, EventTypes, Payouts
<1>3. CASE signer = wallet.active_key
  <2>1. q \in LiveApprovals(OwnerKeys)
    BY <1>1, <1>2, <1>3 DEF LiveApprovals, OwnerKeys
  <2> QED
    BY <1>0, <1>1, <1>2, <2>1, RefundSpends DEF RefundOnly
<1>4. CASE signer # wallet.active_key
  <2>1. GuardianSlotsOf(Advanced(wallet, signer), signer) # {}
    BY <1>4 DEF ProposeRotation, Propose
  <2>2. signer \in GuardianKeys
    BY <1>1, <2>1, AdvancedControl DEF GuardianKeys, GuardianSlotsOf
  <2>3. q \in GuardianProposals
    BY <1>1, <1>2, <2>2 DEF LiveApprovals, GuardianProposals
  <2> QED
    BY <1>0, <1>1, <1>2, <2>3, RefundSpends DEF RefundOnly
<1> QED
  BY <1>3, <1>4

LEMMA CancelRotationSpends ==
  ASSUME IInv, NEW signer \in Keys, NEW r \in Requests, NEW relayer \in Relayers,
         NEW asked \in RelayerFees, CancelRotation(signer, r, relayer, asked)
  PROVE  VaultStepApproved /\ RefundStepApproved
<1>1. /\ InitIfNeeded = wallet /\ Authorized(wallet, signer, r)
      /\ RequireActiveKey(wallet, signer) /\ r.action.kind = "CancelRotation"
      /\ VaultRefunds(lamports, relayer, Refund(r, asked))
      /\ lamports \in [Accounts -> Nat]
  BY DEF CancelRotation, CanCancel, Cancelled, VaultRefunds, InitIfNeeded, IInv, TypeOK
<1>2. \E q \in LiveApprovals(OwnerKeys) :
        q.action = r.action /\ q.max_relayer_fee = r.max_relayer_fee
  BY <1>1, OwnerOutlay
<1>3. Reported(r)
  <2>1. 1 \in DOMAIN emitted' /\ emitted'[1].type = "RotationCancelled"
    BY DEF CancelRotation, CanCancel, Cancelled, VaultRefunds
  <2> QED
    BY <1>1, <2>1 DEF Reported, EventTypes, Payouts
<1> QED
  BY <1>1, <1>2, <1>3, RefundSpends DEF RefundOnly

\* Nobody takes from the vault without signing.
LEMMA UnsignedSpendsNothing ==
  ASSUME IInv, Unsigned \/ UNCHANGED vars
  PROVE  ~(VaultDrop > 0)
<1>0. lamports \in [Accounts -> Nat] /\ Vault \in Accounts /\ State \in Accounts
  BY DEF IInv, TypeOK, Accounts
<1>1. CASE UNCHANGED lamports
  BY <1>0, <1>1 DEF VaultDrop
<1>2. ASSUME NEW party \in Parties, NEW to \in {Vault, State}, NEW n \in Deposits,
             Deposit(party, to, n)
      PROVE  ~(VaultDrop > 0)
  <2>1. /\ party \in Accounts /\ party # Vault /\ n \in Nat
        /\ lamports[party] >= n /\ lamports' = Move(lamports, party, to, n)
    BY <1>2, AccountsAssumption DEF Deposit, Accounts
  <2>2. lamports'[Vault] = lamports[Vault] \/ lamports'[Vault] = lamports[Vault] + n
    BY <1>0, <2>1, MoveValues
  <2> QED
    BY <1>0, <2>1, <2>2 DEF VaultDrop
<1> QED
  BY <1>1, <1>2 DEF Unsigned, ConfirmRotation, Tick, vars

LEMMA NextSpends == IInv /\ [Next]_vars => VaultStepApproved
<1> SUFFICES ASSUME IInv, [Next]_vars PROVE VaultStepApproved
  OBVIOUS
<1>1. IInv'
  BY NextInv
<1>2. ASSUME NEW signer \in Keys, NEW r \in Requests, NEW relayer \in Relayers,
             NEW asked \in RelayerFees, Execute(signer, r, relayer, asked)
      PROVE  VaultStepApproved
  BY <1>1, <1>2, TransferSolSpends, SweepVaultSpends, SetGuardiansSpends,
     ProposeRotationSpends, CancelRotationSpends, CloseWalletSpends DEF Execute
<1> QED
  BY <1>2, UnsignedSpendsNothing DEF Next, VaultStepApproved

\* Every lamport that leaves the vault was signed for: the amount to its
\* destination, the rest within max_relayer_fee (authorization.rs,
\* transfer_from_vault and refund_relayer).
THEOREM SpendsAreApproved == Spec => VaultSpendsApproved
<1>1. IInv /\ [Next]_vars => [VaultStepApproved]_vars
  BY NextSpends
<1> QED
  BY <1>1, Inductive, PTL DEF Spec, VaultSpendsApproved

-----------------------------------------------------------------------------
(* What the events say left the vault, and what a transfer leaves in it. *)

\* A signed instruction emits its own event and nothing else but WalletCreated.
LEMMA EmitOnly ==
  ASSUME NEW w, NEW signer, NEW event, Emit(w, signer, event)
  PROVE  \A i \in DOMAIN emitted' :
           emitted'[i] = event \/ emitted'[i].type = "WalletCreated"
<1>1. CASE IsNew(w)
  <2>1. emitted' = <<[type |-> "WalletCreated", key |-> signer], event>>
    BY <1>1 DEF Emit
  <2> QED
    BY <2>1
<1>2. CASE ~IsNew(w)
  <2>1. emitted' = <<event>>
    BY <1>2 DEF Emit
  <2> QED
    BY <2>1
<1> QED
  BY <1>1, <1>2

\* The vault's loss in a payout, as its event reports it.
LEMMA PayoutAccounts ==
  ASSUME lamports \in [Accounts -> Nat], NEW r \in Requests, r.action.to \in Accounts,
         NEW type, NEW l \in [Accounts -> Nat], l[Vault] = lamports[Vault],
         NEW amount, NEW refund \in Nat, NEW relayer \in Relayers,
         CanPay(l, r.action.to, amount, refund),
         lamports'[Vault] = Paid(l, r.action.to, amount, relayer, refund)[Vault],
         type \in Payouts,
         \E i \in DOMAIN emitted' : emitted'[i] = Payout(type, r, amount, refund),
         \A i \in DOMAIN emitted' :
           \/ emitted'[i] = Payout(type, r, amount, refund)
           \/ emitted'[i].type = "WalletCreated"
  PROVE  EventStepAccounts
<1> DEFINE p == Paid(l, r.action.to, amount, relayer, refund)
<1> DEFINE e == Payout(type, r, amount, refund)
<1>1. /\ amount \in Nat /\ p \in [Accounts -> Nat]
      /\ r.action.to # Vault => p[Vault] = l[Vault] - amount - refund
      /\ r.action.to = Vault => p[Vault] = l[Vault] - refund
  BY PaidValues
<1> HIDE DEF p
<1>2. p[Vault] \in Nat /\ l[Vault] \in Nat /\ lamports'[Vault] = p[Vault]
  BY <1>1 DEF Accounts, p
<1>3. e.type = type /\ e.to = r.action.to /\ e.lamports = amount /\ e.relayer_fee = refund
  BY DEF Payout
<1>4. VaultDrop = PaidOut(e)
  <2> HIDE DEF e
  <2>1. CASE r.action.to = Vault
    BY <1>1, <1>2, <1>3, <2>1 DEF VaultDrop, PaidOut
  <2>2. CASE r.action.to # Vault
    BY <1>1, <1>2, <1>3, <2>2 DEF VaultDrop, PaidOut
  <2> QED
    BY <2>1, <2>2
<1>5. \A i \in DOMAIN emitted' : emitted'[i].type \in Payouts => emitted'[i] = e
  BY DEF Payouts
<1>6. \E i \in DOMAIN emitted' : emitted'[i].type \in Payouts
  BY <1>3
<1> QED
  BY <1>4, <1>5, <1>6 DEF EventStepAccounts

\* The two payouts on a wallet that the instruction may have to make first.
LEMMA VaultPaysAccounts ==
  ASSUME IInv, NEW r \in Requests, r.action.to \in Accounts, NEW type,
         NEW relayer \in Relayers, NEW asked \in RelayerFees, NEW amount,
         NEW signer, lamports[relayer] >= RentAdvance, type \in Payouts,
         VaultPays(AfterInit(relayer), r.action.to, amount, relayer, Refund(r, asked)),
         Emit(InitIfNeeded, signer, Payout(type, r, amount, Refund(r, asked)))
  PROVE  EventStepAccounts
<1> DEFINE l == AfterInit(relayer)
<1> DEFINE refund == Refund(r, asked)
<1>1. l \in [Accounts -> Nat] /\ l[Vault] = lamports[Vault] /\ refund \in Nat
  BY AfterInitValues, RefundBounds, AccountsAssumption DEF Accounts
<1>2. /\ CanPay(l, r.action.to, amount, refund)
      /\ lamports'[Vault] = Paid(l, r.action.to, amount, relayer, refund)[Vault]
  BY DEF VaultPays
<1>3. /\ \E i \in DOMAIN emitted' : emitted'[i] = Payout(type, r, amount, refund)
      /\ \A i \in DOMAIN emitted' :
           \/ emitted'[i] = Payout(type, r, amount, refund)
           \/ emitted'[i].type = "WalletCreated"
  BY EmitOnly, EmitReports
<1>4. lamports \in [Accounts -> Nat]
  BY DEF IInv, TypeOK
<1> HIDE DEF l, refund
<1> QED
  BY <1>1, <1>2, <1>3, <1>4, PayoutAccounts

LEMMA CloseWalletAccounts ==
  ASSUME IInv, NEW signer \in Keys, NEW r \in Requests, NEW relayer \in Relayers,
         NEW asked \in RelayerFees, CloseWallet(signer, r, relayer, asked)
  PROVE  EventStepAccounts
<1> DEFINE refund == CloseRefund(r, asked)
<1> DEFINE amount == lamports[Vault] - refund
<1> DEFINE p == Paid(lamports, r.action.to, amount, relayer, refund)
<1>1. /\ r.action.kind = "CloseWallet"
      /\ CanPay(lamports, r.action.to, amount, refund)
      /\ lamports' = Move(p, State, relayer, p[State])
      /\ emitted' = <<Payout("WalletClosed", r, amount, refund)>>
  BY DEF CloseWallet, CanClose, CloseAmount, Closed
<1>2. lamports \in [Accounts -> Nat] /\ Vault \in Accounts /\ State \in Accounts
  BY DEF IInv, TypeOK, Accounts
<1>3. refund \in Nat /\ r.action.to \in Accounts
  BY <1>1, <1>2, RefundBounds, RequestType, ActionType DEF CloseRefund, Lesser
<1>4. p \in [Accounts -> Nat]
  BY <1>1, <1>2, <1>3, PaidValues
<1> HIDE DEF p
<1>5. lamports'[Vault] = p[Vault]
  <2>1. relayer \in Accounts /\ Vault \notin {State, relayer}
    BY AccountsAssumption DEF Accounts
  <2>2. p[State] \in Nat /\ p[State] >= p[State]
    BY <1>2, <1>4
  <2> QED
    BY <1>1, <1>2, <1>4, <2>1, <2>2, MoveValues
<1>6. /\ 1 \in DOMAIN emitted' /\ "WalletClosed" \in Payouts
      /\ \A i \in DOMAIN emitted' : emitted'[i] = Payout("WalletClosed", r, amount, refund)
  BY <1>1 DEF Payouts
<1> HIDE DEF refund, amount
<1> QED
  BY <1>1, <1>2, <1>3, <1>5, <1>6, PayoutAccounts DEF p

LEMMA TransferSolKeepsRent ==
  ASSUME IInv, NEW signer \in Keys, NEW r \in Requests, NEW relayer \in Relayers,
         NEW asked \in RelayerFees, TransferSol(signer, r, relayer, asked)
  PROVE  TransferStepKeepsRent
<1> DEFINE l == AfterInit(relayer)
<1> DEFINE refund == Refund(r, asked)
<1> DEFINE p == Paid(l, r.action.to, r.action.lamports, relayer, refund)
<1>1. /\ l[Vault] >= r.action.lamports + r.max_relayer_fee + VaultRent
      /\ CanPay(l, r.action.to, r.action.lamports, refund)
      /\ lamports' = p
      /\ l \in [Accounts -> Nat] /\ l[Vault] \in Nat
  BY AfterInitValues DEF TransferSol, CanTransfer, VaultPays, Required, Accounts
<1>2. /\ refund \in Nat /\ refund <= r.max_relayer_fee /\ r.max_relayer_fee \in Nat
      /\ r.action.to \in Accounts
  BY RefundBounds, RequestType, ActionType DEF TransferSol, CanTransfer, VaultPays
<1> HIDE DEF l, refund
<1>3. /\ r.action.lamports \in Nat /\ p \in [Accounts -> Nat]
      /\ l[Vault] - p[Vault] <= r.action.lamports + refund
  BY <1>1, <1>2, PaidValues
<1> HIDE DEF p
<1>4. /\ r.action.lamports \in Nat /\ p[Vault] \in Nat
      /\ l[Vault] - p[Vault] <= r.action.lamports + refund
  BY <1>3 DEF Accounts
<1>5. lamports'[Vault] >= VaultRent
  BY <1>1, <1>2, <1>4, ParametersAssumption
<1> QED
  BY <1>5 DEF TransferStepKeepsRent

\* Every other instruction's events are neither a payout nor a transfer, and
\* what it takes from the vault is a refund within its cap.
LEMMA OtherEvents ==
  ASSUME \A i \in DOMAIN emitted' : emitted'[i].type \notin Payouts,
         VaultDrop > 0 => RefundStepApproved
  PROVE  EventStepAccounts /\ TransferStepKeepsRent
BY DEF EventStepAccounts, TransferStepKeepsRent, Payouts

LEMMA ExecuteAccounts ==
  ASSUME IInv, NEW signer \in Keys, NEW r \in Requests, NEW relayer \in Relayers,
         NEW asked \in RelayerFees, Execute(signer, r, relayer, asked)
  PROVE  EventStepAccounts /\ TransferStepKeepsRent
<1>1. CASE TransferSol(signer, r, relayer, asked)
  <2>1. r.action.to \in Accounts
    BY <1>1, RequestType, ActionType DEF TransferSol, CanTransfer, VaultPays
  <2> QED
    BY <1>1, <2>1, VaultPaysAccounts, TransferSolKeepsRent
    DEF TransferSol, CanTransfer, VaultPays, Payouts
<1>2. CASE SweepVault(signer, r, relayer, asked)
  <2> DEFINE amount == AfterInit(relayer)[Vault] - Refund(r, asked)
  <2>1. /\ r.action.to \in Accounts
        /\ VaultPays(AfterInit(relayer), r.action.to, amount, relayer, Refund(r, asked))
        /\ Emit(InitIfNeeded, signer, Payout("VaultSwept", r, amount, Refund(r, asked)))
        /\ lamports[relayer] >= RentAdvance
    BY <1>2, RequestType, ActionType DEF SweepVault
  <2> HIDE DEF amount
  <2>2. TransferStepKeepsRent
    BY <2>1, EmitOnly DEF TransferStepKeepsRent, Payout
  <2> QED
    BY <2>1, <2>2, VaultPaysAccounts DEF Payouts
<1>3. CASE CloseWallet(signer, r, relayer, asked)
  <2>1. \A i \in DOMAIN emitted' : emitted'[i].type = "WalletClosed"
    BY <1>3 DEF CloseWallet, CanClose, CloseAmount, Closed, Payout
  <2> QED
    BY <1>3, <2>1, CloseWalletAccounts DEF TransferStepKeepsRent
<1>4. CASE SetGuardians(signer, r, relayer, asked)
  <2>1. \A i \in DOMAIN emitted' : emitted'[i].type \in {"WalletCreated", "GuardiansSet"}
    BY <1>4, EmitOnly DEF SetGuardians
  <2> QED
    BY <1>4, <2>1, SetGuardiansSpends, OtherEvents DEF Payouts
<1>5. CASE ProposeRotation(signer, r, relayer, asked)
  <2>1. \A i \in DOMAIN emitted' : emitted'[i].type \in {"RotationProposed", "KeyRotated"}
    BY <1>5 DEF ProposeRotation, Propose, Rotate, KeyRotated
  <2> QED
    BY <1>5, <2>1, ProposeRotationSpends, OtherEvents DEF Payouts
<1>6. CASE CancelRotation(signer, r, relayer, asked)
  <2>1. \A i \in DOMAIN emitted' : emitted'[i].type = "RotationCancelled"
    BY <1>6 DEF CancelRotation, CanCancel, Cancelled, VaultRefunds
  <2> QED
    BY <1>6, <2>1, CancelRotationSpends, OtherEvents DEF Payouts
<1> QED
  BY <1>1, <1>2, <1>3, <1>4, <1>5, <1>6 DEF Execute

LEMMA NextAccounts ==
  IInv /\ [Next]_vars => [EventStepAccounts /\ TransferStepKeepsRent]_vars
<1>1. SUFFICES ASSUME IInv, Next PROVE EventStepAccounts /\ TransferStepKeepsRent
  BY DEF vars
<1>2. CASE Unsigned
  <2>1. \A i \in DOMAIN emitted' : emitted'[i].type = "KeyRotated"
    BY <1>2 DEF Unsigned, ConfirmRotation, KeyRotated, Deposit, Tick
  <2> QED
    BY <1>1, <1>2, <2>1, UnsignedSpendsNothing, OtherEvents DEF Payouts
<1> QED
  BY <1>1, <1>2, ExecuteAccounts DEF Next

\* A payout event tells what left the vault to the lamport, whatever the
\* relayers asked, and what no event tells is a refund within its signed cap
\* (events.rs; refund_relayer and where its return value goes).
THEOREM EventsAccount == Spec => EventsAccountForVault
<1>1. IInv /\ [Next]_vars => [EventStepAccounts]_vars
  BY NextAccounts
<1> QED
  BY <1>1, Inductive, PTL DEF Spec, EventsAccountForVault

\* No transfer takes the vault below its rent-exempt minimum, for any amount,
\* cap and balance a u64 holds (transfer_sol.rs).
THEOREM TransfersKeepRent == Spec => TransferKeepsVaultAlive
<1>1. IInv /\ [Next]_vars => [TransferStepKeepsRent]_vars
  BY NextAccounts
<1> QED
  BY <1>1, Inductive, PTL DEF Spec, TransferKeepsVaultAlive

-----------------------------------------------------------------------------
(* What a close leaves behind. *)

\* A close: the vault's lamports, then the state's.
LEMMA CloseWalletLeavesNothing ==
  ASSUME IInv, NEW signer \in Keys, NEW r \in Requests, NEW relayer \in Relayers,
         NEW asked \in RelayerFees, CloseWallet(signer, r, relayer, asked)
  PROVE  CloseStepLeavesNothing
<1> DEFINE amount == CloseAmount(r, asked)
<1> DEFINE refund == CloseRefund(r, asked)
<1> DEFINE p == Paid(lamports, r.action.to, amount, relayer, refund)
<1>1. /\ lamports' = Move(p, State, relayer, p[State])
      /\ emitted' = <<Payout("WalletClosed", r, amount, refund)>>
      /\ CanPay(lamports, r.action.to, amount, refund)
      /\ r.action.kind = "CloseWallet"
  BY DEF CloseWallet, CanClose, Closed
<1>2. /\ lamports \in [Accounts -> Nat] /\ lamports[Vault] \in Nat
      /\ {Vault, State, relayer} \subseteq Accounts /\ Vault # State
      /\ relayer \notin {Vault, State} /\ r.action.to \in Accounts
  BY <1>1, RequestType, ActionType, AccountsAssumption DEF IInv, TypeOK, Accounts
<1>3. refund \in Nat /\ amount = lamports[Vault] - refund
  BY <1>2, RefundBounds DEF CloseRefund, CloseAmount, Lesser
<1> HIDE DEF amount, refund
<1>4. /\ p \in [Accounts -> Nat] /\ amount \in Nat
      /\ r.action.to # Vault => p[Vault] = lamports[Vault] - amount - refund
  BY <1>1, <1>2, <1>3, PaidValues
<1> HIDE DEF p
<1>5. /\ lamports'[State] = p[State] - p[State]
      /\ lamports'[Vault] = p[Vault] /\ p[State] \in Nat
  BY <1>1, <1>2, <1>4, MoveValues
<1>6. lamports'[State] = 0 /\ (r.action.to # Vault => lamports'[Vault] = 0)
  BY <1>2, <1>3, <1>4, <1>5
<1>7. \A i \in DOMAIN emitted' : emitted'[i].to = r.action.to
  BY <1>1 DEF Payout
<1> QED
  BY <1>6, <1>7 DEF CloseStepLeavesNothing

\* No other step takes the account away.
LEMMA AccountStays ==
  ASSUME IInv, NEW signer \in Keys, NEW r \in Requests, NEW relayer \in Relayers,
         NEW asked \in RelayerFees, Execute(signer, r, relayer, asked), ~Exists'
  PROVE  CloseWallet(signer, r, relayer, asked)
<1>1. \A w \in WalletState : w # NoAccount
  BY NoAccountAssumption
<1>2. wallet' \notin WalletState
  BY <1>1 DEF Exists
<1> QED
  BY <1>2, TransferSolInv, SweepVaultInv, SetGuardiansInv, ProposeRotationInv, CancelRotationInv
  DEF Execute

\* Only a close ends a wallet.
LEMMA NextLeavesNothing == IInv /\ [Next]_vars => [CloseStepLeavesNothing]_vars
<1> SUFFICES ASSUME IInv, Next, Exists, ~Exists' PROVE CloseStepLeavesNothing
  BY DEF CloseStepLeavesNothing, vars
<1>1. CASE Unsigned
  <2>1. CASE ConfirmRotation
    <3>1. wallet \in WalletState /\ wallet.rotation.new_key \in AnyKey
      BY <2>1 DEF ConfirmRotation, IInv, TypeOK, WalletState, RotationSlot
    <3>2. wallet' \in WalletState
      BY <2>1, <3>1, EmptyRotationType DEF ConfirmRotation, Rotated, WalletState
    <3> QED
      BY <3>2, NoAccountAssumption DEF Exists
  <2>2. CASE UNCHANGED wallet
    BY <2>2 DEF Exists
  <2> QED
    BY <1>1, <2>1, <2>2 DEF Unsigned, Deposit, Tick
<1> QED
  BY <1>1, AccountStays, CloseWalletLeavesNothing DEF Next

\* Nothing is left under the addresses of a wallet that was closed, whatever
\* the signed destination and the refund (close_wallet.rs, its transfers
\* before Anchor's `close`).
THEOREM ClosesLeaveNothing == Spec => CloseLeavesNothing
<1>1. IInv /\ [Next]_vars => [CloseStepLeavesNothing]_vars
  BY NextLeavesNothing
<1> QED
  BY <1>1, Inductive, PTL DEF Spec, CloseLeavesNothing

-----------------------------------------------------------------------------
(* What nobody can block. *)

\* The two payments, account by account: only the vault and the relayer can
\* tell one refund from another.
LEMMA PaidPerAccount ==
  ASSUME NEW l \in [Accounts -> Nat], NEW to \in Accounts, NEW relayer \in Relayers,
         NEW amount, NEW refund \in Nat, CanPay(l, to, amount, refund)
  PROVE  LET m == Move(l, Vault, to, amount)
             p == Paid(l, to, amount, relayer, refund)
         IN  /\ p[Vault] = m[Vault] - refund
             /\ p[relayer] = m[relayer] + refund
             /\ \A a \in Accounts \ {Vault, relayer} : p[a] = m[a]
             /\ m \in [Accounts -> Nat]
             /\ m[Vault] >= l[Vault] - amount
             /\ m[relayer] >= l[relayer]
<1> DEFINE m == Move(l, Vault, to, amount)
<1> DEFINE p == Move(m, Vault, relayer, refund)
<1>0. Vault \in Accounts /\ relayer \in Accounts /\ relayer # Vault
  BY AccountsAssumption DEF Accounts
<1>1. amount \in Nat /\ l[Vault] >= amount /\ m[Vault] >= refund
      /\ l[Vault] \in Nat /\ l[relayer] \in Nat /\ l[to] \in Nat
  BY <1>0 DEF CanPay
<1>2. /\ m \in [Accounts -> Nat]
      /\ Vault # to => m[Vault] = l[Vault] - amount /\ m[to] = l[to] + amount
      /\ Vault = to => m[Vault] = l[Vault]
      /\ \A a \in Accounts \ {Vault, to} : m[a] = l[a]
  BY <1>0, <1>1, MoveType, MoveValues
<1>3. m[Vault] >= l[Vault] - amount /\ m[relayer] >= l[relayer]
  BY <1>0, <1>1, <1>2
<1>4. p = Paid(l, to, amount, relayer, refund)
  BY DEF Paid
<1> HIDE DEF m
<1>5. /\ p[Vault] = m[Vault] - refund
      /\ p[relayer] = m[relayer] + refund
      /\ \A a \in Accounts \ {Vault, relayer} : p[a] = m[a]
  BY <1>0, <1>1, <1>2, MoveValues
<1> HIDE DEF p
<1> QED
  BY <1>2, <1>3, <1>4, <1>5 DEF m

\* What the next action's signature comes to on a wallet that exists.
LEMMA OwnerAuthorized ==
  ASSUME IInv, Exists, wallet.nonce < U64Max,
         NEW kinds, NEW r \in OwnerApprovals(kinds)
  PROVE  /\ r.action.kind \in kinds
         /\ Authorized(wallet, wallet.active_key, r)
         /\ RequireActiveKey(wallet, wallet.active_key)
<1>1. wallet \in WalletState /\ WellFormed(wallet) /\ Opened(wallet, wallet.active_key) = wallet
  BY DEF IInv, TypeOK, WalletWellFormed, Exists, WellFormed, Opened
<1>2. PICK s \in Signatures :
        s.key = wallet.active_key /\ s.program = ProgramId /\ IsLive(r) /\ s.request = r
  BY DEF OwnerApprovals, LiveApprovals, OwnerKeys
<1>3. [pubkey |-> wallet.active_key, message |-> Preimage(ProgramId, r)] \in SignedPayloads
  BY <1>2 DEF SignedPayloads
<1>4. wallet.nonce \in Nat /\ wallet.nonce + 1 <= U64Max
  BY <1>1, ParametersAssumption DEF WalletState
<1>5. Authorized(wallet, wallet.active_key, r)
  BY <1>1, <1>2, <1>3, <1>4
  DEF Authorized, IsLive, CurrentNonce, WellFormed, FitsU64
<1> QED
  BY <1>1, <1>5 DEF OwnerApprovals, RequireActiveKey

\* Moving nothing moves nothing.
LEMMA MoveNothing ==
  ASSUME NEW l \in [Accounts -> Nat], NEW from \in Accounts, NEW to \in Accounts
  PROVE  Move(l, from, to, 0) \in [Accounts -> Nat]
         /\ \A a \in Accounts : Move(l, from, to, 0)[a] = l[a]
<1> DEFINE m == Move(l, from, to, 0)
<1>1. l[from] \in Nat /\ l[to] \in Nat /\ l[from] >= 0
  OBVIOUS
<1>2. m \in [Accounts -> Nat]
  BY <1>1, MoveType
<1>3. /\ from # to => m[from] = l[from] - 0 /\ m[to] = l[to] + 0
      /\ from = to => m[from] = l[from]
      /\ \A a \in Accounts \ {from, to} : m[a] = l[a]
  BY <1>1, MoveValues
<1> HIDE DEF m
<1>4. \A a \in Accounts : m[a] = l[a]
  BY <1>1, <1>3
<1> QED
  BY <1>2, <1>4 DEF m

\* Rent exemption is about balances, and an account about to go asks for less.
LEMMA SameBalances ==
  ASSUME NEW l \in [Accounts -> Nat], NEW m \in [Accounts -> Nat],
         \A a \in Accounts : m[a] = l[a],
         NEW v, NEW w, w = NoAccount \/ v # NoAccount, RentExempt(l, v)
  PROVE  RentExempt(m, w)
<1> SUFFICES ASSUME ~Bundled, NEW a \in Accounts
             PROVE  m[a] = 0 \/ m[a] >= IF a = State /\ w # NoAccount THEN StateRent ELSE VaultRent
  BY DEF RentExempt, AtRent
<1>1. l[a] = 0 \/ l[a] >= IF a = State /\ v # NoAccount THEN StateRent ELSE VaultRent
  BY DEF RentExempt, AtRent
<1>2. m[a] = l[a] /\ l[a] \in Nat
  OBVIOUS
<1> QED
  BY <1>1, <1>2, ParametersAssumption

\* The refund is 0 when the relayer asks for nothing, and no balance moves.
LEMMA CancelNeverBlocked == IInv /\ RentInv => OwnerCanCancel
<1> SUFFICES ASSUME IInv, RentInv, Exists, wallet.rotation.pending, wallet.nonce < U64Max,
                    NEW r \in OwnerApprovals({"CancelRotation"}) \intersect Requests,
                    NEW relayer \in Relayers
             PROVE  CanCancel(wallet.active_key, r, relayer, 0)
  BY DEF OwnerCanCancel
<1>1. /\ r.action.kind = "CancelRotation"
      /\ Authorized(wallet, wallet.active_key, r)
      /\ RequireActiveKey(wallet, wallet.active_key)
  BY OwnerAuthorized
<1>2. Refund(r, 0) = 0
  BY RequestType DEF Refund, Lesser
<1>3. lamports \in [Accounts -> Nat] /\ Vault \in Accounts /\ relayer \in Accounts
  BY DEF IInv, TypeOK, Accounts
<1>4. RentExempt(Move(lamports, Vault, relayer, 0), Cancelled(wallet, wallet.active_key))
  BY <1>3, MoveNothing, SameBalances DEF RentInv, Exists
<1>5. lamports[Vault] >= 0
  BY <1>3
<1> QED
  BY <1>1, <1>2, <1>4, <1>5 DEF CanCancel, Exists

\* With an empty vault a close moves the state's lamports and nothing else.
LEMMA CloseNeverBlocked == IInv /\ RentInv => EmptyVaultNeverBlocksClose
<1> SUFFICES ASSUME IInv, RentInv, Exists, lamports[Vault] = 0, wallet.nonce < U64Max,
                    NEW r \in OwnerApprovals({"CloseWallet"}) \intersect Requests,
                    NEW relayer \in Relayers, NEW asked \in RelayerFees
             PROVE  CanClose(wallet.active_key, r, relayer, asked)
  BY DEF EmptyVaultNeverBlocksClose
<1> DEFINE p == Paid(lamports, r.action.to, 0, relayer, 0)
<1>1. /\ r.action.kind = "CloseWallet"
      /\ Authorized(wallet, wallet.active_key, r)
      /\ RequireActiveKey(wallet, wallet.active_key)
  BY OwnerAuthorized
<1>2. /\ lamports \in [Accounts -> Nat] /\ r.action.to \in Accounts
      /\ {Vault, State, relayer} \subseteq Accounts /\ relayer # State
  BY <1>1, RequestType, ActionType, AccountsAssumption DEF IInv, TypeOK, Accounts
\* An empty vault pays neither the refund nor an amount.
<1>3. CloseRefund(r, asked) = 0 /\ CloseAmount(r, asked) = 0
  <2>1. Refund(r, asked) \in Nat
    BY RefundBounds
  <2>2. CloseRefund(r, asked) = 0
    BY <2>1 DEF CloseRefund, Lesser
  <2> QED
    BY <2>2 DEF CloseAmount
<1>4. CanPay(lamports, r.action.to, 0, 0)
  <2>1. Move(lamports, Vault, r.action.to, 0)[Vault] = 0
    BY <1>2, MoveNothing
  <2> QED
    BY <1>2, <2>1 DEF CanPay
<1>5. p \in [Accounts -> Nat] /\ \A a \in Accounts : p[a] = lamports[a]
  <2> DEFINE m == Move(lamports, Vault, r.action.to, 0)
  <2>1. m \in [Accounts -> Nat] /\ \A a \in Accounts : m[a] = lamports[a]
    BY <1>2, MoveNothing
  <2>2. p = Move(m, Vault, relayer, 0)
    BY DEF Paid
  <2> HIDE DEF m, p
  <2>3. p \in [Accounts -> Nat] /\ \A a \in Accounts : p[a] = m[a]
    BY <1>2, <2>1, <2>2, MoveNothing
  <2> QED
    BY <2>1, <2>3
<1>6. Closed(r, relayer, asked) = Move(p, State, relayer, p[State])
  BY <1>3 DEF Closed
<1> HIDE DEF p
<1> DEFINE closed == Move(p, State, relayer, p[State])
<1>7. /\ closed[State] = p[State] - p[State]
      /\ closed[relayer] = p[relayer] + p[State]
      /\ \A a \in Accounts \ {State, relayer} : closed[a] = p[a]
  <2>1. p[State] \in Nat /\ p[State] >= p[State]
    BY <1>2, <1>5
  <2> QED
    BY <1>2, <1>5, <2>1, MoveValues
<1> HIDE DEF closed
\* The relayer gains the state's rent, which is no less than its own minimum.
<1>8. ASSUME ~Bundled, NEW a \in Accounts
      PROVE  closed[a] = 0 \/ closed[a] >= VaultRent
  <2>1. \A b \in Accounts :
          p[b] \in Nat /\ (p[b] = 0 \/ p[b] >= IF b = State THEN StateRent ELSE VaultRent)
    BY <1>2, <1>5, <1>8 DEF RentInv, RentExempt, AtRent, Exists
  <2>2. /\ p[State] \in Nat /\ (p[State] = 0 \/ p[State] >= StateRent)
        /\ p[relayer] \in Nat /\ (p[relayer] = 0 \/ p[relayer] >= VaultRent)
    BY <1>2, <2>1
  <2>3. CASE a = State
    BY <1>7, <2>2, <2>3
  <2>4. CASE a = relayer
    BY <1>7, <2>2, <2>4, ParametersAssumption
  <2>5. CASE a \notin {State, relayer}
    BY <1>7, <2>1, <2>5
  <2> QED
    BY <2>3, <2>4, <2>5
<1>9. RentExempt(closed, NoAccount)
  BY <1>8 DEF RentExempt, AtRent
<1> QED
  BY <1>1, <1>3, <1>4, <1>6, <1>9 DEF CanClose, Exists, closed

\* A refund within the cap leaves the vault its rent and the relayer its own,
\* and every other account what any other refund would leave it.
LEMMA TransferNeverBlocked == IInv => FeeNeverBlocksTransfer
<1> SUFFICES ASSUME IInv, NEW key \in Keys, NEW r \in Requests, NEW relayer \in Relayers,
                    Solvent(relayer), NEW one \in RelayerFees, CanTransfer(key, r, relayer, one),
                    NEW other \in RelayerFees
             PROVE  CanTransfer(key, r, relayer, other)
  BY DEF FeeNeverBlocksTransfer
<1> DEFINE l == AfterInit(relayer)
<1> DEFINE w == Advanced(InitIfNeeded, key)
<1> DEFINE to == r.action.to
<1> DEFINE amount == r.action.lamports
<1> DEFINE m == Move(l, Vault, to, amount)
<1> DEFINE p == Paid(l, to, amount, relayer, Refund(r, one))
<1> DEFINE q == Paid(l, to, amount, relayer, Refund(r, other))
<1>1. /\ r.action.kind = "TransferSol"
      /\ lamports[relayer] >= RentAdvance
      /\ l[Vault] >= amount + r.max_relayer_fee + VaultRent
      /\ CanPay(l, to, amount, Refund(r, one))
      /\ RentExempt(p, w)
  BY DEF CanTransfer, Required
<1>2. /\ to \in Accounts /\ amount \in Nat /\ r.max_relayer_fee \in Nat
      /\ l \in [Accounts -> Nat] /\ {Vault, State, relayer} \subseteq Accounts
      /\ relayer \notin {Vault, State} /\ Vault # State
      /\ lamports \in [Accounts -> Nat]
  BY <1>1, RequestType, ActionType, AfterInitType, AccountsAssumption DEF Accounts, IInv, TypeOK
<1>3. /\ Refund(r, one) \in Nat /\ Refund(r, other) \in Nat
      /\ Refund(r, other) <= r.max_relayer_fee
  BY RefundBounds
<1>4. l[relayer] >= VaultRent
  <2>1. RentAdvance \in Nat
    BY <1>2, ParametersAssumption DEF RentAdvance
  <2>2. l[relayer] = lamports[relayer] - RentAdvance
    BY <1>1, <1>2, <2>1, MoveValues DEF AfterInit
  <2>3. l[relayer] \in Nat /\ lamports[relayer] \in Nat
    BY <1>2
  <2> QED
    BY <2>1, <2>2, <2>3, ParametersAssumption DEF Solvent
<1> HIDE DEF l
<1>5. /\ m \in [Accounts -> Nat]
      /\ m[Vault] >= l[Vault] - amount
      /\ m[relayer] >= l[relayer]
      /\ \A a \in Accounts \ {Vault, relayer} : p[a] = m[a]
  BY <1>1, <1>2, <1>3, PaidPerAccount
<1>6. m[Vault] \in Nat /\ m[relayer] \in Nat /\ l[Vault] \in Nat /\ l[relayer] \in Nat
  BY <1>2, <1>5
<1>7. CanPay(l, to, amount, Refund(r, other))
  BY <1>1, <1>2, <1>3, <1>5, <1>6, ParametersAssumption DEF CanPay
<1>8. /\ q[Vault] = m[Vault] - Refund(r, other)
      /\ q[relayer] = m[relayer] + Refund(r, other)
      /\ \A a \in Accounts \ {Vault, relayer} : q[a] = m[a]
  BY <1>2, <1>3, <1>7, PaidPerAccount
<1> HIDE DEF m, p, q
<1>9. q[Vault] >= VaultRent /\ q[relayer] >= VaultRent
  BY <1>1, <1>2, <1>3, <1>4, <1>5, <1>6, <1>8, ParametersAssumption
<1>10. RentExempt(q, w)
  <2> SUFFICES ASSUME ~Bundled, NEW a \in Accounts
               PROVE  \/ q[a] = 0
                      \/ q[a] >= IF a = State /\ w # NoAccount THEN StateRent ELSE VaultRent
    BY DEF RentExempt, AtRent
  <2>1. CASE a \in {Vault, relayer}
    BY <1>2, <1>9, <2>1
  <2>2. CASE a \notin {Vault, relayer}
    <3>1. q[a] = p[a]
      BY <1>5, <1>8, <2>2
    <3> QED
      BY <1>1, <3>1 DEF RentExempt, AtRent
  <2> QED
    BY <2>1, <2>2
<1> QED
  BY <1>7, <1>10 DEF CanTransfer, l, q

\* Whether a transfer executes is the owner's choice, not the relayer's: no
\* refund a relayer asks makes it fail (transfer_sol.rs, `required`).
THEOREM FeesNeverBlock == Spec => []FeeNeverBlocksTransfer
  BY Inductive, TransferNeverBlocked, PTL

\* A wallet whose vault is empty can be closed, through any relayer and
\* whatever it asks (close_wallet.rs, the refund taken from what is there).
THEOREM EmptyWalletsClose == Spec => []EmptyVaultNeverBlocksClose
  BY Inductive, AlwaysRentExempt, CloseNeverBlocked, PTL

\* An owner's live cancellation executes in every state with a proposal
\* pending, through a relayer that asks for nothing (cancel_rotation.rs).
THEOREM CancelsAreNeverBlocked == Spec => []OwnerCanCancel
  BY Inductive, AlwaysRentExempt, CancelNeverBlocked, PTL
=============================================================================
