--------------------------- MODULE ObserverProofs ---------------------------
(***************************************************************************)
(* What is seen of the wallet from outside, for every set of keys,         *)
(* requests and signatures: by an audit of the approvals it consumed, by   *)
(* an indexer that follows its events, and by a device that reads the      *)
(* bytes of its state account.                                             *)
(***************************************************************************)
EXTENDS WalletAudit, EventIndexer, StateLayout, SmartWalletProofs, FiniteSetTheorems,
        SequenceTheorems

-----------------------------------------------------------------------------
(* The audit: the nonce of an incarnation counts the approvals that passed  *)
(* in it.                                                                  *)

\* An authorized step consumes the current nonce: the account it leaves, if
\* any, has the next one.
LEMMA ExecuteNonce ==
  ASSUME IInv, NEW signer \in Keys, NEW r \in Requests, NEW relayer \in Relayers,
         NEW asked \in RelayerFees, Execute(signer, r, relayer, asked), Exists'
  PROVE  r.nonce = CurrentNonce /\ wallet'.nonce = CurrentNonce + 1
<1> DEFINE a == Advanced(InitIfNeeded, signer)
<1>1. /\ Authorized(InitIfNeeded, signer, r)
      /\ wallet'.nonce = a.nonce
  <2>1. ASSUME NEW b, b = Advanced(InitIfNeeded, signer), b \in WalletState
        PROVE  /\ \A g : WithGuardians(b, g).nonce = b.nonce
               /\ \A k : Rotated(b, k).nonce = b.nonce
               /\ \A p : [b EXCEPT !.rotation = p].nonce = b.nonce
    BY <2>1 DEF WithGuardians, Rotated, WalletState
  <2>2. wallet # NoAccount => InitIfNeeded = wallet
    BY DEF InitIfNeeded
  <2>3. Authorized(InitIfNeeded, signer, r)
    BY <2>2 DEF Execute, TransferSol, CanTransfer, VaultPays, SweepVault, SetGuardians,
         ProposeRotation, CancelRotation, CanCancel, Cancelled, VaultRefunds,
         CloseWallet, CanClose, CloseAmount, Closed
  <2>4. a \in WalletState
    BY <2>3, InitIfNeededWallet, AdvancedWallet
  <2>5. CASE TransferSol(signer, r, relayer, asked) \/ SweepVault(signer, r, relayer, asked)
    BY <2>3, <2>5 DEF TransferSol, CanTransfer, VaultPays, SweepVault
  <2>6. CASE SetGuardians(signer, r, relayer, asked)
    BY <2>1, <2>3, <2>4, <2>6 DEF SetGuardians
  <2>7. CASE ProposeRotation(signer, r, relayer, asked)
    <3>1. \/ wallet' = Rotated(a, r.action.new_key)
          \/ \E p : wallet' = [a EXCEPT !.rotation = p]
      BY <2>2, <2>7 DEF ProposeRotation, Rotate, Propose
    <3> HIDE DEF a
    <3>2. /\ Rotated(a, r.action.new_key).nonce = a.nonce
          /\ \A p : [a EXCEPT !.rotation = p].nonce = a.nonce
      <4>1. a = Advanced(InitIfNeeded, signer)
        BY DEF a
      <4> QED
        BY <2>1, <2>4, <4>1
    <3>3. CASE wallet' = Rotated(a, r.action.new_key)
      BY <2>3, <3>2, <3>3
    <3>4. CASE \E p : wallet' = [a EXCEPT !.rotation = p]
      <4>1. PICK p : wallet' = [a EXCEPT !.rotation = p]
        BY <3>4
      <4>2. wallet'.nonce = [a EXCEPT !.rotation = p].nonce
        BY <4>1
      <4> QED
        BY <2>3, <3>2, <4>2
    <3> QED
      BY <3>1, <3>3, <3>4
  <2>8. CASE CancelRotation(signer, r, relayer, asked)
    <3>1. wallet' = [a EXCEPT !.rotation = EMPTY_ROTATION]
      BY <2>2, <2>8 DEF CancelRotation, CanCancel, Cancelled
    <3> QED
      BY <2>1, <2>3, <2>4, <3>1
  <2>9. CASE CloseWallet(signer, r, relayer, asked)
    BY <2>9 DEF CloseWallet, CanClose, CloseAmount, Closed, Exists
  <2> QED
    BY <2>5, <2>6, <2>7, <2>8, <2>9 DEF Execute
<1>2. a.nonce = r.nonce + 1
  BY <1>1, InitIfNeededWallet, AdvancedWallet
<1>3. r.nonce = CurrentNonce
  BY <1>1, AuthorizedNonce
<1> QED
  BY <1>1, <1>2, <1>3

\* A transaction nobody signed leaves the nonce, and whether there is one.
LEMMA UnsignedNonce ==
  ASSUME IInv, Unsigned
  PROVE  /\ Exists' <=> Exists
         /\ Exists => wallet'.nonce = wallet.nonce
<1>1. CASE ConfirmRotation
  <2>1. /\ Exists /\ wallet \in WalletState
        /\ wallet' = Rotated(wallet, wallet.rotation.new_key)
    BY <1>1 DEF ConfirmRotation, Exists, IInv, TypeOK
  <2>2. wallet'.nonce = wallet.nonce
    BY <2>1 DEF Rotated, WalletState
  <2>3. wallet' \in WalletState
    <3>1. wallet.rotation.new_key \in AnyKey
      BY <2>1 DEF WalletState, RotationSlot
    <3> QED
      BY <2>1, <3>1, EmptyRotationType DEF Rotated, WalletState
  <2> QED
    BY <2>1, <2>2, <2>3, NoAccountAssumption DEF Exists
<1>2. CASE UNCHANGED wallet
  BY <1>2 DEF Exists
<1> QED
  BY <1>1, <1>2 DEF Unsigned, Deposit, Tick

-----------------------------------------------------------------------------
AuditInv == IInv /\ NonceCountsApprovals /\ IsFiniteSet(passed)

\* Before the first transaction nothing passed.
LEMMA AuditInitInv == AuditInit => AuditInv
  BY InitInv, FS_EmptySet DEF AuditInit, Init, AuditInv, NonceCountsApprovals, Exists

\* The approval of a step is one more, for a nonce none had.
LEMMA AuditedInv ==
  ASSUME AuditInv, NEW signer \in Keys, NEW r \in Requests, NEW relayer \in Relayers,
         NEW asked \in RelayerFees, Execute(signer, r, relayer, asked),
         Audited(signer, r, relayer)
  PROVE  NonceCountsApprovals' /\ IsFiniteSet(passed')
<1> DEFINE one == Approval(signer, r)
<1>1. CASE ~Exists'
  BY <1>1, FS_EmptySet DEF Audited, Exists, NonceCountsApprovals
<1>2. CASE Exists'
  <2>1. passed' = passed \union {one}
    BY <1>2 DEF Audited, Exists
  <2>2. r.nonce = CurrentNonce /\ wallet'.nonce = CurrentNonce + 1
    BY <1>2, ExecuteNonce DEF AuditInv
  <2>3. /\ CurrentNonce \in Nat
        /\ {a.request.nonce : a \in passed} = 0 .. CurrentNonce - 1
        /\ Cardinality(passed) = CurrentNonce
    <3>1. CASE Exists
      BY <3>1, ParametersAssumption
      DEF AuditInv, IInv, TypeOK, NonceCountsApprovals, CurrentNonce, Exists, WalletState
    <3>2. CASE ~Exists
      BY <3>2, FS_EmptySet DEF AuditInv, NonceCountsApprovals, CurrentNonce
    <3> QED
      BY <3>1, <3>2
  <2>4. one.request.nonce = CurrentNonce
    BY <2>2 DEF Approval
  <2>5. one \notin passed
    BY <2>3, <2>4
  <2>6. IsFiniteSet(passed') /\ Cardinality(passed') = CurrentNonce + 1
    BY <2>1, <2>3, <2>5, FS_AddElement DEF AuditInv
  <2>7. {a.request.nonce : a \in passed'} = 0 .. CurrentNonce
    <3>1. {a.request.nonce : a \in passed'}
            = {a.request.nonce : a \in passed} \union {CurrentNonce}
      BY <2>1, <2>4
    <3> QED
      BY <2>3, <3>1
  <2> QED
    BY <1>2, <2>2, <2>3, <2>6, <2>7 DEF NonceCountsApprovals
<1> QED
  BY <1>1, <1>2

\* AuditInv is inductive.
LEMMA AuditNextInv == AuditInv /\ [AuditNext]_auditVars => AuditInv'
<1> SUFFICES ASSUME AuditInv, [AuditNext]_auditVars PROVE AuditInv'
  OBVIOUS
<1>1. IInv'
  <2>1. [Next]_vars
    BY DEF AuditNext, auditVars, Next
  <2> QED
    BY <2>1, NextInv DEF AuditInv
<1>2. ASSUME NEW signer \in Keys, NEW r \in Requests, NEW relayer \in Relayers,
             NEW asked \in RelayerFees, Execute(signer, r, relayer, asked),
             Audited(signer, r, relayer)
      PROVE  AuditInv'
  BY <1>1, <1>2, AuditedInv DEF AuditInv
<1>3. CASE Unsigned /\ UNCHANGED passed
  BY <1>1, <1>3, UnsignedNonce DEF AuditInv, NonceCountsApprovals
<1>4. CASE UNCHANGED auditVars
  BY <1>1, <1>4 DEF auditVars, vars, AuditInv, NonceCountsApprovals, Exists
<1> QED
  BY <1>2, <1>3, <1>4 DEF AuditNext

\* In every incarnation of a wallet each nonce below the current one was used
\* by exactly one approval: nothing passes twice, however often it is delivered
\* and whoever holds the key (state.rs, verify_enclave_authorization).
THEOREM ReplayProtection == AuditSpec => []NonceCountsApprovals
<1>1. AuditInv => NonceCountsApprovals
  BY DEF AuditInv
<1> QED
  BY <1>1, AuditInitInv, AuditNextInv, PTL DEF AuditSpec

-----------------------------------------------------------------------------
(* The indexer: the events of each transaction, applied in order.          *)

\* A transaction emits at most two events.
LEMMA AppliedNone == ASSUME NEW known PROVE Applied(known, <<>>) = known
<1> DEFINE S == 0 .. Len(<<>>)
<1> DEFINE IsFold(f) ==
      f = [n \in S |-> IF n = 0 THEN known ELSE Apply(f[n - 1], <<>>[n])]
<1> DEFINE upTo == CHOOSE f : IsFold(f)
<1>1. S = {0} /\ Applied(known, <<>>) = upTo[Len(<<>>)]
  BY DEF Applied
<1>2. IsFold([n \in S |-> known])
  BY <1>1
<1>3. IsFold(upTo)
  BY <1>2
<1> HIDE DEF upTo
<1> QED
  BY <1>1, <1>3

\* One event, applied.
LEMMA AppliedOne == ASSUME NEW known, NEW e PROVE Applied(known, <<e>>) = Apply(known, e)
<1> DEFINE S == 0 .. Len(<<e>>)
<1> DEFINE IsFold(f) ==
      f = [n \in S |-> IF n = 0 THEN known ELSE Apply(f[n - 1], <<e>>[n])]
<1> DEFINE upTo == CHOOSE f : IsFold(f)
<1>1. S = {0, 1} /\ Applied(known, <<e>>) = upTo[Len(<<e>>)]
  BY DEF Applied
<1>2. IsFold([n \in S |-> IF n = 0 THEN known ELSE Apply(known, e)])
  BY <1>1
<1>3. IsFold(upTo)
  BY <1>2
<1> HIDE DEF upTo
<1>4. upTo[1] = Apply(upTo[0], e) /\ upTo[0] = known
  BY <1>1, <1>3
<1> QED
  BY <1>1, <1>4

\* Two events, applied in order.
LEMMA AppliedTwo ==
  ASSUME NEW known, NEW d, NEW e
  PROVE  Applied(known, <<d, e>>) = Apply(Apply(known, d), e)
<1> DEFINE S == 0 .. Len(<<d, e>>)
<1> DEFINE IsFold(f) ==
      f = [n \in S |-> IF n = 0 THEN known ELSE Apply(f[n - 1], <<d, e>>[n])]
<1> DEFINE upTo == CHOOSE f : IsFold(f)
<1>1. S = {0, 1, 2} /\ Applied(known, <<d, e>>) = upTo[Len(<<d, e>>)]
  BY DEF Applied
<1>2. IsFold([n \in S |-> IF n = 0 THEN known ELSE IF n = 1 THEN Apply(known, d)
                              ELSE Apply(Apply(known, d), e)])
  BY <1>1
<1>3. IsFold(upTo)
  BY <1>2
<1> HIDE DEF upTo
<1>4. upTo[2] = Apply(upTo[1], e) /\ upTo[1] = Apply(upTo[0], d) /\ upTo[0] = known
  BY <1>1, <1>3
<1> QED
  BY <1>1, <1>4

\* What the indexer knows is of the right shape and right.
Right(known, w) == known \in Index /\ Describes(known, w)

IndexInv ==
  /\ IInv
  /\ ~Exists => index = NoAccount
  /\ Exists => Right(index, wallet)

\* What the indexer knows before an action's own event.
Before(signer) == IF IsNew(InitIfNeeded) THEN Known(signer) ELSE index

\* Emit's events, applied: WalletCreated if the wallet is new, then the
\* action's own.
LEMMA EmitApplies ==
  ASSUME NEW signer, NEW e, Emit(InitIfNeeded, signer, e), index' = Applied(index, emitted')
  PROVE  index' = Apply(Before(signer), e)
<1> DEFINE created == [type |-> "WalletCreated", key |-> signer]
<1>1. CASE IsNew(InitIfNeeded)
  <2>1. emitted' = <<created, e>>
    BY <1>1 DEF Emit
  <2>2. Apply(index, created) = Known(signer)
    BY DEF Apply
  <2> QED
    BY <1>1, <2>1, <2>2, AppliedTwo DEF Before
<1>2. CASE ~IsNew(InitIfNeeded)
  <2>1. emitted' = <<e>>
    BY <1>2 DEF Emit
  <2> QED
    BY <1>2, <2>1, AppliedOne DEF Before
<1> QED
  BY <1>1, <1>2

\* A new wallet is what WalletCreated says.
LEMMA KnownRight ==
  ASSUME NEW key \in Keys
  PROVE  Right(Known(key), [ZEROED EXCEPT !.active_key = key])
<1> DEFINE none == [i \in Slots |-> [kind |-> "None"]]
<1>1. none \in [Slots -> Guardian]
  BY DEF Guardian
<1>2. \A i \in Slots : GuardianSlotFrom(none[i]) = EMPTY_GUARDIAN
  BY DEF GuardianSlotFrom
<1>3. [i \in Slots |-> GuardianSlotFrom(none[i])] = [i \in Slots |-> EMPTY_GUARDIAN]
  BY <1>2
<1>4. Known(key) = [key |-> key, nonce |-> 0, guardians |-> none,
                    pending |-> FALSE, proposal |-> noProposal]
  BY DEF Known
<1> HIDE DEF none
<1>5. Known(key) \in Index
  BY <1>1, <1>4 DEF Index, noProposal, AnyKey
<1>6. /\ Known(key).key = key /\ Known(key).nonce = 0 /\ Known(key).guardians = none
      /\ Known(key).pending = FALSE
  BY <1>4
<1> DEFINE z == [ZEROED EXCEPT !.active_key = key]
<1>7. /\ z.active_key = key /\ z.nonce = 0 /\ z.guardians = [i \in Slots |-> EMPTY_GUARDIAN]
      /\ z.rotation.pending = FALSE
  BY DEF ZEROED, EMPTY_ROTATION
<1> HIDE DEF z
<1>8. Describes(Known(key), z)
  BY <1>2, <1>3, <1>6, <1>7 DEF Describes, none
<1> QED
  BY <1>5, <1>8 DEF Right, z

\* One more nonce on both sides.
LEMMA CountedRight ==
  ASSUME NEW known, NEW w \in WalletState, Right(known, w)
  PROVE  Right(Counted(known), [w EXCEPT !.nonce = @ + 1])
<1>1. known \in Index /\ Describes(known, w)
  BY DEF Right
<1>2. /\ Counted(known) \in Index
      /\ Counted(known).key = known.key /\ Counted(known).nonce = known.nonce + 1
      /\ Counted(known).guardians = known.guardians
      /\ Counted(known).pending = known.pending
      /\ Counted(known).proposal = known.proposal
  BY <1>1 DEF Counted, Index
<1> DEFINE v == [w EXCEPT !.nonce = @ + 1]
<1>3. /\ v.active_key = w.active_key /\ v.nonce = w.nonce + 1
      /\ v.guardians = w.guardians /\ v.rotation = w.rotation
  BY DEF WalletState
<1> HIDE DEF v
<1>4. Describes(Counted(known), v)
  BY <1>1, <1>2, <1>3 DEF Describes
<1> QED
  BY <1>2, <1>4 DEF Right, v

\* No proposal on either side.
LEMMA UnproposedRight ==
  ASSUME NEW known, NEW w \in WalletState, Right(known, w)
  PROVE  Right(Unproposed(known), [w EXCEPT !.rotation = EMPTY_ROTATION])
<1>1. known \in Index /\ Describes(known, w)
  BY DEF Right
<1> DEFINE u == Unproposed(known)
<1>2. noProposal \in [new_key : AnyKey, opens_at : Nat, guardian : AnyKey]
  BY DEF noProposal, AnyKey
<1>3. /\ u \in Index
      /\ u.key = known.key /\ u.nonce = known.nonce /\ u.guardians = known.guardians
      /\ ~u.pending
  BY <1>1, <1>2 DEF Unproposed, Index
<1> DEFINE v == [w EXCEPT !.rotation = EMPTY_ROTATION]
<1>4. /\ v.active_key = w.active_key /\ v.nonce = w.nonce
      /\ v.guardians = w.guardians /\ ~v.rotation.pending
  BY DEF WalletState, EMPTY_ROTATION
<1> HIDE DEF u, v
<1>5. u.pending = FALSE /\ v.rotation.pending = FALSE
  <2>1. v.rotation = EMPTY_ROTATION
    BY DEF v, WalletState
  <2>2. u.pending \in BOOLEAN
    BY <1>3 DEF Index
  <2> QED
    BY <1>3, <2>1, <2>2 DEF EMPTY_ROTATION
<1>6. Describes(u, v)
  BY <1>1, <1>3, <1>4, <1>5 DEF Describes
<1> QED
  BY <1>3, <1>6 DEF Right, u, v

\* The active key moves on both sides.
LEMMA KeyedRight ==
  ASSUME NEW known, NEW w \in WalletState, Right(known, w), NEW key \in AnyKey,
         NEW k, k = [known EXCEPT !.key = key],
         NEW v, v = [w EXCEPT !.active_key = key, !.attested = FALSE]
  PROVE  Right(k, v)
<1>1. known \in Index /\ Describes(known, w)
  BY DEF Right
<1>2. /\ k \in Index /\ k.key = key /\ k.nonce = known.nonce
      /\ k.guardians = known.guardians /\ k.pending = known.pending
      /\ k.proposal = known.proposal
  BY <1>1 DEF Index
<1>3. /\ v.active_key = key /\ v.nonce = w.nonce
      /\ v.guardians = w.guardians /\ v.rotation = w.rotation
  BY DEF WalletState
<1>4. Describes(k, v)
  BY <1>1, <1>2, <1>3 DEF Describes
<1> QED
  BY <1>2, <1>4 DEF Right

\* A rotation on both sides.
LEMMA RotatedRight ==
  ASSUME NEW known, NEW w \in WalletState, Right(known, w), NEW key \in AnyKey,
         NEW k, k = [Unproposed(known) EXCEPT !.key = key],
         NEW x, x = Rotated(w, key)
  PROVE  Right(k, x)
<1> DEFINE u == Unproposed(known)
<1> DEFINE v == [w EXCEPT !.rotation = EMPTY_ROTATION]
<1>1. v \in WalletState
  BY EmptyRotationType DEF WalletState
<1>2. x = [v EXCEPT !.active_key = key, !.attested = FALSE]
  BY DEF Rotated, WalletState
<1>3. Right(u, v) /\ k = [u EXCEPT !.key = key]
  BY UnproposedRight
<1> HIDE DEF u, v
<1> QED
  BY <1>1, <1>2, <1>3, KeyedRight

\* What the indexer knows, with the action's nonce counted, is of the wallet
\* that the action goes on to change.
LEMMA BeforeRight ==
  ASSUME IndexInv, NEW signer \in Keys, NEW r \in Requests,
         Authorized(InitIfNeeded, signer, r)
  PROVE  /\ Before(signer) \in Index
         /\ Right(Counted(Before(signer)), Advanced(InitIfNeeded, signer))
<1> DEFINE o == Opened(InitIfNeeded, signer)
<1>1. o \in WalletState
  BY InitIfNeededWallet, AdvancedWallet DEF IndexInv
<1>2. Right(Before(signer), o)
  <2>1. CASE Exists
    <3>1. InitIfNeeded = wallet /\ ~IsNew(wallet)
      BY <2>1 DEF IndexInv, IInv, WalletWellFormed, WellFormed, InitIfNeeded, Exists
    <3> QED
      BY <2>1, <3>1 DEF IndexInv, Before, Opened
  <2>2. CASE ~Exists
    <3>1. InitIfNeeded = ZEROED /\ IsNew(ZEROED)
      BY <2>2 DEF InitIfNeeded, Exists, ZEROED, IsNew
    <3> QED
      BY <3>1, KnownRight DEF Before, Opened
  <2> QED
    BY <2>1, <2>2
<1> HIDE DEF o
<1>3. Advanced(InitIfNeeded, signer) = [o EXCEPT !.nonce = @ + 1]
  BY InitIfNeededWallet, AdvancedCounts DEF IndexInv, o
<1> QED
  BY <1>1, <1>2, <1>3, CountedRight DEF Right

-----------------------------------------------------------------------------
(* Each event says what its instruction did. *)

\* SolTransferred and VaultSwept: only the nonce moves.
LEMMA PaymentIndexed ==
  ASSUME IndexInv, NEW signer \in Keys, NEW r \in Requests, NEW relayer, NEW asked,
         TransferSol(signer, r, relayer, asked) \/ SweepVault(signer, r, relayer, asked),
         index' = Applied(index, emitted')
  PROVE  Right(index', wallet')
<1>1. PICK e : /\ Emit(InitIfNeeded, signer, e)
               /\ e.type \in {"SolTransferred", "VaultSwept"}
  BY DEF TransferSol, SweepVault, Payout
<1>2. Authorized(InitIfNeeded, signer, r) /\ wallet' = Advanced(InitIfNeeded, signer)
  BY DEF TransferSol, CanTransfer, SweepVault
<1>3. index' = Counted(Before(signer))
  BY <1>1, EmitApplies DEF Apply
<1> QED
  BY <1>2, <1>3, BeforeRight

\* GuardiansSet: the list is replaced, and no proposal is left.
LEMMA SetGuardiansIndexed ==
  ASSUME IndexInv, NEW signer \in Keys, NEW r \in Requests, NEW relayer, NEW asked,
         SetGuardians(signer, r, relayer, asked), index' = Applied(index, emitted')
  PROVE  Right(index', wallet')
<1> DEFINE guardians == r.action.guardians
<1> DEFINE stored == [i \in Slots |-> GuardianSlotFrom(guardians[i])]
<1> DEFINE e == [type |-> "GuardiansSet", guardians |-> guardians]
<1> DEFINE a == Advanced(InitIfNeeded, signer)
<1> DEFINE u == Unproposed(Counted(Before(signer)))
<1> DEFINE v == [a EXCEPT !.rotation = EMPTY_ROTATION]
<1>1. /\ Authorized(InitIfNeeded, signer, r) /\ guardians \in [Slots -> Guardian]
      /\ Emit(InitIfNeeded, signer, e)
      /\ wallet' = [a EXCEPT !.guardians = stored, !.rotation = EMPTY_ROTATION]
  BY RequestType, ActionType DEF SetGuardians, WithGuardians
<1>2. index' = [u EXCEPT !.guardians = guardians]
  <2>1. index' = Apply(Before(signer), e)
    BY <1>1, EmitApplies
  <2> QED
    BY <2>1 DEF Apply
<1>3. a \in WalletState /\ Right(Counted(Before(signer)), a)
  BY <1>1, InitIfNeededWallet, AdvancedWallet, BeforeRight DEF IndexInv
<1> HIDE DEF a, u
<1>4. Right(u, v)
  BY <1>3, UnproposedRight DEF u
<1>5. wallet' = [v EXCEPT !.guardians = stored]
  BY <1>1, <1>3 DEF WalletState
<1>6. v \in WalletState
  BY <1>3, EmptyRotationType DEF WalletState
<1> HIDE DEF v, stored
<1>7. u \in Index /\ Describes(u, v)
  BY <1>4 DEF Right
<1>8. /\ index' \in Index /\ index'.key = u.key /\ index'.nonce = u.nonce
      /\ index'.guardians = guardians /\ index'.pending = u.pending
  BY <1>1, <1>2, <1>7 DEF Index
<1>9. /\ wallet'.active_key = v.active_key /\ wallet'.nonce = v.nonce
      /\ wallet'.guardians = stored /\ wallet'.rotation = v.rotation
  BY <1>5, <1>6 DEF WalletState
<1>10. u.pending = FALSE
  <2>1. Counted(Before(signer)) \in Index
    BY <1>3 DEF Right
  <2> QED
    BY <2>1 DEF u, Unproposed, Index
<1> QED
  BY <1>7, <1>8, <1>9, <1>10 DEF Right, Describes, stored

\* RotationCancelled: no proposal is left.
LEMMA CancelRotationIndexed ==
  ASSUME IndexInv, NEW signer \in Keys, NEW r \in Requests, NEW relayer, NEW asked,
         CancelRotation(signer, r, relayer, asked), index' = Applied(index, emitted')
  PROVE  Right(index', wallet')
<1>1. /\ wallet # NoAccount /\ InitIfNeeded = wallet
      /\ Authorized(InitIfNeeded, signer, r)
      /\ wallet' = [Advanced(InitIfNeeded, signer) EXCEPT !.rotation = EMPTY_ROTATION]
  BY DEF CancelRotation, CanCancel, Cancelled, InitIfNeeded
<1> DEFINE e == [type |-> "RotationCancelled", new_key |-> wallet.rotation.new_key]
<1>2. emitted' = <<e>>
  BY DEF CancelRotation
<1>3. Before(signer) = index
  BY <1>1 DEF IndexInv, IInv, WalletWellFormed, WellFormed, Exists, Before
<1>4. index' = Unproposed(Counted(Before(signer)))
  <2>1. index' = Apply(index, e)
    BY <1>2, AppliedOne
  <2> QED
    BY <1>3, <2>1 DEF Apply
<1> QED
  BY <1>1, <1>4, InitIfNeededWallet, AdvancedWallet, BeforeRight, UnproposedRight DEF IndexInv

\* KeyRotated by the owner, RotationProposed by a guardian.
LEMMA ProposeRotationIndexed ==
  ASSUME IndexInv, NEW signer \in Keys, NEW r \in Requests, NEW relayer, NEW asked,
         ProposeRotation(signer, r, relayer, asked), index' = Applied(index, emitted')
  PROVE  Right(index', wallet')
<1> DEFINE a == Advanced(wallet, signer)
<1> DEFINE c == Counted(Before(signer))
<1> DEFINE key == r.action.new_key
<1>1. /\ wallet # NoAccount /\ InitIfNeeded = wallet /\ key \in AnyKey
      /\ Authorized(InitIfNeeded, signer, r)
  BY RequestType, ActionType DEF ProposeRotation, InitIfNeeded
<1>2. Before(signer) = index
  BY <1>1 DEF IndexInv, IInv, WalletWellFormed, WellFormed, Exists, Before
<1>3. a \in WalletState /\ Right(c, a)
  BY <1>1, InitIfNeededWallet, AdvancedWallet, BeforeRight DEF IndexInv
<1>4. CASE signer = wallet.active_key
  <2> DEFINE e == KeyRotated(key, FALSE)
  <2>1. emitted' = <<e>> /\ wallet' = Rotated(a, key)
    BY <1>4 DEF ProposeRotation, Rotate
  <2>2. index' = [Unproposed(c) EXCEPT !.key = key]
    <3>1. index' = Apply(index, e)
      BY <2>1, AppliedOne
    <3> QED
      BY <1>2, <3>1 DEF Apply, KeyRotated
  <2> HIDE DEF a, c
  <2> QED
    BY <1>1, <1>3, <2>1, <2>2, RotatedRight
<1>5. CASE signer # wallet.active_key
  <2> DEFINE slot == P256Guardian(a, signer)
  <2> DEFINE pending == [pending |-> TRUE, new_key |-> key,
                         proposed_at |-> now, proposed_by |-> slot]
  <2> DEFINE e == [type |-> "RotationProposed", new_key |-> key,
                   guardian |-> signer, opens_at |-> OpensAt(pending)]
  <2> DEFINE proposal == [new_key |-> key, opens_at |-> OpensAt(pending), guardian |-> signer]
  <2>1. /\ emitted' = <<e>> /\ wallet' = [a EXCEPT !.rotation = pending]
        /\ GuardianSlotsOf(a, signer) # {}
    BY <1>5 DEF ProposeRotation, Propose
  <2>2. index' = [c EXCEPT !.pending = TRUE, !.proposal = proposal]
    <3>1. index' = Apply(index, e)
      BY <2>1, AppliedOne
    <3> QED
      BY <1>2, <3>1 DEF Apply
  <2>3. slot \in Slots /\ a.guardians[slot].key = signer
    BY <2>1, P256GuardianIsFirst DEF GuardianSlotsOf
  <2>4. OpensAt(pending) \in Nat
    BY OpensAtType, ParametersAssumption DEF IndexInv, IInv, TypeOK
  <2>5. proposal \in [new_key : AnyKey, opens_at : Nat, guardian : AnyKey]
    BY <1>1, <2>4 DEF AnyKey
  <2> HIDE DEF a, c
  <2>6. c \in Index /\ Describes(c, a)
    BY <1>3 DEF Right
  <2>7. pending.pending = TRUE /\ pending.new_key = key /\ pending.proposed_by = slot
    OBVIOUS
  <2>8. proposal.new_key = key /\ proposal.opens_at = OpensAt(pending) /\ proposal.guardian = signer
    OBVIOUS
  <2> HIDE DEF pending, proposal, slot
  <2>9. /\ index' \in Index /\ index'.key = c.key /\ index'.nonce = c.nonce
        /\ index'.guardians = c.guardians /\ index'.pending = TRUE
        /\ index'.proposal = proposal
    BY <2>2, <2>5, <2>6 DEF Index
  <2>10. /\ wallet'.active_key = a.active_key /\ wallet'.nonce = a.nonce
         /\ wallet'.guardians = a.guardians /\ wallet'.rotation = pending
    BY <1>3, <2>1 DEF WalletState
  <2>11. Describes(index', wallet')
    BY <2>3, <2>6, <2>7, <2>8, <2>9, <2>10 DEF Describes
  <2> QED
    BY <2>9, <2>11 DEF Right
<1> QED
  BY <1>4, <1>5

\* KeyRotated without a signature.
LEMMA ConfirmRotationIndexed ==
  ASSUME IndexInv, ConfirmRotation, index' = Applied(index, emitted')
  PROVE  Right(index', wallet')
<1> DEFINE key == wallet.rotation.new_key
<1> DEFINE e == KeyRotated(key, TRUE)
<1>1. /\ wallet \in WalletState /\ Right(index, wallet) /\ key \in AnyKey
      /\ emitted' = <<e>> /\ wallet' = Rotated(wallet, key)
  BY DEF ConfirmRotation, IndexInv, Exists, IInv, TypeOK, WalletState, RotationSlot
<1>2. index' = [Unproposed(index) EXCEPT !.key = key]
  <2>1. index' = Apply(index, e)
    BY <1>1, AppliedOne
  <2> QED
    BY <2>1 DEF Apply, KeyRotated
<1> QED
  BY <1>1, <1>2, RotatedRight

\* WalletClosed: there is nothing to know.
LEMMA CloseWalletIndexed ==
  ASSUME NEW signer, NEW r, NEW relayer, NEW asked, CloseWallet(signer, r, relayer, asked),
         index' = Applied(index, emitted')
  PROVE  index' = NoAccount /\ wallet' = NoAccount
<1> DEFINE e == Payout("WalletClosed", r, CloseAmount(r, asked), CloseRefund(r, asked))
<1>1. emitted' = <<e>> /\ wallet' = NoAccount
  BY DEF CloseWallet
<1>2. index' = Apply(index, e)
  BY <1>1, AppliedOne
<1> QED
  BY <1>1, <1>2 DEF Apply, Payout

\* IndexInv is inductive.
LEMMA IndexNextInv == IndexInv /\ [IndexNext]_indexVars => IndexInv'
<1> SUFFICES ASSUME IndexInv, [IndexNext]_indexVars PROVE IndexInv'
  OBVIOUS
<1>1. IInv'
  BY NextInv DEF IndexInv, IndexNext, indexVars
<1>2. CASE Right(index', wallet') /\ wallet' # NoAccount
  BY <1>1, <1>2 DEF IndexInv, Exists
<1>3. CASE index' = NoAccount /\ wallet' = NoAccount
  BY <1>1, <1>3 DEF IndexInv, Exists
<1>4. CASE UNCHANGED <<wallet, index>>
  BY <1>1, <1>4 DEF IndexInv, Exists, Right, Describes, OpensAt
<1>5. ASSUME IndexNext, NEW signer \in Keys, NEW r \in Requests, NEW relayer \in Relayers,
             NEW asked \in RelayerFees, Execute(signer, r, relayer, asked)
      PROVE  IndexInv'
  <2>1. index' = Applied(index, emitted')
    BY <1>5 DEF IndexNext
  <2>2. CASE CloseWallet(signer, r, relayer, asked)
    BY <1>3, <2>1, <2>2, CloseWalletIndexed
  <2>3. CASE ~CloseWallet(signer, r, relayer, asked)
    <3>1. Right(index', wallet')
      BY <1>5, <2>1, <2>3, PaymentIndexed, SetGuardiansIndexed, ProposeRotationIndexed,
         CancelRotationIndexed DEF Execute
    <3>2. wallet' \in WalletState
      BY <1>5, <2>3, TransferSolInv, SweepVaultInv, SetGuardiansInv, ProposeRotationInv,
         CancelRotationInv DEF Execute, IndexInv
    <3> QED
      BY <1>2, <3>1, <3>2, NoAccountAssumption
  <2> QED
    BY <2>2, <2>3
<1>6. CASE IndexNext /\ ConfirmRotation
  <2>1. wallet \in WalletState /\ WellFormed(wallet) /\ wallet.rotation.pending
    BY <1>6 DEF ConfirmRotation, IndexInv, IInv, TypeOK, WalletWellFormed, Exists
  <2>2. wallet.rotation.new_key \in AnyKey /\ wallet.rotation.new_key # ZeroKey
    BY <2>1 DEF WellFormed, WalletState, RotationSlot
  <2>3. wallet' \in WalletState
    BY <1>6, <2>1, <2>2, RotatedWallet DEF ConfirmRotation
  <2> QED
    BY <1>2, <1>6, <2>3, ConfirmRotationIndexed, NoAccountAssumption DEF IndexNext
<1>7. CASE IndexNext /\ emitted' = <<>> /\ UNCHANGED wallet
  BY <1>4, <1>7, AppliedNone DEF IndexNext
<1> QED
  BY <1>4, <1>5, <1>6, <1>7 DEF IndexNext, Next, Unsigned, Deposit, Tick, indexVars, vars

\* An indexer that only follows the events knows the wallet as the state
\* account has it, after any sequence of instructions (events.rs, and the
\* emit_cpi! calls of the handlers).
THEOREM EventsTellTheState == IndexSpec => []IndexAgrees
<1>1. IndexInit => IndexInv
  BY InitInv DEF IndexInit, IndexInv, Init, Exists
<1>2. IndexInv => IndexAgrees
  BY IndexAssumption DEF IndexInv, IndexAgrees, Right
<1> QED
  BY <1>1, <1>2, IndexNextInv, PTL DEF IndexSpec

-----------------------------------------------------------------------------
(* The device: byte strings, and the windows it reads of them.             *)

Bytes == Seq(Nat)

\* What a window on a byte string holds.
LEMMA AtBytes ==
  ASSUME NEW s \in Bytes, NEW n \in Nat, NEW len \in Nat, n + len <= Len(s)
  PROVE  /\ At(s, n, len) \in Bytes
         /\ Len(At(s, n, len)) = len
         /\ \A j \in 1 .. len : At(s, n, len)[j] = s[n + j]
<1>1. \A i \in n + 1 .. n + len : s[i] \in Nat
  BY DEF Bytes
<1>2. /\ At(s, n, len) \in Seq(Nat)
      /\ Len(At(s, n, len)) = IF n + 1 <= n + len THEN n + len - (n + 1) + 1 ELSE 0
      /\ \A i \in 1 .. n + len - (n + 1) + 1 : At(s, n, len)[i] = s[n + 1 + i - 1]
  BY <1>1, SubSeqProperties DEF At
<1> QED
  BY <1>2 DEF Bytes

\* Byte strings are equal when they agree everywhere.
LEMMA SameBytes ==
  ASSUME NEW s \in Bytes, NEW t \in Bytes, Len(s) = Len(t), \A j \in 1 .. Len(s) : s[j] = t[j]
  PROVE  s = t
  BY SeqEqual DEF Bytes

\* Byte strings, one behind the other.
LEMMA ConcatBytes ==
  ASSUME NEW s \in Bytes, NEW t \in Bytes
  PROVE  /\ s \o t \in Bytes
         /\ Len(s \o t) = Len(s) + Len(t)
         /\ \A i \in 1 .. Len(s) + Len(t) :
              (s \o t)[i] = IF i <= Len(s) THEN s[i] ELSE t[i - Len(s)]
  BY ConcatProperties DEF Bytes

\* A window on a concatenation is a window on the part it lies in.
LEMMA AtConcat ==
  ASSUME NEW s \in Bytes, NEW t \in Bytes, NEW n \in Nat, NEW len \in Nat
  PROVE  /\ n + len <= Len(s) => At(s \o t, n, len) = At(s, n, len)
         /\ n + len <= Len(t) => At(s \o t, Len(s) + n, len) = At(t, n, len)
<1>0. Len(s) \in Nat /\ Len(t) \in Nat
  BY DEF Bytes
<1>1. ASSUME n + len <= Len(s) PROVE At(s \o t, n, len) = At(s, n, len)
  <2>0. s \o t \in Bytes /\ n + len <= Len(s \o t)
    BY <1>0, <1>1, ConcatBytes
  <2>1. /\ At(s \o t, n, len) \in Bytes /\ Len(At(s \o t, n, len)) = len
        /\ \A j \in 1 .. len : At(s \o t, n, len)[j] = (s \o t)[n + j]
    BY <2>0, AtBytes
  <2>2. /\ At(s, n, len) \in Bytes /\ Len(At(s, n, len)) = len
        /\ \A j \in 1 .. len : At(s, n, len)[j] = s[n + j]
    BY <1>1, AtBytes
  <2>3. \A j \in 1 .. len : (s \o t)[n + j] = s[n + j]
    BY <1>0, <1>1, ConcatBytes
  <2> QED
    BY <2>1, <2>2, <2>3, SameBytes
<1>2. ASSUME n + len <= Len(t) PROVE At(s \o t, Len(s) + n, len) = At(t, n, len)
  <2>0. s \o t \in Bytes /\ Len(s) + n \in Nat /\ Len(s) + n + len <= Len(s \o t)
    BY <1>0, <1>2, ConcatBytes
  <2>1. /\ At(s \o t, Len(s) + n, len) \in Bytes /\ Len(At(s \o t, Len(s) + n, len)) = len
        /\ \A j \in 1 .. len : At(s \o t, Len(s) + n, len)[j] = (s \o t)[Len(s) + n + j]
    BY <2>0, AtBytes
  <2>2. /\ At(t, n, len) \in Bytes /\ Len(At(t, n, len)) = len
        /\ \A j \in 1 .. len : At(t, n, len)[j] = t[n + j]
    BY <1>2, AtBytes
  <2>3. \A j \in 1 .. len : (s \o t)[Len(s) + n + j] = t[n + j]
    BY <1>0, <1>2, ConcatBytes
  <2> QED
    BY <2>1, <2>2, <2>3, SameBytes
<1> QED
  BY <1>1, <1>2

\* The whole of a byte string, and a window on a window.
LEMMA AtAll ==
  ASSUME NEW s \in Bytes
  PROVE  At(s, 0, Len(s)) = s
  BY SubSeqFull DEF At, Bytes

\* A window on a window is a window.
LEMMA AtAt ==
  ASSUME NEW s \in Bytes, NEW n \in Nat, NEW m \in Nat, n + m <= Len(s),
         NEW k \in Nat, NEW len \in Nat, k + len <= m
  PROVE  At(At(s, n, m), k, len) = At(s, n + k, len)
<1> DEFINE t == At(s, n, m)
<1>0. Len(s) \in Nat
  BY DEF Bytes
<1>1. t \in Bytes /\ Len(t) = m /\ \A j \in 1 .. m : t[j] = s[n + j]
  BY AtBytes
<1> HIDE DEF t
<1>2. /\ At(t, k, len) \in Bytes /\ Len(At(t, k, len)) = len
      /\ \A j \in 1 .. len : At(t, k, len)[j] = t[k + j]
  BY <1>1, AtBytes
<1>3. /\ At(s, n + k, len) \in Bytes /\ Len(At(s, n + k, len)) = len
      /\ \A j \in 1 .. len : At(s, n + k, len)[j] = s[n + k + j]
  <2>1. n + k \in Nat /\ n + k + len <= Len(s)
    BY <1>0
  <2> QED
    BY <2>1, AtBytes
<1>4. \A j \in 1 .. len : t[k + j] = s[n + k + j]
  BY <1>1
<1> QED
  BY <1>2, <1>3, <1>4, SameBytes DEF t

-----------------------------------------------------------------------------
(* The parts the program writes, each of its own length. *)

\* Bytes are numbers.
LEMMA BytesAreNat ==
  ASSUME NEW n \in Nat, NEW f \in [1 .. n -> 0 .. 255]
  PROVE  f \in Bytes /\ Len(f) = n
<1>1. f \in Seq(0 .. 255) /\ Len(f) = n
  OBVIOUS
<1>2. 0 .. 255 \subseteq Nat
  OBVIOUS
<1> QED
  BY <1>1, <1>2, SeqMonotonic DEF Bytes

\* The fields whose bytes are constants, and their lengths.
LEMMA ConstantBytes ==
  /\ {DISCRIMINATOR, WalletId, RpIdHashZero} \subseteq Bytes
  /\ COMPRESSED_PUBKEY_LEN \in Nat
  /\ \A k \in AnyKey : KeyBytes[k] \in Bytes /\ Len(KeyBytes[k]) = COMPRESSED_PUBKEY_LEN
  /\ \A n \in 0 .. U64Max : U64ToLeBytes[n] \in Bytes /\ Len(U64ToLeBytes[n]) = WORD_LEN
  /\ \A n \in 0 .. I64Max : I64ToLeBytes[n] \in Bytes /\ Len(I64ToLeBytes[n]) = WORD_LEN
<1>1. \A s \in Seq(0 .. 255) : s \in Bytes
  <2>1. 0 .. 255 \subseteq Nat
    OBVIOUS
  <2> QED
    BY <2>1, SeqMonotonic DEF Bytes
<1>2. COMPRESSED_PUBKEY_LEN \in Nat
  BY LayoutAssumption DEF COMPRESSED_PUBKEY_LEN
<1>3. WORD_LEN \in Nat
  BY DEF WORD_LEN
<1>4. \A k \in AnyKey : KeyBytes[k] \in [1 .. COMPRESSED_PUBKEY_LEN -> 0 .. 255]
  BY LayoutAssumption
<1>5. \A n \in 0 .. U64Max : U64ToLeBytes[n] \in [1 .. WORD_LEN -> 0 .. 255]
  BY LayoutAssumption
<1>6. \A n \in 0 .. I64Max : I64ToLeBytes[n] \in [1 .. WORD_LEN -> 0 .. 255]
  BY LayoutAssumption
<1>7. {DISCRIMINATOR, WalletId, RpIdHashZero} \subseteq Seq(0 .. 255)
  BY LayoutAssumption
<1>8. {DISCRIMINATOR, WalletId, RpIdHashZero} \subseteq Bytes
  BY <1>1, <1>7
<1>9. \A k \in AnyKey : KeyBytes[k] \in Bytes /\ Len(KeyBytes[k]) = COMPRESSED_PUBKEY_LEN
  BY <1>2, <1>4, BytesAreNat
<1>10. \A n \in 0 .. U64Max : U64ToLeBytes[n] \in Bytes /\ Len(U64ToLeBytes[n]) = WORD_LEN
  BY <1>3, <1>5, BytesAreNat
<1>11. \A n \in 0 .. I64Max : I64ToLeBytes[n] \in Bytes /\ Len(I64ToLeBytes[n]) = WORD_LEN
  BY <1>3, <1>6, BytesAreNat
<1> QED
  BY <1>2, <1>8, <1>9, <1>10, <1>11

\* A field of one byte.
LEMMA OneByte ==
  ASSUME NEW b \in Nat
  PROVE  <<b>> \in Bytes /\ Len(<<b>>) = 1
  BY DEF Bytes

\* Two fields in a row, each found behind the other.
LEMMA Field ==
  ASSUME NEW s \in Bytes, NEW t \in Bytes
  PROVE  /\ s \o t \in Bytes
         /\ Len(s \o t) = Len(s) + Len(t)
         /\ At(s \o t, 0, Len(s)) = s
         /\ At(s \o t, Len(s), Len(t)) = t
<1>1. Len(s) \in Nat /\ Len(t) \in Nat
  BY DEF Bytes
<1>2. At(s \o t, 0, Len(s)) = At(s, 0, Len(s))
  BY <1>1, AtConcat
<1>3. At(s \o t, Len(s) + 0, Len(t)) = At(t, 0, Len(t))
  BY <1>1, AtConcat
<1>4. Len(s) + 0 = Len(s)
  BY <1>1
<1> QED
  BY <1>2, <1>3, <1>4, AtAll, ConcatBytes

\* A slot: its kind, its key, its relying party.
LEMMA SlotFields ==
  ASSUME NEW slot \in GuardianSlot
  PROVE  LET kind == <<KindByte(slot.kind)>>
             bytes == SlotBytes(slot)
         IN  /\ bytes \in Bytes /\ Len(bytes) = GUARDIAN_SLOT_LEN
             /\ KindByte(slot.kind) \in Nat
             /\ At(bytes, 0, 1) = kind
             /\ At(bytes, 1, COMPRESSED_PUBKEY_LEN) = KeyBytes[slot.key]
             /\ At(bytes, 1 + COMPRESSED_PUBKEY_LEN, Len(RpIdHashZero)) = RpIdHashZero
             /\ At(bytes, 0, 1 + COMPRESSED_PUBKEY_LEN) = kind \o KeyBytes[slot.key]
<1> DEFINE kind == <<KindByte(slot.kind)>>
<1> DEFINE key == KeyBytes[slot.key]
<1> DEFINE front == kind \o key
<1> DEFINE bytes == front \o RpIdHashZero
<1>0. COMPRESSED_PUBKEY_LEN \in Nat /\ Len(RpIdHashZero) \in Nat
  BY ConstantBytes DEF Bytes
<1>1. KindByte(slot.kind) \in Nat
  BY DEF GuardianSlot, KindByte, GUARDIAN_KIND_NONE, GUARDIAN_KIND_P256, GUARDIAN_KIND_WEBAUTHN
<1>2. kind \in Bytes /\ Len(kind) = 1
  BY <1>1, OneByte
<1>3. key \in Bytes /\ Len(key) = COMPRESSED_PUBKEY_LEN
  BY ConstantBytes DEF GuardianSlot
<1>4. bytes = SlotBytes(slot)
  BY DEF SlotBytes
<1> HIDE DEF kind, key
<1>5. /\ front \in Bytes /\ Len(front) = 1 + COMPRESSED_PUBKEY_LEN
      /\ At(front, 0, 1) = kind /\ At(front, 1, COMPRESSED_PUBKEY_LEN) = key
  <2>1. /\ front \in Bytes /\ Len(front) = Len(kind) + Len(key)
        /\ At(front, 0, Len(kind)) = kind /\ At(front, Len(kind), Len(key)) = key
    BY <1>2, <1>3, Field
  <2> HIDE DEF front
  <2> QED
    BY <1>2, <1>3, <2>1
<1>6. RpIdHashZero \in Bytes
  BY ConstantBytes
<1> HIDE DEF front
<1>7. /\ bytes \in Bytes /\ Len(bytes) = GUARDIAN_SLOT_LEN
      /\ At(bytes, 0, 1 + COMPRESSED_PUBKEY_LEN) = front
      /\ At(bytes, 1 + COMPRESSED_PUBKEY_LEN, Len(RpIdHashZero)) = RpIdHashZero
  BY <1>5, <1>6, Field DEF GUARDIAN_SLOT_LEN
<1>8. /\ At(bytes, 0, 1) = At(front, 0, 1)
      /\ At(bytes, 1, COMPRESSED_PUBKEY_LEN) = At(front, 1, COMPRESSED_PUBKEY_LEN)
  BY <1>0, <1>5, <1>6, AtConcat
<1> QED
  BY <1>1, <1>4, <1>5, <1>7, <1>8 DEF kind, key, front

\* The rotation: whether it is pending, the key, when and by whom.
LEMMA RotationFields ==
  ASSUME NEW rotation \in RotationSlot
  PROVE  LET pending == <<BoolByte(rotation.pending)>>
             bytes == RotationBytes(rotation)
             at == 1 + COMPRESSED_PUBKEY_LEN
         IN  /\ bytes \in Bytes /\ Len(bytes) = at + WORD_LEN + 1
             /\ BoolByte(rotation.pending) \in Nat
             /\ At(bytes, 0, 1) = pending
             /\ At(bytes, 1, COMPRESSED_PUBKEY_LEN) = KeyBytes[rotation.new_key]
             /\ At(bytes, at, WORD_LEN) = I64ToLeBytes[rotation.proposed_at]
             /\ At(bytes, at + WORD_LEN, 1) = <<rotation.proposed_by>>
             /\ At(bytes, 0, at) = pending \o KeyBytes[rotation.new_key]
<1> DEFINE pending == <<BoolByte(rotation.pending)>>
<1> DEFINE key == KeyBytes[rotation.new_key]
<1> DEFINE time == I64ToLeBytes[rotation.proposed_at]
<1> DEFINE by == <<rotation.proposed_by>>
<1> DEFINE at == 1 + COMPRESSED_PUBKEY_LEN
<1> DEFINE front == pending \o key
<1> DEFINE most == front \o time
<1> DEFINE bytes == most \o by
<1>0. at \in Nat /\ COMPRESSED_PUBKEY_LEN \in Nat /\ WORD_LEN \in Nat
  BY ConstantBytes DEF WORD_LEN
<1>1. BoolByte(rotation.pending) \in Nat
  BY DEF BoolByte
<1>2. pending \in Bytes /\ Len(pending) = 1
  BY <1>1, OneByte
<1>3. key \in Bytes /\ Len(key) = COMPRESSED_PUBKEY_LEN
  BY ConstantBytes DEF RotationSlot
<1>4. time \in Bytes /\ Len(time) = WORD_LEN
  BY ConstantBytes DEF RotationSlot
<1>5. by \in Bytes /\ Len(by) = 1
  BY OneByte, ParametersAssumption DEF RotationSlot, Slots
<1>6. bytes = RotationBytes(rotation)
  BY DEF RotationBytes
<1> HIDE DEF pending, key, time, by
<1>7. /\ front \in Bytes /\ Len(front) = at
      /\ At(front, 0, 1) = pending /\ At(front, 1, COMPRESSED_PUBKEY_LEN) = key
  <2>1. /\ front \in Bytes /\ Len(front) = Len(pending) + Len(key)
        /\ At(front, 0, Len(pending)) = pending /\ At(front, Len(pending), Len(key)) = key
    BY <1>2, <1>3, Field
  <2> HIDE DEF front
  <2> QED
    BY <1>2, <1>3, <2>1
<1> HIDE DEF front
<1>8. /\ most \in Bytes /\ Len(most) = at + WORD_LEN
      /\ At(most, 0, at) = front /\ At(most, at, WORD_LEN) = time
      /\ At(most, 0, 1) = At(front, 0, 1)
      /\ At(most, 1, COMPRESSED_PUBKEY_LEN) = At(front, 1, COMPRESSED_PUBKEY_LEN)
  <2>1. /\ most \in Bytes /\ Len(most) = Len(front) + Len(time)
        /\ At(most, 0, Len(front)) = front /\ At(most, Len(front), Len(time)) = time
    BY <1>4, <1>7, Field
  <2>2. 0 + 1 <= Len(front) /\ 1 + COMPRESSED_PUBKEY_LEN <= Len(front)
    BY <1>0, <1>7
  <2>3. /\ At(most, 0, 1) = At(front, 0, 1)
        /\ At(most, 1, COMPRESSED_PUBKEY_LEN) = At(front, 1, COMPRESSED_PUBKEY_LEN)
    BY <1>0, <1>4, <1>7, <2>2, AtConcat
  <2> HIDE DEF most
  <2> QED
    BY <1>4, <1>7, <2>1, <2>3
<1> HIDE DEF most
<1>9. /\ bytes \in Bytes /\ Len(bytes) = at + WORD_LEN + 1
      /\ At(bytes, at + WORD_LEN, 1) = by
      /\ At(bytes, 0, at) = At(most, 0, at) /\ At(bytes, at, WORD_LEN) = At(most, at, WORD_LEN)
      /\ At(bytes, 0, 1) = At(most, 0, 1)
      /\ At(bytes, 1, COMPRESSED_PUBKEY_LEN) = At(most, 1, COMPRESSED_PUBKEY_LEN)
  <2>1. /\ bytes \in Bytes /\ Len(bytes) = Len(most) + Len(by)
        /\ At(bytes, Len(most), Len(by)) = by
    BY <1>5, <1>8, Field
  <2>2. /\ 0 + 1 <= Len(most) /\ 1 + COMPRESSED_PUBKEY_LEN <= Len(most)
        /\ 0 + at <= Len(most) /\ at + WORD_LEN <= Len(most)
    BY <1>0, <1>8
  <2>3. /\ At(bytes, 0, at) = At(most, 0, at)
        /\ At(bytes, at, WORD_LEN) = At(most, at, WORD_LEN)
        /\ At(bytes, 0, 1) = At(most, 0, 1)
        /\ At(bytes, 1, COMPRESSED_PUBKEY_LEN) = At(most, 1, COMPRESSED_PUBKEY_LEN)
    BY <1>0, <1>5, <1>8, <2>2, AtConcat
  <2> HIDE DEF bytes
  <2> QED
    BY <1>5, <1>8, <2>1, <2>3
<1> QED
  BY <1>1, <1>6, <1>7, <1>8, <1>9 DEF pending, key, time, by, front

-----------------------------------------------------------------------------
(* Slots of one length, one after another. *)

\* A set of naturals has a least element.
LEMMA LeastElement ==
  ASSUME NEW T, T \subseteq Nat, T # {}
  PROVE  \E i \in T : \A j \in T : i <= j
<1>1. PICK i \in T : \A j \in T : ~ (<<j, i>> \in OpToRel(<, Nat))
  BY NatLessThanWellFounded, WFMin
<1>2. ASSUME NEW j \in T PROVE i <= j
  <2>1. ~ (j < i)
    BY <1>1 DEF OpToRel
  <2> QED
    BY <2>1
<1> QED
  BY <1>2

\* Multiples of a length: the nonlinear facts, once.
LEMMA Multiples ==
  ASSUME NEW a \in Nat, NEW b \in Nat, NEW len \in Nat, a <= b
  PROVE  /\ a * len \in Nat
         /\ a * len <= b * len
         /\ (a + 1) * len = a * len + len
  OBVIOUS

\* FlattenSeq unrolled: each entry is the one before it and the next part.
LEMMA Flattening ==
  ASSUME NEW m \in Nat \ {0}, NEW seqs \in [1 .. m -> Bytes]
  PROVE  \E f : /\ FlattenSeq(seqs) = f[m]
                /\ f[1] = seqs[1]
                /\ \A i \in 2 .. m : f[i] = f[i - 1] \o seqs[i]
<1> DEFINE Entry(f, i) == IF i = 1 THEN seqs[i] ELSE f[i - 1] \o seqs[i]
<1> DEFINE IsFlat(f, n) == f = [i \in 1 .. n |-> Entry(f, i)]
<1>1. \A n \in Nat : \E f : IsFlat(f, n)
  <2> DEFINE T == {n \in Nat : ~ \E f : IsFlat(f, n)}
  <2> SUFFICES ASSUME T # {} PROVE FALSE
    OBVIOUS
  <2>1. PICK n \in T : \A j \in T : n <= j
    BY LeastElement
  <2>2. n \in Nat /\ n # 0
    <3>1. IsFlat([i \in 1 .. 0 |-> seqs[1]], 0)
      OBVIOUS
    <3> QED
      BY <2>1, <3>1
  <2>3. PICK f : IsFlat(f, n - 1)
    <3>1. n - 1 \in Nat /\ ~(n <= n - 1)
      BY <2>2
    <3> HIDE DEF IsFlat
    <3> QED
      BY <2>1, <3>1
  <2> DEFINE g == [i \in 1 .. n |-> Entry(f, i)]
  <2>4. ASSUME NEW i \in 1 .. n - 1 PROVE g[i] = f[i]
    <3>1. i \in 1 .. n
      BY <2>2
    <3> HIDE DEF Entry
    <3>2. g[i] = Entry(f, i) /\ f[i] = Entry(f, i)
      BY <2>3, <3>1
    <3> QED
      BY <3>2
  <2>5. ASSUME NEW i \in 1 .. n PROVE Entry(f, i) = Entry(g, i)
    <3>1. CASE i = 1
      BY <3>1
    <3>2. CASE i # 1
      <4>1. i - 1 \in 1 .. n - 1
        BY <2>2, <3>2
      <4>2. g[i - 1] = f[i - 1]
        BY <2>4, <4>1
      <4> HIDE DEF g
      <4> QED
        BY <4>2
    <3> QED
      BY <3>1, <3>2
  <2>6. IsFlat(g, n)
    <3> HIDE DEF Entry
    <3> QED
      BY <2>5
  <2> HIDE DEF IsFlat
  <2> QED
    BY <2>1, <2>6
<1>2. Len(seqs) = m
  OBVIOUS
<1> DEFINE flatten == CHOOSE f : IsFlat(f, m)
<1>3. FlattenSeq(seqs) = flatten[m]
  BY <1>2 DEF FlattenSeq
<1>4. IsFlat(flatten, m)
  BY <1>1
<1> HIDE DEF flatten
<1>5. ASSUME NEW i \in 1 .. m PROVE flatten[i] = Entry(flatten, i)
  <2> HIDE DEF Entry
  <2> QED
    BY <1>4
<1>6. flatten[1] = seqs[1]
  <2>1. 1 \in 1 .. m
    OBVIOUS
  <2> QED
    BY <1>5, <2>1
<1>7. ASSUME NEW i \in 2 .. m PROVE flatten[i] = flatten[i - 1] \o seqs[i]
  <2>1. i \in 1 .. m /\ i # 1
    OBVIOUS
  <2>2. flatten[i] = Entry(flatten, i)
    BY <1>5, <2>1
  <2> QED
    BY <2>1, <2>2
<1> QED
  BY <1>3, <1>6, <1>7

\* Parts of one length lie at the multiples of it.
LEMMA FlattenedSlots ==
  ASSUME NEW m \in Nat \ {0}, NEW len \in Nat, NEW seqs \in [1 .. m -> Bytes],
         \A i \in 1 .. m : Len(seqs[i]) = len
  PROVE  /\ FlattenSeq(seqs) \in Bytes
         /\ Len(FlattenSeq(seqs)) = m * len
         /\ \A k \in 1 .. m : At(FlattenSeq(seqs), (k - 1) * len, len) = seqs[k]
<1>1. PICK f : /\ FlattenSeq(seqs) = f[m]
               /\ f[1] = seqs[1]
               /\ \A i \in 2 .. m : f[i] = f[i - 1] \o seqs[i]
  BY Flattening
<1> DEFINE Good(i) ==
      /\ f[i] \in Bytes
      /\ Len(f[i]) = i * len
      /\ \A k \in 1 .. i : At(f[i], (k - 1) * len, len) = seqs[k]
<1>2. Good(1)
  <2>1. /\ seqs[1] \in Bytes /\ Len(seqs[1]) = len /\ At(seqs[1], 0, Len(seqs[1])) = seqs[1]
    BY AtAll
  <2>2. 1 * len = len /\ (1 - 1) * len = 0
    OBVIOUS
  <2> QED
    BY <1>1, <2>1, <2>2
<1>3. ASSUME NEW i \in 2 .. m, Good(i - 1)
      PROVE  Good(i)
  <2>0. i \in 1 .. m /\ i - 1 \in Nat
    OBVIOUS
  <2>1. /\ f[i - 1] \in Bytes /\ Len(f[i - 1]) = (i - 1) * len
        /\ seqs[i] \in Bytes /\ Len(seqs[i]) = len /\ f[i] = f[i - 1] \o seqs[i]
        /\ i - 1 \in Nat /\ (i - 1) * len \in Nat
    <3>1. f[i - 1] \in Bytes /\ Len(f[i - 1]) = (i - 1) * len
      BY <1>3
    <3>2. seqs[i] \in Bytes /\ Len(seqs[i]) = len
      BY <2>0
    <3>3. f[i] = f[i - 1] \o seqs[i]
      BY <1>1
    <3>4. (i - 1) * len \in Nat
      BY <2>0, Multiples
    <3> QED
      BY <2>0, <3>1, <3>2, <3>3, <3>4
  <2> DEFINE before == f[i - 1]
  <2> DEFINE part == seqs[i]
  <2>2. i * len = (i - 1) * len + len
    <3>1. ((i - 1) + 1) * len = (i - 1) * len + len
      BY <2>1, Multiples
    <3> QED
      BY <3>1
  <2> HIDE DEF Good
  <2>3. f[i] \in Bytes /\ Len(f[i]) = i * len
    BY <2>1, <2>2, ConcatBytes
  <2>4. ASSUME NEW k \in 1 .. i
        PROVE  At(f[i], (k - 1) * len, len) = seqs[k]
    <3>1. CASE k = i
      <4> HIDE DEF before, part
      <4>1. At(before \o part, Len(before), Len(part)) = part
        BY <2>1, Field DEF before, part
      <4> QED
        BY <2>1, <3>1, <4>1 DEF before, part
    <3>2. CASE k # i
      <4>1. /\ k - 1 \in Nat /\ k \in Nat /\ k <= i - 1 /\ (k - 1) + 1 = k
            /\ k \in 1 .. i - 1
        BY <3>2
      <4>2. (k - 1) * len \in Nat /\ (k - 1) * len + len = k * len /\ k * len <= (i - 1) * len
        BY <2>1, <4>1, Multiples
      <4> DEFINE n == (k - 1) * len
      <4>3. before \in Bytes /\ part \in Bytes /\ n \in Nat /\ n + len <= Len(before)
        BY <2>1, <4>2
      <4> HIDE DEF before, part, n
      <4>4. At(before \o part, n, len) = At(before, n, len)
        BY <4>3, AtConcat
      <4> QED
        BY <1>3, <2>1, <4>1, <4>4 DEF Good, before, part, n
    <3> QED
      BY <3>1, <3>2
  <2> QED
    BY <2>3, <2>4 DEF Good
<1>4. \A i \in 1 .. m : Good(i)
  <2> DEFINE T == {i \in 1 .. m : ~Good(i)}
  <2> HIDE DEF Good
  <2> SUFFICES ASSUME T # {} PROVE FALSE
    OBVIOUS
  <2>1. PICK i \in T : \A j \in T : i <= j
    <3>1. T \subseteq Nat
      OBVIOUS
    <3> QED
      BY <3>1, LeastElement
  <2>2. i # 1 /\ i \in 1 .. m
    BY <1>2, <2>1
  <2>3. i \in 2 .. m /\ i - 1 \in 1 .. m /\ ~(i <= i - 1)
    BY <2>2
  <2>4. Good(i - 1)
    BY <2>1, <2>3
  <2> QED
    BY <1>3, <2>1, <2>3, <2>4
<1> QED
  BY <1>1, <1>4

-----------------------------------------------------------------------------
(* The account's data, part by part. *)

\* A part put behind the bytes before it.
LEMMA Appended ==
  ASSUME NEW s \in Bytes, NEW t \in Bytes
  PROVE  /\ s \o t \in Bytes
         /\ Len(s \o t) = Len(s) + Len(t)
         /\ At(s \o t, Len(s), Len(t)) = t
         /\ \A n, len \in Nat : n + len <= Len(s) => At(s \o t, n, len) = At(s, n, len)
<1>1. s \o t \in Bytes /\ Len(s \o t) = Len(s) + Len(t) /\ At(s \o t, Len(s), Len(t)) = t
  BY Field
<1>2. \A n, len \in Nat : n + len <= Len(s) => At(s \o t, n, len) = At(s, n, len)
  BY AtConcat
<1> QED
  BY <1>1, <1>2

\* The offsets and lengths are natural numbers.
LEMMA OffsetsType ==
  /\ {WALLET_ID_OFFSET, ACTIVE_KEY_OFFSET, NONCE_OFFSET, ATTESTED_OFFSET, GUARDIANS_OFFSET,
       GUARDIAN_SLOT_LEN, ROTATION_OFFSET, ROTATION_NEW_KEY_OFFSET,
       ROTATION_PROPOSED_AT_OFFSET, ROTATION_PROPOSED_BY_OFFSET, STATE_BUMP_OFFSET} \subseteq Nat
  /\ Len(DISCRIMINATOR) \in Nat /\ Len(WalletId) \in Nat /\ Len(RpIdHashZero) \in Nat
  /\ COMPRESSED_PUBKEY_LEN \in Nat /\ WORD_LEN \in Nat /\ MAX_GUARDIANS * GUARDIAN_SLOT_LEN \in Nat
<1>1. /\ Len(DISCRIMINATOR) \in Nat /\ Len(WalletId) \in Nat /\ Len(RpIdHashZero) \in Nat
      /\ COMPRESSED_PUBKEY_LEN \in Nat /\ WORD_LEN \in Nat
  BY ConstantBytes DEF Bytes, WORD_LEN
<1>2. GUARDIAN_SLOT_LEN \in Nat
  BY <1>1 DEF GUARDIAN_SLOT_LEN
<1>3. MAX_GUARDIANS * GUARDIAN_SLOT_LEN \in Nat
  BY <1>2, Multiples, ParametersAssumption
<1>4. GUARDIANS_OFFSET \in Nat
  BY <1>1 DEF WALLET_ID_OFFSET, ACTIVE_KEY_OFFSET, NONCE_OFFSET, ATTESTED_OFFSET, GUARDIANS_OFFSET
<1>5. {WALLET_ID_OFFSET, ACTIVE_KEY_OFFSET, NONCE_OFFSET, ATTESTED_OFFSET} \subseteq Nat
  BY <1>1 DEF WALLET_ID_OFFSET, ACTIVE_KEY_OFFSET, NONCE_OFFSET, ATTESTED_OFFSET
<1>6. {ROTATION_OFFSET, ROTATION_NEW_KEY_OFFSET, ROTATION_PROPOSED_AT_OFFSET,
       ROTATION_PROPOSED_BY_OFFSET, STATE_BUMP_OFFSET} \subseteq Nat
  <2>1. ROTATION_OFFSET \in Nat
    BY <1>3, <1>4 DEF ROTATION_OFFSET
  <2>2. ROTATION_NEW_KEY_OFFSET \in Nat
    BY <2>1 DEF ROTATION_NEW_KEY_OFFSET
  <2>3. ROTATION_PROPOSED_AT_OFFSET \in Nat
    BY <1>1, <2>2 DEF ROTATION_PROPOSED_AT_OFFSET
  <2>4. ROTATION_PROPOSED_BY_OFFSET \in Nat
    BY <1>1, <2>3 DEF ROTATION_PROPOSED_BY_OFFSET
  <2>5. STATE_BUMP_OFFSET \in Nat
    BY <2>4 DEF STATE_BUMP_OFFSET
  <2> QED
    BY <2>1, <2>2, <2>3, <2>4, <2>5
<1> QED
  BY <1>1, <1>2, <1>3, <1>4, <1>5, <1>6

RotationLen == 1 + COMPRESSED_PUBKEY_LEN + WORD_LEN + 1

SlotsOf(w) == [i \in 1 .. MAX_GUARDIANS |-> SlotBytes(w.guardians[i - 1])]

\* The guardian list takes MAX_GUARDIANS times a slot, each slot at its place.
LEMMA SlotsBytes ==
  ASSUME NEW w \in WalletState
  PROVE  /\ FlattenSeq(SlotsOf(w)) \in Bytes
         /\ Len(FlattenSeq(SlotsOf(w))) = MAX_GUARDIANS * GUARDIAN_SLOT_LEN
         /\ \A i \in Slots :
              At(FlattenSeq(SlotsOf(w)), i * GUARDIAN_SLOT_LEN, GUARDIAN_SLOT_LEN)
                = SlotBytes(w.guardians[i])
<1> DEFINE seqs == SlotsOf(w)
<1>1. ASSUME NEW i \in 1 .. MAX_GUARDIANS
      PROVE  seqs[i] = SlotBytes(w.guardians[i - 1]) /\ seqs[i] \in Bytes
             /\ Len(seqs[i]) = GUARDIAN_SLOT_LEN
  <2>1. i - 1 \in Slots
    BY ParametersAssumption DEF Slots
  <2>2. w.guardians[i - 1] \in GuardianSlot
    BY <2>1 DEF WalletState
  <2> QED
    BY <2>2, SlotFields DEF SlotsOf
<1>2. seqs \in [1 .. MAX_GUARDIANS -> Bytes]
  <2>1. DOMAIN seqs = 1 .. MAX_GUARDIANS /\ seqs = [i \in 1 .. MAX_GUARDIANS |-> seqs[i]]
    BY DEF SlotsOf
  <2> HIDE DEF seqs
  <2> QED
    BY <1>1, <2>1
<1>3. GUARDIAN_SLOT_LEN \in Nat /\ MAX_GUARDIANS \in Nat \ {0}
  BY OffsetsType, ParametersAssumption
<1> HIDE DEF seqs
<1>4. /\ FlattenSeq(seqs) \in Bytes
      /\ Len(FlattenSeq(seqs)) = MAX_GUARDIANS * GUARDIAN_SLOT_LEN
      /\ \A k \in 1 .. MAX_GUARDIANS :
           At(FlattenSeq(seqs), (k - 1) * GUARDIAN_SLOT_LEN, GUARDIAN_SLOT_LEN) = seqs[k]
  BY <1>1, <1>2, <1>3, FlattenedSlots
<1>5. ASSUME NEW i \in Slots
      PROVE  At(FlattenSeq(seqs), i * GUARDIAN_SLOT_LEN, GUARDIAN_SLOT_LEN)
               = SlotBytes(w.guardians[i])
  <2>1. i + 1 \in 1 .. MAX_GUARDIANS /\ (i + 1) - 1 = i
    BY ParametersAssumption DEF Slots
  <2>2. seqs[i + 1] = SlotBytes(w.guardians[(i + 1) - 1])
    BY <1>1, <2>1
  <2>3. At(FlattenSeq(seqs), ((i + 1) - 1) * GUARDIAN_SLOT_LEN, GUARDIAN_SLOT_LEN) = seqs[i + 1]
    BY <1>4, <2>1
  <2> QED
    BY <2>1, <2>2, <2>3
<1> QED
  BY <1>4, <1>5 DEF seqs

\* The data is head, guardians, rotation and bumps, of these lengths.
LEMMA DataParts ==
  ASSUME NEW w \in WalletState
  PROVE  LET data == Data(w)
         IN  /\ data \in Bytes /\ Len(data) = STATE_LEN
             /\ At(data, WALLET_ID_OFFSET, Len(WalletId)) = WalletId
             /\ At(data, ACTIVE_KEY_OFFSET, COMPRESSED_PUBKEY_LEN) = KeyBytes[w.active_key]
             /\ At(data, NONCE_OFFSET, WORD_LEN) = U64ToLeBytes[w.nonce]
             /\ At(data, ATTESTED_OFFSET, 1) = <<BoolByte(w.attested)>>
             /\ At(data, GUARDIANS_OFFSET, MAX_GUARDIANS * GUARDIAN_SLOT_LEN)
                  = FlattenSeq(SlotsOf(w))
             /\ At(data, ROTATION_OFFSET, RotationLen) = RotationBytes(w.rotation)
             /\ At(data, STATE_BUMP_OFFSET, 2) = <<StateBump, VaultBump>>
<1> DEFINE key == KeyBytes[w.active_key]
<1> DEFINE nonce == U64ToLeBytes[w.nonce]
<1> DEFINE attested == <<BoolByte(w.attested)>>
<1> DEFINE slots == FlattenSeq(SlotsOf(w))
<1> DEFINE rotation == RotationBytes(w.rotation)
<1> DEFINE bumps == <<StateBump, VaultBump>>
<1>1. key \in Bytes /\ Len(key) = COMPRESSED_PUBKEY_LEN
  BY ConstantBytes DEF WalletState
<1>2. nonce \in Bytes /\ Len(nonce) = WORD_LEN
  BY ConstantBytes DEF WalletState
<1>3. attested \in Bytes /\ Len(attested) = 1
  BY OneByte DEF BoolByte
<1>4. slots \in Bytes /\ Len(slots) = MAX_GUARDIANS * GUARDIAN_SLOT_LEN
  BY SlotsBytes
<1>5. rotation \in Bytes /\ Len(rotation) = RotationLen
  BY RotationFields DEF WalletState, RotationLen
<1>6. bumps \in Bytes /\ Len(bumps) = 2
  <2>1. StateBump \in 0 .. 255 /\ VaultBump \in 0 .. 255
    BY LayoutAssumption
  <2> QED
    BY <2>1 DEF Bytes
<1>7. DISCRIMINATOR \in Bytes /\ WalletId \in Bytes
  BY ConstantBytes
<1> HIDE DEF key, nonce, attested, slots, rotation, bumps
<1> DEFINE d1 == DISCRIMINATOR \o WalletId
<1> DEFINE d2 == d1 \o key
<1> DEFINE d3 == d2 \o nonce
<1> DEFINE d4 == d3 \o attested
<1> DEFINE d5 == d4 \o slots
<1> DEFINE d6 == d5 \o rotation
<1> DEFINE d7 == d6 \o bumps
<1>8. Data(w) = d7
  BY DEF Data, SlotsOf, key, nonce, attested, slots, rotation, bumps
<1>9. /\ d1 = DISCRIMINATOR \o WalletId /\ d2 = d1 \o key /\ d3 = d2 \o nonce
      /\ d4 = d3 \o attested /\ d5 = d4 \o slots /\ d6 = d5 \o rotation /\ d7 = d6 \o bumps
  OBVIOUS
<1> HIDE DEF d1, d2, d3, d4, d5, d6, d7
<1>10. /\ WALLET_ID_OFFSET \in Nat /\ ACTIVE_KEY_OFFSET \in Nat /\ NONCE_OFFSET \in Nat
       /\ ATTESTED_OFFSET \in Nat /\ GUARDIANS_OFFSET \in Nat /\ ROTATION_OFFSET \in Nat
       /\ STATE_BUMP_OFFSET \in Nat /\ RotationLen \in Nat
       /\ COMPRESSED_PUBKEY_LEN \in Nat /\ WORD_LEN \in Nat /\ Len(WalletId) \in Nat
       /\ MAX_GUARDIANS * GUARDIAN_SLOT_LEN \in Nat
  BY OffsetsType DEF RotationLen
<1>11. /\ ACTIVE_KEY_OFFSET = WALLET_ID_OFFSET + Len(WalletId)
       /\ NONCE_OFFSET = ACTIVE_KEY_OFFSET + COMPRESSED_PUBKEY_LEN
       /\ ATTESTED_OFFSET = NONCE_OFFSET + WORD_LEN
       /\ GUARDIANS_OFFSET = ATTESTED_OFFSET + 1
       /\ ROTATION_OFFSET = GUARDIANS_OFFSET + MAX_GUARDIANS * GUARDIAN_SLOT_LEN
  BY DEF ACTIVE_KEY_OFFSET, NONCE_OFFSET, ATTESTED_OFFSET, GUARDIANS_OFFSET, ROTATION_OFFSET
<1>12. STATE_BUMP_OFFSET = ROTATION_OFFSET + RotationLen /\ STATE_LEN = STATE_BUMP_OFFSET + 2
  <2>1. STATE_BUMP_OFFSET = ROTATION_OFFSET + 1 + COMPRESSED_PUBKEY_LEN + WORD_LEN + 1
    BY DEF STATE_BUMP_OFFSET, ROTATION_PROPOSED_BY_OFFSET, ROTATION_PROPOSED_AT_OFFSET,
       ROTATION_NEW_KEY_OFFSET
  <2>2. STATE_LEN = STATE_BUMP_OFFSET + 1 + 1
    BY DEF STATE_LEN, VAULT_BUMP_OFFSET
  <2> QED
    BY <1>10, <2>1, <2>2 DEF RotationLen
<1>13. /\ d1 \in Bytes /\ Len(d1) = ACTIVE_KEY_OFFSET
       /\ At(d1, WALLET_ID_OFFSET, Len(WalletId)) = WalletId
  <2>1. Len(DISCRIMINATOR) = WALLET_ID_OFFSET
    BY DEF WALLET_ID_OFFSET
  <2> QED
    BY <1>7, <1>9, <1>10, <1>11, <2>1, Appended
<1>14. /\ d2 \in Bytes /\ Len(d2) = NONCE_OFFSET
       /\ At(d2, ACTIVE_KEY_OFFSET, COMPRESSED_PUBKEY_LEN) = key
       /\ \A n, len \in Nat : n + len <= ACTIVE_KEY_OFFSET => At(d2, n, len) = At(d1, n, len)
  <2>0. d1 \in Bytes /\ key \in Bytes /\ d2 = d1 \o key
    BY <1>1, <1>13, <1>9
  <2>1. /\ d2 \in Bytes /\ Len(d2) = Len(d1) + Len(key)
        /\ At(d2, Len(d1), Len(key)) = key
        /\ \A n, len \in Nat : n + len <= Len(d1) => At(d2, n, len) = At(d1, n, len)
    BY <2>0, Appended
  <2>2. Len(d1) = ACTIVE_KEY_OFFSET /\ Len(key) = COMPRESSED_PUBKEY_LEN
    BY <1>1, <1>13
  <2> QED
    BY <1>11, <2>1, <2>2
<1>15. /\ d3 \in Bytes /\ Len(d3) = ATTESTED_OFFSET
       /\ At(d3, NONCE_OFFSET, WORD_LEN) = nonce
       /\ \A n, len \in Nat : n + len <= NONCE_OFFSET => At(d3, n, len) = At(d2, n, len)
  <2>0. d2 \in Bytes /\ nonce \in Bytes /\ d3 = d2 \o nonce
    BY <1>2, <1>14, <1>9
  <2>1. /\ d3 \in Bytes /\ Len(d3) = Len(d2) + Len(nonce)
        /\ At(d3, Len(d2), Len(nonce)) = nonce
        /\ \A n, len \in Nat : n + len <= Len(d2) => At(d3, n, len) = At(d2, n, len)
    BY <2>0, Appended
  <2>2. Len(d2) = NONCE_OFFSET /\ Len(nonce) = WORD_LEN
    BY <1>2, <1>14
  <2> QED
    BY <1>11, <2>1, <2>2
<1>16. /\ d4 \in Bytes /\ Len(d4) = GUARDIANS_OFFSET
       /\ At(d4, ATTESTED_OFFSET, 1) = attested
       /\ \A n, len \in Nat : n + len <= ATTESTED_OFFSET => At(d4, n, len) = At(d3, n, len)
  <2>0. d3 \in Bytes /\ attested \in Bytes /\ d4 = d3 \o attested
    BY <1>3, <1>15, <1>9
  <2>1. /\ d4 \in Bytes /\ Len(d4) = Len(d3) + Len(attested)
        /\ At(d4, Len(d3), Len(attested)) = attested
        /\ \A n, len \in Nat : n + len <= Len(d3) => At(d4, n, len) = At(d3, n, len)
    BY <2>0, Appended
  <2>2. Len(d3) = ATTESTED_OFFSET /\ Len(attested) = 1
    BY <1>3, <1>15
  <2> QED
    BY <1>11, <2>1, <2>2
<1>17. /\ d5 \in Bytes /\ Len(d5) = ROTATION_OFFSET
       /\ At(d5, GUARDIANS_OFFSET, MAX_GUARDIANS * GUARDIAN_SLOT_LEN) = slots
       /\ \A n, len \in Nat : n + len <= GUARDIANS_OFFSET => At(d5, n, len) = At(d4, n, len)
  <2>0. d4 \in Bytes /\ slots \in Bytes /\ d5 = d4 \o slots
    BY <1>4, <1>16, <1>9
  <2>1. /\ d5 \in Bytes /\ Len(d5) = Len(d4) + Len(slots)
        /\ At(d5, Len(d4), Len(slots)) = slots
        /\ \A n, len \in Nat : n + len <= Len(d4) => At(d5, n, len) = At(d4, n, len)
    BY <2>0, Appended
  <2>2. Len(d4) = GUARDIANS_OFFSET /\ Len(slots) = MAX_GUARDIANS * GUARDIAN_SLOT_LEN
    BY <1>4, <1>16
  <2> QED
    BY <1>11, <2>1, <2>2
<1>18. /\ d6 \in Bytes /\ Len(d6) = STATE_BUMP_OFFSET
       /\ At(d6, ROTATION_OFFSET, RotationLen) = rotation
       /\ \A n, len \in Nat : n + len <= ROTATION_OFFSET => At(d6, n, len) = At(d5, n, len)
  <2>0. d5 \in Bytes /\ rotation \in Bytes /\ d6 = d5 \o rotation
    BY <1>5, <1>17, <1>9
  <2>1. /\ d6 \in Bytes /\ Len(d6) = Len(d5) + Len(rotation)
        /\ At(d6, Len(d5), Len(rotation)) = rotation
        /\ \A n, len \in Nat : n + len <= Len(d5) => At(d6, n, len) = At(d5, n, len)
    BY <2>0, Appended
  <2>2. Len(d5) = ROTATION_OFFSET /\ Len(rotation) = RotationLen
    BY <1>5, <1>17
  <2> QED
    BY <1>12, <2>1, <2>2
<1>19. /\ d7 \in Bytes /\ Len(d7) = STATE_LEN
       /\ At(d7, STATE_BUMP_OFFSET, 2) = bumps
       /\ \A n, len \in Nat : n + len <= STATE_BUMP_OFFSET => At(d7, n, len) = At(d6, n, len)
  <2>0. d6 \in Bytes /\ bumps \in Bytes /\ d7 = d6 \o bumps
    BY <1>6, <1>18, <1>9
  <2>1. /\ d7 \in Bytes /\ Len(d7) = Len(d6) + Len(bumps)
        /\ At(d7, Len(d6), Len(bumps)) = bumps
        /\ \A n, len \in Nat : n + len <= Len(d6) => At(d7, n, len) = At(d6, n, len)
    BY <2>0, Appended
  <2>2. Len(d6) = STATE_BUMP_OFFSET /\ Len(bumps) = 2
    BY <1>6, <1>18
  <2> QED
    BY <1>12, <2>1, <2>2
\* A window that ends before the guardians, at them, or at the bumps, carried to the end.
<1>20. \A n, len \in Nat : n + len <= ROTATION_OFFSET => At(d7, n, len) = At(d5, n, len)
  BY <1>10, <1>12, <1>18, <1>19
<1>21. \A n, len \in Nat : n + len <= GUARDIANS_OFFSET => At(d7, n, len) = At(d4, n, len)
  BY <1>10, <1>11, <1>17, <1>20
<1>22. \A n, len \in Nat : n + len <= ATTESTED_OFFSET => At(d7, n, len) = At(d3, n, len)
  BY <1>10, <1>11, <1>16, <1>21
<1>23. \A n, len \in Nat : n + len <= NONCE_OFFSET => At(d7, n, len) = At(d2, n, len)
  BY <1>10, <1>11, <1>15, <1>22
<1>24. \A n, len \in Nat : n + len <= ACTIVE_KEY_OFFSET => At(d7, n, len) = At(d1, n, len)
  BY <1>10, <1>11, <1>14, <1>23
<1>25. At(d7, WALLET_ID_OFFSET, Len(WalletId)) = WalletId
  BY <1>10, <1>11, <1>13, <1>24
<1>26. At(d7, ACTIVE_KEY_OFFSET, COMPRESSED_PUBKEY_LEN) = key
  BY <1>10, <1>11, <1>14, <1>23
<1>27. At(d7, NONCE_OFFSET, WORD_LEN) = nonce
  BY <1>10, <1>11, <1>15, <1>22
<1>28. At(d7, ATTESTED_OFFSET, 1) = attested
  BY <1>10, <1>11, <1>16, <1>21
<1>29. At(d7, GUARDIANS_OFFSET, MAX_GUARDIANS * GUARDIAN_SLOT_LEN) = slots
  <2> DEFINE m == MAX_GUARDIANS * GUARDIAN_SLOT_LEN
  <2>1. m \in Nat /\ ROTATION_OFFSET = GUARDIANS_OFFSET + m /\ At(d5, GUARDIANS_OFFSET, m) = slots
    BY <1>10, <1>11, <1>17
  <2> HIDE DEF m
  <2>2. At(d7, GUARDIANS_OFFSET, m) = slots
    BY <1>10, <1>20, <2>1
  <2> QED
    BY <2>2 DEF m
<1>30. At(d7, ROTATION_OFFSET, RotationLen) = rotation
  BY <1>10, <1>12, <1>18, <1>19
<1> QED
  BY <1>8, <1>19, <1>25, <1>26, <1>27, <1>28, <1>29, <1>30
     DEF key, nonce, attested, slots, rotation, bumps

\* A window within a guardian's slot, and one within the rotation.
LEMMA SlotWindow ==
  ASSUME NEW w \in WalletState, NEW i \in Slots, NEW n \in Nat, NEW len \in Nat,
         n + len <= GUARDIAN_SLOT_LEN
  PROVE  At(Data(w), GuardianKindOffset(i) + n, len) = At(SlotBytes(w.guardians[i]), n, len)
<1> DEFINE data == Data(w)
<1> DEFINE all == MAX_GUARDIANS * GUARDIAN_SLOT_LEN
<1> DEFINE slots == FlattenSeq(SlotsOf(w))
<1> DEFINE start == i * GUARDIAN_SLOT_LEN
<1>1. GUARDIANS_OFFSET \in Nat /\ GUARDIAN_SLOT_LEN \in Nat /\ ROTATION_OFFSET \in Nat
  BY OffsetsType
<1>2. start \in Nat /\ all \in Nat /\ start + GUARDIAN_SLOT_LEN <= all
  <2>1. /\ i \in Nat /\ i + 1 \in Nat /\ MAX_GUARDIANS \in Nat
        /\ i <= MAX_GUARDIANS /\ i + 1 <= MAX_GUARDIANS
    BY ParametersAssumption DEF Slots
  <2>2. /\ start \in Nat /\ (i + 1) * GUARDIAN_SLOT_LEN = start + GUARDIAN_SLOT_LEN
        /\ (i + 1) * GUARDIAN_SLOT_LEN <= all
    BY <1>1, <2>1, Multiples
  <2> QED
    BY <2>2, OffsetsType
<1>3. /\ slots \in Bytes /\ Len(slots) = all
      /\ At(slots, start, GUARDIAN_SLOT_LEN) = SlotBytes(w.guardians[i])
  BY SlotsBytes
<1>4. data \in Bytes /\ At(data, GUARDIANS_OFFSET, all) = slots
  BY DataParts
<1>5. GUARDIANS_OFFSET + all <= Len(data)
  <2>1. Len(data) = STATE_LEN
    BY DataParts
  <2>2. ROTATION_OFFSET = GUARDIANS_OFFSET + all
    BY DEF ROTATION_OFFSET
  <2>3. STATE_LEN = ROTATION_OFFSET + 1 + COMPRESSED_PUBKEY_LEN + WORD_LEN + 1 + 1 + 1
    BY DEF STATE_LEN, VAULT_BUMP_OFFSET, STATE_BUMP_OFFSET, ROTATION_PROPOSED_BY_OFFSET,
       ROTATION_PROPOSED_AT_OFFSET, ROTATION_NEW_KEY_OFFSET
  <2>4. COMPRESSED_PUBKEY_LEN \in Nat /\ WORD_LEN \in Nat
    BY OffsetsType
  <2> HIDE DEF data, all
  <2> QED
    BY <1>1, <2>1, <2>2, <2>3, <2>4
<1>6. GuardianKindOffset(i) = GUARDIANS_OFFSET + start
  BY DEF GuardianKindOffset
<1> HIDE DEF data, all, slots, start
<1>7. At(slots, start + n, len) = At(SlotBytes(w.guardians[i]), n, len)
  <2>1. start + GUARDIAN_SLOT_LEN <= Len(slots)
    BY <1>2, <1>3
  <2>2. At(At(slots, start, GUARDIAN_SLOT_LEN), n, len) = At(slots, start + n, len)
    <3>1. slots \in Bytes /\ start \in Nat /\ GUARDIAN_SLOT_LEN \in Nat
      BY <1>1, <1>2, <1>3
    <3> QED
      BY <2>1, <3>1, AtAt
  <2> QED
    BY <1>3, <2>2
<1>8. At(slots, start + n, len) = At(data, GUARDIANS_OFFSET + (start + n), len)
  <2>1. start + n \in Nat /\ start + n + len <= all
    BY <1>1, <1>2
  <2> QED
    BY <1>1, <1>2, <1>4, <1>5, <2>1, AtAt
<1>9. GUARDIANS_OFFSET + (start + n) = GUARDIANS_OFFSET + start + n
  BY <1>1, <1>2
<1> QED
  BY <1>6, <1>7, <1>8, <1>9 DEF data

\* A window within the rotation.
LEMMA RotationWindow ==
  ASSUME NEW w \in WalletState, NEW n \in Nat, NEW len \in Nat, n + len <= RotationLen
  PROVE  At(Data(w), ROTATION_OFFSET + n, len) = At(RotationBytes(w.rotation), n, len)
<1> DEFINE data == Data(w)
<1>1. ROTATION_OFFSET \in Nat /\ COMPRESSED_PUBKEY_LEN \in Nat /\ WORD_LEN \in Nat
  BY OffsetsType
<1>2. RotationLen \in Nat
  BY <1>1 DEF RotationLen
<1>3. /\ data \in Bytes /\ Len(data) = STATE_LEN
      /\ At(data, ROTATION_OFFSET, RotationLen) = RotationBytes(w.rotation)
  BY DataParts
<1>4. STATE_LEN = ROTATION_OFFSET + 1 + COMPRESSED_PUBKEY_LEN + WORD_LEN + 1 + 1 + 1
  BY DEF STATE_LEN, VAULT_BUMP_OFFSET, STATE_BUMP_OFFSET, ROTATION_PROPOSED_BY_OFFSET,
     ROTATION_PROPOSED_AT_OFFSET, ROTATION_NEW_KEY_OFFSET
<1> HIDE DEF data
<1>5. ROTATION_OFFSET + RotationLen <= Len(data)
  BY <1>1, <1>3, <1>4 DEF RotationLen
<1> QED
  BY <1>1, <1>2, <1>3, <1>5, AtAt DEF data

-----------------------------------------------------------------------------
(* What the offsets read, in any state of the account. *)

\* What the offsets of a guardian read is that guardian's.
LEMMA GuardianReads ==
  ASSUME NEW w \in WalletState, NEW i \in Slots
  PROVE  LET data == Data(w)
             kind == <<KindByte(w.guardians[i].kind)>>
             key == KeyBytes[w.guardians[i].key]
         IN  /\ Memcmp(data, GuardianKindOffset(i), kind)
             /\ Memcmp(data, GuardianKeyOffset(i), key)
             /\ Memcmp(data, GuardianRpIdHashOffset(i), RpIdHashZero)
             /\ At(data, GuardianKindOffset(i), 1 + COMPRESSED_PUBKEY_LEN) = kind \o key
<1> DEFINE data == Data(w)
<1> DEFINE slot == w.guardians[i]
<1> DEFINE bytes == SlotBytes(slot)
<1> DEFINE kind == <<KindByte(slot.kind)>>
<1> DEFINE key == KeyBytes[slot.key]
<1>1. slot \in GuardianSlot
  BY DEF WalletState
<1>2. /\ At(bytes, 0, 1) = kind
      /\ At(bytes, 1, COMPRESSED_PUBKEY_LEN) = key
      /\ At(bytes, 1 + COMPRESSED_PUBKEY_LEN, Len(RpIdHashZero)) = RpIdHashZero
      /\ At(bytes, 0, 1 + COMPRESSED_PUBKEY_LEN) = kind \o key
  BY <1>1, SlotFields
<1>3. Len(kind) = 1 /\ Len(key) = COMPRESSED_PUBKEY_LEN
  BY <1>1, ConstantBytes DEF GuardianSlot
<1>4. /\ COMPRESSED_PUBKEY_LEN \in Nat /\ Len(RpIdHashZero) \in Nat
      /\ GUARDIANS_OFFSET \in Nat /\ GuardianKindOffset(i) \in Nat
  <2>1. GUARDIANS_OFFSET \in Nat /\ GUARDIAN_SLOT_LEN \in Nat
    BY OffsetsType
  <2>2. i * GUARDIAN_SLOT_LEN \in Nat
    BY <2>1, Multiples, ParametersAssumption DEF Slots
  <2> QED
    BY <2>1, <2>2, OffsetsType DEF GuardianKindOffset
<1>5. GUARDIAN_SLOT_LEN = 1 + COMPRESSED_PUBKEY_LEN + Len(RpIdHashZero)
  BY DEF GUARDIAN_SLOT_LEN
<1>6. /\ GuardianKeyOffset(i) = GuardianKindOffset(i) + 1
      /\ GuardianRpIdHashOffset(i) = GuardianKindOffset(i) + (1 + COMPRESSED_PUBKEY_LEN)
      /\ GuardianKindOffset(i) = GuardianKindOffset(i) + 0
  BY <1>4 DEF GuardianRpIdHashOffset, GuardianKeyOffset
<1>7. \A n, len \in Nat : n + len <= GUARDIAN_SLOT_LEN =>
        At(data, GuardianKindOffset(i) + n, len) = At(bytes, n, len)
  BY SlotWindow
<1> HIDE DEF data, slot, bytes, kind, key
<1>8. /\ At(data, GuardianKindOffset(i) + 0, 1) = kind
      /\ At(data, GuardianKindOffset(i) + 1, COMPRESSED_PUBKEY_LEN) = key
      /\ At(data, GuardianKindOffset(i) + (1 + COMPRESSED_PUBKEY_LEN), Len(RpIdHashZero))
           = RpIdHashZero
      /\ At(data, GuardianKindOffset(i) + 0, 1 + COMPRESSED_PUBKEY_LEN) = kind \o key
  <2> DEFINE behind == 1 + COMPRESSED_PUBKEY_LEN
  <2>1. /\ behind \in Nat /\ 0 + 1 <= GUARDIAN_SLOT_LEN
        /\ 1 + COMPRESSED_PUBKEY_LEN <= GUARDIAN_SLOT_LEN
        /\ behind + Len(RpIdHashZero) <= GUARDIAN_SLOT_LEN /\ 0 + behind <= GUARDIAN_SLOT_LEN
    BY <1>4, <1>5
  <2> HIDE DEF behind
  <2>2. At(data, GuardianKindOffset(i) + 0, 1) = At(bytes, 0, 1)
    BY <1>7, <2>1
  <2>3. At(data, GuardianKindOffset(i) + 1, COMPRESSED_PUBKEY_LEN)
          = At(bytes, 1, COMPRESSED_PUBKEY_LEN)
    BY <1>4, <1>7, <2>1
  <2>4. At(data, GuardianKindOffset(i) + behind, Len(RpIdHashZero))
          = At(bytes, behind, Len(RpIdHashZero))
    BY <1>4, <1>7, <2>1
  <2>5. At(data, GuardianKindOffset(i) + 0, behind) = At(bytes, 0, behind)
    BY <1>7, <2>1
  <2> QED
    BY <1>2, <2>2, <2>3, <2>4, <2>5 DEF behind
<1>9. /\ Memcmp(data, GuardianKindOffset(i), kind)
      /\ Memcmp(data, GuardianKeyOffset(i), key)
      /\ Memcmp(data, GuardianRpIdHashOffset(i), RpIdHashZero)
      /\ At(data, GuardianKindOffset(i), 1 + COMPRESSED_PUBKEY_LEN) = kind \o key
  BY <1>3, <1>6, <1>8 DEF Memcmp
<1> QED
  BY <1>9 DEF data, slot, kind, key

\* What the offsets of the rotation read is the rotation's.
LEMMA RotationReads ==
  ASSUME NEW w \in WalletState
  PROVE  LET data == Data(w)
             pending == <<BoolByte(w.rotation.pending)>>
             key == KeyBytes[w.rotation.new_key]
         IN  /\ Memcmp(data, ROTATION_OFFSET, pending)
             /\ Memcmp(data, ROTATION_NEW_KEY_OFFSET, key)
             /\ Memcmp(data, ROTATION_PROPOSED_AT_OFFSET, I64ToLeBytes[w.rotation.proposed_at])
             /\ Memcmp(data, ROTATION_PROPOSED_BY_OFFSET, <<w.rotation.proposed_by>>)
             /\ At(data, ROTATION_OFFSET, 1 + COMPRESSED_PUBKEY_LEN) = pending \o key
<1> DEFINE data == Data(w)
<1> DEFINE rotation == w.rotation
<1> DEFINE bytes == RotationBytes(rotation)
<1> DEFINE pending == <<BoolByte(rotation.pending)>>
<1> DEFINE key == KeyBytes[rotation.new_key]
<1> DEFINE time == I64ToLeBytes[rotation.proposed_at]
<1> DEFINE by == <<rotation.proposed_by>>
<1> DEFINE at == 1 + COMPRESSED_PUBKEY_LEN
<1>1. rotation \in RotationSlot
  BY DEF WalletState
<1>2. /\ At(bytes, 0, 1) = pending
      /\ At(bytes, 1, COMPRESSED_PUBKEY_LEN) = key
      /\ At(bytes, at, WORD_LEN) = time
      /\ At(bytes, at + WORD_LEN, 1) = by
      /\ At(bytes, 0, at) = pending \o key
  BY <1>1, RotationFields
<1>3. /\ Len(pending) = 1 /\ Len(key) = COMPRESSED_PUBKEY_LEN
      /\ Len(time) = WORD_LEN /\ Len(by) = 1
  BY <1>1, ConstantBytes DEF RotationSlot
<1>4. COMPRESSED_PUBKEY_LEN \in Nat /\ WORD_LEN \in Nat /\ ROTATION_OFFSET \in Nat /\ at \in Nat
  BY OffsetsType
<1>5. RotationLen = 1 + COMPRESSED_PUBKEY_LEN + WORD_LEN + 1
  BY DEF RotationLen
<1>6. /\ ROTATION_NEW_KEY_OFFSET = ROTATION_OFFSET + 1
      /\ ROTATION_PROPOSED_AT_OFFSET = ROTATION_OFFSET + at
      /\ ROTATION_PROPOSED_BY_OFFSET = ROTATION_OFFSET + (at + WORD_LEN)
      /\ ROTATION_OFFSET = ROTATION_OFFSET + 0
  BY <1>4 DEF ROTATION_PROPOSED_BY_OFFSET, ROTATION_PROPOSED_AT_OFFSET, ROTATION_NEW_KEY_OFFSET
<1>7. \A n, len \in Nat : n + len <= RotationLen =>
        At(data, ROTATION_OFFSET + n, len) = At(bytes, n, len)
  BY RotationWindow
<1> HIDE DEF data, rotation, bytes, pending, key, time, by
<1>8. /\ At(data, ROTATION_OFFSET + 0, 1) = pending
      /\ At(data, ROTATION_OFFSET + 1, COMPRESSED_PUBKEY_LEN) = key
      /\ At(data, ROTATION_OFFSET + at, WORD_LEN) = time
      /\ At(data, ROTATION_OFFSET + (at + WORD_LEN), 1) = by
      /\ At(data, ROTATION_OFFSET + 0, at) = pending \o key
  <2>1. /\ at \in Nat /\ at + WORD_LEN \in Nat
        /\ 0 + 1 <= RotationLen /\ 1 + COMPRESSED_PUBKEY_LEN <= RotationLen
        /\ at + WORD_LEN <= RotationLen /\ at + WORD_LEN + 1 <= RotationLen
        /\ 0 + at <= RotationLen
    BY <1>4, <1>5
  <2>2. At(data, ROTATION_OFFSET + 0, 1) = At(bytes, 0, 1)
    BY <1>7, <2>1
  <2>3. At(data, ROTATION_OFFSET + 1, COMPRESSED_PUBKEY_LEN)
          = At(bytes, 1, COMPRESSED_PUBKEY_LEN)
    BY <1>4, <1>7, <2>1
  <2>4. At(data, ROTATION_OFFSET + at, WORD_LEN) = At(bytes, at, WORD_LEN)
    BY <1>4, <1>7, <2>1
  <2>5. At(data, ROTATION_OFFSET + (at + WORD_LEN), 1) = At(bytes, at + WORD_LEN, 1)
    BY <1>7, <2>1
  <2>6. At(data, ROTATION_OFFSET + 0, at) = At(bytes, 0, at)
    BY <1>7, <2>1
  <2> QED
    BY <1>2, <2>2, <2>3, <2>4, <2>5, <2>6
<1>9. /\ Memcmp(data, ROTATION_OFFSET, pending)
      /\ Memcmp(data, ROTATION_NEW_KEY_OFFSET, key)
      /\ Memcmp(data, ROTATION_PROPOSED_AT_OFFSET, time)
      /\ Memcmp(data, ROTATION_PROPOSED_BY_OFFSET, by)
      /\ At(data, ROTATION_OFFSET, at) = pending \o key
  BY <1>3, <1>6, <1>8 DEF Memcmp
<1> QED
  BY <1>9 DEF data, rotation, pending, key, time, by

\* The last two bytes, one by one.
LEMMA TwoBytes ==
  ASSUME NEW a \in Nat, NEW b \in Nat
  PROVE  At(<<a, b>>, 0, 1) = <<a>> /\ At(<<a, b>>, 1, 1) = <<b>>
<1> DEFINE s == <<a, b>>
<1>1. s \in Bytes /\ Len(s) = 2 /\ s[1] = a /\ s[2] = b
  BY DEF Bytes
<1>2. /\ <<a>> \in Bytes /\ Len(<<a>>) = 1 /\ <<a>>[1] = a
      /\ <<b>> \in Bytes /\ Len(<<b>>) = 1 /\ <<b>>[1] = b
  BY OneByte
<1> HIDE DEF s
<1>3. /\ At(s, 0, 1) \in Bytes /\ Len(At(s, 0, 1)) = 1 /\ At(s, 0, 1)[1] = s[0 + 1]
      /\ At(s, 1, 1) \in Bytes /\ Len(At(s, 1, 1)) = 1 /\ At(s, 1, 1)[1] = s[1 + 1]
  <2>1. 0 + 1 <= Len(s) /\ 1 + 1 <= Len(s) /\ 1 \in 1 .. 1
    BY <1>1
  <2>2. \A n \in {0, 1} : /\ At(s, n, 1) \in Bytes /\ Len(At(s, n, 1)) = 1
                          /\ \A j \in 1 .. 1 : At(s, n, 1)[j] = s[n + j]
    <3> SUFFICES ASSUME NEW n \in {0, 1}
                 PROVE  /\ At(s, n, 1) \in Bytes /\ Len(At(s, n, 1)) = 1
                        /\ \A j \in 1 .. 1 : At(s, n, 1)[j] = s[n + j]
      OBVIOUS
    <3>1. n \in Nat /\ 1 \in Nat /\ n + 1 <= Len(s) /\ s \in Bytes
      BY <1>1
    <3> QED
      BY <3>1, AtBytes
  <2> QED
    BY <2>1, <2>2
<1>4. At(s, 0, 1) = <<a>>
  BY <1>1, <1>2, <1>3, SameBytes
<1>5. At(s, 1, 1) = <<b>>
  BY <1>1, <1>2, <1>3, SameBytes
<1> QED
  BY <1>4, <1>5 DEF s

\* What the offsets of the bumps read.
LEMMA BumpReads ==
  ASSUME NEW w \in WalletState
  PROVE  /\ Memcmp(Data(w), STATE_BUMP_OFFSET, <<StateBump>>)
         /\ Memcmp(Data(w), VAULT_BUMP_OFFSET, <<VaultBump>>)
<1> DEFINE data == Data(w)
<1>1. /\ data \in Bytes /\ Len(data) = STATE_LEN
      /\ At(data, STATE_BUMP_OFFSET, 2) = <<StateBump, VaultBump>>
  BY DataParts
<1>2. STATE_BUMP_OFFSET \in Nat /\ STATE_LEN = STATE_BUMP_OFFSET + 2
  <2>1. STATE_BUMP_OFFSET \in Nat
    BY OffsetsType
  <2> QED
    BY <2>1 DEF STATE_LEN, VAULT_BUMP_OFFSET
<1>3. VAULT_BUMP_OFFSET = STATE_BUMP_OFFSET + 1
  BY DEF VAULT_BUMP_OFFSET
<1>4. StateBump \in 0 .. 255 /\ VaultBump \in 0 .. 255
  BY LayoutAssumption
<1>7. /\ At(<<StateBump, VaultBump>>, 0, 1) = <<StateBump>>
      /\ At(<<StateBump, VaultBump>>, 1, 1) = <<VaultBump>>
  BY <1>4, TwoBytes
<1> HIDE DEF data
<1>8. \A k \in {0, 1} :
        At(data, STATE_BUMP_OFFSET + k, 1) = At(At(data, STATE_BUMP_OFFSET, 2), k, 1)
  <2>1. STATE_BUMP_OFFSET + 2 <= Len(data)
    BY <1>1, <1>2
  <2> QED
    BY <1>1, <1>2, <2>1, AtAt
<1>9. /\ At(data, STATE_BUMP_OFFSET + 0, 1) = <<StateBump>>
      /\ At(data, STATE_BUMP_OFFSET + 1, 1) = <<VaultBump>>
  BY <1>1, <1>7, <1>8
<1>10. /\ At(data, STATE_BUMP_OFFSET, 1) = <<StateBump>>
       /\ At(data, VAULT_BUMP_OFFSET, 1) = <<VaultBump>>
  BY <1>2, <1>3, <1>9
<1>11. Len(<<StateBump>>) = 1 /\ Len(<<VaultBump>>) = 1
  OBVIOUS
<1> QED
  BY <1>10, <1>11 DEF Memcmp, data

\* Every field of the struct is read back from its published offset, in every
\* reachable state, whatever the key and hash lengths and the guardian count
\* (state.rs; offsets of the encoding crate).
THEOREM OffsetsAreRight == Spec => []OffsetsReadEveryField
<1>1. IInv => OffsetsReadEveryField
  <2> SUFFICES ASSUME IInv, Exists
               PROVE  OffsetsReadEveryField
    BY DEF OffsetsReadEveryField
  <2>1. wallet \in WalletState
    BY DEF IInv, TypeOK, Exists
  <2> DEFINE data == Data(wallet)
  <2>2. /\ Memcmp(data, WALLET_ID_OFFSET, WalletId)
        /\ Memcmp(data, ACTIVE_KEY_OFFSET, KeyBytes[wallet.active_key])
        /\ Memcmp(data, NONCE_OFFSET, U64ToLeBytes[wallet.nonce])
        /\ Memcmp(data, ATTESTED_OFFSET, <<BoolByte(wallet.attested)>>)
    <3>1. /\ Len(KeyBytes[wallet.active_key]) = COMPRESSED_PUBKEY_LEN
          /\ Len(U64ToLeBytes[wallet.nonce]) = WORD_LEN
          /\ Len(<<BoolByte(wallet.attested)>>) = 1
      BY <2>1, ConstantBytes DEF WalletState
    <3>2. /\ At(data, WALLET_ID_OFFSET, Len(WalletId)) = WalletId
          /\ At(data, ACTIVE_KEY_OFFSET, COMPRESSED_PUBKEY_LEN) = KeyBytes[wallet.active_key]
          /\ At(data, NONCE_OFFSET, WORD_LEN) = U64ToLeBytes[wallet.nonce]
          /\ At(data, ATTESTED_OFFSET, 1) = <<BoolByte(wallet.attested)>>
      BY <2>1, DataParts
    <3> QED
      BY <3>1, <3>2 DEF Memcmp
  <2>3. \A i \in Slots :
          /\ Memcmp(data, GuardianKindOffset(i), <<KindByte(wallet.guardians[i].kind)>>)
          /\ Memcmp(data, GuardianKeyOffset(i), KeyBytes[wallet.guardians[i].key])
          /\ Memcmp(data, GuardianRpIdHashOffset(i), RpIdHashZero)
    BY <2>1, GuardianReads
  <2> QED
    BY <2>1, <2>2, <2>3, RotationReads, BumpReads DEF OffsetsReadEveryField
<1> QED
  BY <1>1, Inductive, PTL

-----------------------------------------------------------------------------
(* What the filters find. *)

\* Two keys with the same bytes are one key.
LEMMA SameKey ==
  ASSUME NEW k \in AnyKey, NEW l \in AnyKey
  PROVE  KeyBytes[k] = KeyBytes[l] <=> k = l
  BY LayoutAssumption

\* A filter on a byte that tells and the key behind it.
LEMMA TaggedKey ==
  ASSUME NEW tag \in Nat, NEW k \in AnyKey, NEW l \in AnyKey
  PROVE  /\ Len(<<1>> \o KeyBytes[k]) = 1 + COMPRESSED_PUBKEY_LEN
         /\ <<tag>> \o KeyBytes[l] = <<1>> \o KeyBytes[k] <=> tag = 1 /\ l = k
<1>1. /\ <<tag>> \in Bytes /\ Len(<<tag>>) = 1
      /\ <<1>> \in Bytes /\ Len(<<1>>) = 1
  BY OneByte
<1>2. /\ KeyBytes[k] \in Bytes /\ Len(KeyBytes[k]) = COMPRESSED_PUBKEY_LEN
      /\ KeyBytes[l] \in Bytes /\ Len(KeyBytes[l]) = COMPRESSED_PUBKEY_LEN
  BY ConstantBytes
<1>3. Len(<<1>> \o KeyBytes[k]) = 1 + COMPRESSED_PUBKEY_LEN
  <2> DEFINE one == <<1>>
  <2> DEFINE key == KeyBytes[k]
  <2>1. one \in Bytes /\ key \in Bytes /\ Len(one) = 1 /\ Len(key) = COMPRESSED_PUBKEY_LEN
    BY <1>1, <1>2
  <2> HIDE DEF one, key
  <2>2. Len(one \o key) = Len(one) + Len(key)
    BY <2>1, ConcatBytes
  <2> QED
    BY <2>1, <2>2 DEF one, key
<1>4. <<tag>> \o KeyBytes[l] = <<1>> \o KeyBytes[k]
        <=> <<tag>> = <<1>> /\ KeyBytes[l] = KeyBytes[k]
  <2> DEFINE left == <<tag>>
  <2> DEFINE right == <<1>>
  <2> DEFINE other == KeyBytes[l]
  <2> DEFINE key == KeyBytes[k]
  <2>1. /\ left \in Bytes /\ right \in Bytes /\ Len(left) = Len(right)
        /\ other \in Bytes /\ key \in Bytes /\ Len(other) = Len(key)
    BY <1>1, <1>2
  <2> HIDE DEF left, right, other, key
  <2>2. left \o other = right \o key <=> left = right /\ other = key
    <3>1. At(left \o other, 0, Len(left)) = left /\ At(left \o other, Len(left), Len(other)) = other
      BY <2>1, Field
    <3>2. At(right \o key, 0, Len(right)) = right /\ At(right \o key, Len(right), Len(key)) = key
      BY <2>1, Field
    <3> QED
      BY <2>1, <3>1, <3>2
  <2> QED
    BY <2>2 DEF left, right, other, key
<1>5. <<tag>> = <<1>> <=> tag = 1
  OBVIOUS
<1> QED
  BY <1>3, <1>4, <1>5, SameKey

\* A device finds by its own key exactly the wallets it signs for, guards or
\* is proposed to take over (README, "A device finds its wallets from its own
\* key"), as the data the program writes is laid out.
THEOREM FiltersAreExact == Spec => []DevicesFindTheirWallets
<1>1. IInv => DevicesFindTheirWallets
  <2> SUFFICES ASSUME IInv, Exists
               PROVE  DevicesFindTheirWallets
    BY DEF DevicesFindTheirWallets
  <2>1. wallet \in WalletState
    BY DEF IInv, TypeOK, Exists
  <2> DEFINE data == Data(wallet)
  <2>2. Len(data) = STATE_LEN
    BY <2>1, DataParts
  <2>3. ASSUME NEW k \in Keys
        PROVE  SignsFor(data, k) <=> wallet.active_key = k
    <3>1. k \in AnyKey /\ wallet.active_key \in AnyKey
      BY <2>1 DEF AnyKey, WalletState
    <3>2. /\ Len(KeyBytes[k]) = COMPRESSED_PUBKEY_LEN
          /\ At(data, ACTIVE_KEY_OFFSET, COMPRESSED_PUBKEY_LEN) = KeyBytes[wallet.active_key]
      BY <2>1, <3>1, ConstantBytes, DataParts
    <3> QED
      BY <3>1, <3>2, SameKey DEF SignsFor, Memcmp
  <2>4. ASSUME NEW k \in Keys
        PROVE  Guards(data, k) <=> k \in GuardianKeys
    <3>1. k \in AnyKey
      BY DEF AnyKey
    <3>2. ASSUME NEW i \in Slots
          PROVE  Memcmp(data, GuardianKindOffset(i), <<1>> \o KeyBytes[k])
                   <=> wallet.guardians[i].kind = "P256" /\ wallet.guardians[i].key = k
      <4> DEFINE slot == wallet.guardians[i]
      <4>1. slot \in GuardianSlot /\ slot.key \in AnyKey
        BY <2>1 DEF WalletState, GuardianSlot
      <4>2. KindByte(slot.kind) \in Nat /\ (KindByte(slot.kind) = 1 <=> slot.kind = "P256")
        BY <4>1 DEF GuardianSlot, KindByte, GUARDIAN_KIND_NONE, GUARDIAN_KIND_P256,
           GUARDIAN_KIND_WEBAUTHN
      <4>3. At(data, GuardianKindOffset(i), 1 + COMPRESSED_PUBKEY_LEN)
              = <<KindByte(slot.kind)>> \o KeyBytes[slot.key]
        BY <2>1, GuardianReads
      <4> HIDE DEF data, slot
      <4>4. /\ Len(<<1>> \o KeyBytes[k]) = 1 + COMPRESSED_PUBKEY_LEN
            /\ <<KindByte(slot.kind)>> \o KeyBytes[slot.key] = <<1>> \o KeyBytes[k]
                 <=> KindByte(slot.kind) = 1 /\ slot.key = k
        <5> DEFINE tag == KindByte(slot.kind)
        <5> DEFINE key == slot.key
        <5>1. tag \in Nat /\ key \in AnyKey
          BY <4>1, <4>2
        <5> HIDE DEF tag, key
        <5>2. /\ Len(<<1>> \o KeyBytes[k]) = 1 + COMPRESSED_PUBKEY_LEN
              /\ <<tag>> \o KeyBytes[key] = <<1>> \o KeyBytes[k] <=> tag = 1 /\ key = k
          BY <3>1, <5>1, TaggedKey
        <5> QED
          BY <5>2 DEF tag, key
      <4> QED
        BY <4>2, <4>3, <4>4 DEF Memcmp, slot
    <3> HIDE DEF data
    <3> QED
      BY <3>2 DEF Guards, GuardianKeys, GuardianSlotsOf
  <2>5. ASSUME NEW k \in Keys
        PROVE  ProposedTo(data, k)
                 <=> wallet.rotation.pending /\ wallet.rotation.new_key = k
    <3> DEFINE rotation == wallet.rotation
    <3>1. k \in AnyKey /\ rotation.new_key \in AnyKey /\ rotation.pending \in BOOLEAN
      BY <2>1 DEF AnyKey, WalletState, RotationSlot
    <3>2. /\ BoolByte(rotation.pending) \in Nat
          /\ BoolByte(rotation.pending) = 1 <=> rotation.pending
      BY <3>1 DEF BoolByte
    <3>3. At(data, ROTATION_OFFSET, 1 + COMPRESSED_PUBKEY_LEN)
            = <<BoolByte(rotation.pending)>> \o KeyBytes[rotation.new_key]
      BY <2>1, RotationReads
    <3> HIDE DEF data, rotation
    <3>4. /\ Len(<<1>> \o KeyBytes[k]) = 1 + COMPRESSED_PUBKEY_LEN
          /\ <<BoolByte(rotation.pending)>> \o KeyBytes[rotation.new_key] = <<1>> \o KeyBytes[k]
               <=> BoolByte(rotation.pending) = 1 /\ rotation.new_key = k
      <4> DEFINE tag == BoolByte(rotation.pending)
      <4> DEFINE key == rotation.new_key
      <4>1. tag \in Nat /\ key \in AnyKey
        BY <3>1, <3>2
      <4> HIDE DEF tag, key
      <4>2. /\ Len(<<1>> \o KeyBytes[k]) = 1 + COMPRESSED_PUBKEY_LEN
            /\ <<tag>> \o KeyBytes[key] = <<1>> \o KeyBytes[k] <=> tag = 1 /\ key = k
        BY <3>1, <4>1, TaggedKey
      <4> QED
        BY <4>2 DEF tag, key
    <3> QED
      BY <3>2, <3>3, <3>4 DEF ProposedTo, Memcmp, rotation
  <2> QED
    BY <2>2, <2>3, <2>4, <2>5 DEF DevicesFindTheirWallets
<1> QED
  BY <1>1, Inductive, PTL

-----------------------------------------------------------------------------
(* What a removed key leaves behind. *)

\* A filter on a key, at an offset where that many bytes are another key's.
LEMMA KeyAt ==
  ASSUME NEW data, NEW offset, NEW k \in Keys, NEW l \in AnyKey,
         Memcmp(data, offset, KeyBytes[l]), Memcmp(data, offset, KeyBytes[k])
  PROVE  l = k
<1>1. k \in AnyKey
  BY DEF AnyKey
<1>2. Len(KeyBytes[k]) = COMPRESSED_PUBKEY_LEN /\ Len(KeyBytes[l]) = COMPRESSED_PUBKEY_LEN
  BY <1>1, ConstantBytes
<1>3. KeyBytes[l] = KeyBytes[k]
  BY <1>2 DEF Memcmp
<1> QED
  BY <1>1, <1>3, SameKey

\* A published key offset holds a key the wallet names, or zeros: an empty slot
\* and a cleared rotation hold nothing of what they held.
LEMMA NoTraceAtKeyOffsets == IInv => NoTraceAt(KeyOffsets)
<1> SUFFICES ASSUME IInv, Exists, NEW k \in Keys, NEW offset \in KeyOffsets,
                    Memcmp(Data(wallet), offset, KeyBytes[k])
             PROVE  \/ k = wallet.active_key
                    \/ k \in GuardianKeys
                    \/ wallet.rotation.pending /\ wallet.rotation.new_key = k
  BY DEF NoTraceAt
<1>1. wallet \in WalletState /\ WellFormed(wallet)
  BY DEF IInv, TypeOK, WalletWellFormed, Exists
<1>2. k # ZeroKey
  BY KeysAssumption
<1>3. CASE offset = ACTIVE_KEY_OFFSET
  <2>1. wallet.active_key \in AnyKey
    BY <1>1 DEF WalletState
  <2>2. Memcmp(Data(wallet), offset, KeyBytes[wallet.active_key])
    BY <1>1, <1>3, <2>1, DataParts, ConstantBytes DEF Memcmp
  <2> QED
    BY <2>1, <2>2, KeyAt
<1>4. CASE offset = ROTATION_NEW_KEY_OFFSET
  <2>1. wallet.rotation.new_key \in AnyKey
    BY <1>1 DEF WalletState, RotationSlot
  <2>2. Memcmp(Data(wallet), offset, KeyBytes[wallet.rotation.new_key])
    BY <1>1, <1>4, RotationReads
  <2>3. wallet.rotation.new_key = k
    BY <2>1, <2>2, KeyAt
  <2>4. wallet.rotation.pending
    BY <1>1, <1>2, <2>3 DEF WellFormed, EMPTY_ROTATION
  <2> QED
    BY <2>3, <2>4
<1>5. ASSUME NEW i \in Slots, offset = GuardianKeyOffset(i)
      PROVE  k \in GuardianKeys
  <2>1. wallet.guardians[i].key \in AnyKey
    BY <1>1 DEF WalletState, GuardianSlot
  <2>2. Memcmp(Data(wallet), offset, KeyBytes[wallet.guardians[i].key])
    BY <1>1, <1>5, GuardianReads
  <2>3. wallet.guardians[i].key = k
    BY <2>1, <2>2, KeyAt
  <2>4. wallet.guardians[i].kind = "P256"
    BY <1>1, <1>2, <2>3 DEF WellFormed, EMPTY_GUARDIAN
  <2> QED
    BY <2>3, <2>4 DEF GuardianKeys, GuardianSlotsOf
<1> QED
  BY <1>3, <1>4, <1>5 DEF KeyOffsets

\* No filter at a published key offset finds a wallet by a key it no longer
\* names, whatever the lengths and the bytes of the keys (state.rs, "a cleared
\* proposal leaves no key behind to match").
THEOREM KeyOffsetsShowNoTrace == Spec => []NoTraceAt(KeyOffsets)
  BY NoTraceAtKeyOffsets, Inductive, PTL
=============================================================================
