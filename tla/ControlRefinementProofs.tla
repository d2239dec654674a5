---------------------- MODULE ControlRefinementProofs ----------------------
(***************************************************************************)
(* The program implements Recovery, for every value of the constants.      *)
(***************************************************************************)
EXTENDS ControlRefinement, SmartWalletProofs

\* A wallet without a pending proposal maps to none.
LEMMA NothingPending ==
  ASSUME Exists' => ~wallet'.rotation.pending
  PROVE  Control!Drop
  BY DEF Control!Drop, Pending, Age, IsPending, Exists

\* A step that keeps the key, the guardians and the slot is not seen.
LEMMA ControlUnseen ==
  ASSUME UNCHANGED now, Exists, Exists',
         wallet'.active_key = wallet.active_key,
         wallet'.guardians = wallet.guardians,
         wallet'.rotation = wallet.rotation
  PROVE  UNCHANGED Control!recoveryVars
<1>1. Holder' = Holder /\ Pending' = Pending /\ Age' = Age
  BY DEF Holder, Pending, Age, IsPending
<1>2. GuardianKeys' = GuardianKeys
  BY DEF GuardianKeys, GuardianSlotsOf
<1> QED
  BY <1>1, <1>2 DEF Control!recoveryVars

LEMMA NothingChanged ==
  ASSUME UNCHANGED <<wallet, now>>
  PROVE  UNCHANGED Control!recoveryVars
<1>1. Holder' = Holder /\ Pending' = Pending /\ Age' = Age
  BY DEF Holder, Pending, Age, IsPending, Exists
<1>2. GuardianKeys' = GuardianKeys
  BY DEF GuardianKeys, GuardianSlotsOf, Exists
<1> QED
  BY <1>1, <1>2 DEF Control!recoveryVars

\* A first action founds the wallet, for the key its ID is the hash of.
LEMMA FirstActionFounds ==
  ASSUME ~Exists, Exists', wallet'.active_key \in Keys,
         Sha256[wallet'.active_key] = Id, ~wallet'.rotation.pending
  PROVE  Control!Next
<1> DEFINE k == wallet'.active_key
<1> DEFINE G == GuardianKeys'
<1>1. G \in SUBSET Keys
  BY DEF GuardianKeys
<1>2. k \in {key \in Keys : Sha256[key] = Id}
  OBVIOUS
<1>3. Holder = {} /\ Holder' = {k}
  BY DEF Holder
<1>4. Pending = {} /\ Age = 0
  BY DEF Pending, Age, IsPending
<1>5. Pending' = {} /\ Age' = 0
  BY NothingPending DEF Control!Drop
<1>6. Control!Found(k, G)
  BY <1>2, <1>3, <1>4, <1>5 DEF Control!Found
<1> QED
  BY <1>1, <1>2, <1>6 DEF Control!Next, Control!HolderNext

LEMMA PaymentRefines ==
  ASSUME IInv, NEW signer \in Keys, NEW r \in Requests, NEW relayer \in Relayers,
         NEW asked \in RelayerFees,
         \/ TransferSol(signer, r, relayer, asked)
         \/ SweepVault(signer, r, relayer, asked)
  PROVE  Control!Next \/ UNCHANGED Control!recoveryVars
<1>1. /\ Authorized(InitIfNeeded, signer, r)
      /\ wallet' = Advanced(InitIfNeeded, signer) /\ now' = now
  BY DEF TransferSol, CanTransfer, VaultPays, SweepVault
<1>2. Exists'
  BY <1>1, AdvancedControl, NoAccountAssumption DEF Exists
<1>3. CASE Exists
  BY <1>1, <1>2, <1>3, AdvancedControl, ControlUnseen
<1>4. CASE ~Exists
  BY <1>1, <1>2, <1>4, AdvancedControl, FirstActionFounds
<1> QED
  BY <1>3, <1>4

LEMMA SetGuardiansRefines ==
  ASSUME IInv, NEW signer \in Keys, NEW r \in Requests, NEW relayer \in Relayers,
         NEW asked \in RelayerFees, SetGuardians(signer, r, relayer, asked)
  PROVE  Control!Next
<1> DEFINE a == Advanced(InitIfNeeded, signer)
<1> DEFINE stored == [i \in Slots |-> GuardianSlotFrom(r.action.guardians[i])]
<1>1. /\ Authorized(InitIfNeeded, signer, r)
      /\ wallet' = [a EXCEPT !.guardians = stored, !.rotation = EMPTY_ROTATION]
  BY DEF SetGuardians, WithGuardians
<1>2. /\ a \in WalletState
      /\ Exists => a.active_key = wallet.active_key
      /\ ~Exists => a.active_key = signer /\ Sha256[signer] = Id
  BY <1>1, AdvancedControl
<1> HIDE DEF a, stored
<1>3. wallet'.active_key = a.active_key /\ ~wallet'.rotation.pending
  BY <1>1, <1>2 DEF WalletState, EMPTY_ROTATION
<1>4. Exists'
  BY SetGuardiansInv, NoAccountAssumption DEF Exists
<1>5. CASE Exists
  <2>1. Holder # {} /\ Holder' = Holder
    BY <1>2, <1>3, <1>4, <1>5 DEF Holder
  <2>2. Control!Entrust(GuardianKeys')
    BY <1>3, <2>1, NothingPending DEF Control!Entrust
  <2>3. GuardianKeys' \in SUBSET Keys
    BY DEF GuardianKeys
  <2> QED
    BY <2>2, <2>3 DEF Control!Next, Control!HolderNext
<1>6. CASE ~Exists
  BY <1>2, <1>3, <1>4, <1>6, FirstActionFounds
<1> QED
  BY <1>5, <1>6

LEMMA ProposeRotationRefines ==
  ASSUME IInv, NEW signer \in Keys, NEW r \in Requests, NEW relayer \in Relayers,
         NEW asked \in RelayerFees, ProposeRotation(signer, r, relayer, asked)
  PROVE  Control!Next
<1> DEFINE a == Advanced(wallet, signer)
<1> DEFINE key == r.action.new_key
<1>1. /\ Exists /\ InitIfNeeded = wallet /\ Authorized(wallet, signer, r)
      /\ r.action.kind = "ProposeRotation" /\ key # ZeroKey /\ now' = now
  BY DEF ProposeRotation, Exists, InitIfNeeded
<1>2. /\ a \in WalletState
      /\ a.active_key = wallet.active_key
      /\ a.guardians = wallet.guardians
      /\ a.rotation = wallet.rotation
  BY <1>1, AdvancedControl
<1>3. key \in Keys
  BY <1>1, RequestType, ActionType DEF AnyKey
<1>4. Exists'
  BY ProposeRotationInv, NoAccountAssumption DEF Exists
<1>5. CASE signer = wallet.active_key
  <2>1. wallet' = Rotated(a, key)
    BY <1>5 DEF ProposeRotation, Rotate
  <2> HIDE DEF a
  <2>2. /\ wallet'.active_key = key
        /\ wallet'.guardians = wallet.guardians
        /\ ~wallet'.rotation.pending
    BY <1>2, <2>1 DEF Rotated, WalletState, EMPTY_ROTATION
  <2>3. GuardianKeys' = GuardianKeys
    BY <1>1, <1>4, <2>2 DEF GuardianKeys, GuardianSlotsOf
  <2>4. Holder # {} /\ Holder' = {key}
    BY <1>1, <1>4, <2>2 DEF Holder
  <2>5. Control!HandOver(key)
    BY <2>2, <2>3, <2>4, NothingPending DEF Control!HandOver
  <2> QED
    BY <1>3, <2>5 DEF Control!Next, Control!HolderNext
<1>6. CASE signer # wallet.active_key
  <2> DEFINE slot == P256Guardian(a, signer)
  <2> DEFINE pending == [pending |-> TRUE, new_key |-> key, proposed_at |-> now,
                         proposed_by |-> slot]
  <2>1. /\ GuardianSlotsOf(a, signer) # {}
        /\ MayReplace(a, slot)
        /\ wallet' = [a EXCEPT !.rotation = pending]
    BY <1>6 DEF ProposeRotation, Propose
  <2>2. signer \in GuardianKeys \ Holder
    BY <1>1, <1>2, <1>6, <2>1 DEF GuardianKeys, GuardianSlotsOf, Holder
  <2>3. slot \in Slots /\ wallet.guardians[slot].key = signer
    BY <1>2, <2>1, P256GuardianIsFirst DEF GuardianSlotsOf
  <2>4. Control!MayReplace(signer)
    <3>1. CASE ~IsPending
      BY <3>1 DEF Control!MayReplace, Pending
    <3>2. CASE IsPending
      <4>1. \/ wallet.rotation.proposed_by = slot
            \/ now > ClosesAt(wallet.rotation)
        BY <1>2, <2>1, <3>2 DEF MayReplace, IsExpired, IsPending
      <4>2. CASE wallet.rotation.proposed_by = slot
        BY <2>3, <3>2, <4>2 DEF Control!MayReplace, Pending
      <4>3. CASE now > ClosesAt(wallet.rotation)
        <5>1. Age = ROTATION_DELAY + ROTATION_WINDOW + 1
          BY <1>1, <3>2, <4>3, WindowOfPending, ParametersAssumption
          DEF Age, Lesser, IsPending
        <5> QED
          BY <5>1 DEF Control!MayReplace, Control!LapsedAge
      <4> QED
        BY <4>1, <4>2, <4>3
    <3> QED
      BY <3>1, <3>2
  <2> HIDE DEF a, slot
  <2>5. /\ wallet'.active_key = wallet.active_key
        /\ wallet'.guardians = wallet.guardians
        /\ wallet'.rotation = pending
    BY <1>2, <2>1 DEF WalletState
  <2>6. Holder' = Holder /\ GuardianKeys' = GuardianKeys
    BY <1>1, <1>4, <2>5 DEF Holder, GuardianKeys, GuardianSlotsOf
  <2>7. Pending' = {[by |-> signer, key |-> key]}
    BY <1>4, <2>3, <2>5 DEF Pending, IsPending
  <2>8. Age' = 0
    <3>1. now \in Nat
      BY DEF IInv, TypeOK
    <3> QED
      BY <1>1, <1>4, <2>5, <3>1, ParametersAssumption DEF Age, IsPending, Lesser
  <2>9. Control!Propose(signer, key)
    BY <2>2, <2>4, <2>6, <2>7, <2>8 DEF Control!Propose
  <2> QED
    BY <1>3, <2>9 DEF Control!Next
<1> QED
  BY <1>5, <1>6

LEMMA CancelRotationRefines ==
  ASSUME IInv, NEW signer \in Keys, NEW r \in Requests, NEW relayer \in Relayers,
         NEW asked \in RelayerFees, CancelRotation(signer, r, relayer, asked)
  PROVE  Control!Next
<1> DEFINE a == Advanced(wallet, signer)
<1>1. /\ Exists /\ InitIfNeeded = wallet /\ Authorized(wallet, signer, r)
      /\ wallet.rotation.pending
      /\ wallet' = [a EXCEPT !.rotation = EMPTY_ROTATION]
  BY DEF CancelRotation, CanCancel, Cancelled, VaultRefunds, Exists, InitIfNeeded
<1>2. /\ a \in WalletState
      /\ a.active_key = wallet.active_key
      /\ a.guardians = wallet.guardians
  BY <1>1, AdvancedControl
<1> HIDE DEF a
<1>3. /\ wallet'.active_key = wallet.active_key
      /\ wallet'.guardians = wallet.guardians
      /\ ~wallet'.rotation.pending
      /\ wallet' \in WalletState
  BY <1>1, <1>2, EmptyRotationType DEF WalletState, EMPTY_ROTATION
<1>4. Exists'
  BY <1>3, NoAccountAssumption DEF Exists
<1>5. Pending # {}
  BY <1>1 DEF Pending, IsPending
<1>6. Holder' = Holder /\ GuardianKeys' = GuardianKeys
  BY <1>1, <1>3, <1>4 DEF Holder, GuardianKeys, GuardianSlotsOf
<1>7. Control!Cancel
  BY <1>3, <1>5, <1>6, NothingPending DEF Control!Cancel
<1> QED
  BY <1>7 DEF Control!Next, Control!HolderNext

LEMMA ConfirmRotationRefines ==
  ASSUME IInv, ConfirmRotation
  PROVE  Control!Next
<1> DEFINE key == wallet.rotation.new_key
<1>1. /\ Exists /\ wallet \in WalletState /\ WellFormed(wallet)
      /\ wallet.rotation.pending
      /\ now >= OpensAt(wallet.rotation) /\ ~ (now > ClosesAt(wallet.rotation))
      /\ wallet' = Rotated(wallet, key)
  BY DEF ConfirmRotation, IsExpired, Exists, IInv, TypeOK, WalletWellFormed
<1>2. Age \in ROTATION_DELAY .. ROTATION_DELAY + ROTATION_WINDOW
  BY <1>1, WindowOfPending, ParametersAssumption DEF Age, IsPending, Lesser
<1>3. key \in AnyKey
  BY <1>1 DEF WalletState, RotationSlot
<1>4. /\ wallet'.active_key = key
      /\ wallet'.guardians = wallet.guardians
      /\ ~wallet'.rotation.pending
      /\ wallet' \in WalletState
  BY <1>1, <1>3, EmptyRotationType DEF Rotated, WalletState, EMPTY_ROTATION
<1>5. Exists'
  BY <1>4, NoAccountAssumption DEF Exists
<1>6. Holder' = {key} /\ GuardianKeys' = GuardianKeys
  BY <1>1, <1>4, <1>5 DEF Holder, GuardianKeys, GuardianSlotsOf
<1>7. \E p \in Pending : Holder' = {p.key}
  BY <1>1, <1>6 DEF Pending, IsPending
<1>8. Control!Recover
  BY <1>2, <1>4, <1>6, <1>7, NothingPending DEF Control!Recover
<1> QED
  BY <1>8 DEF Control!Next

LEMMA CloseWalletRefines ==
  ASSUME IInv, NEW signer \in Keys, NEW r \in Requests, NEW relayer \in Relayers,
         NEW asked \in RelayerFees, CloseWallet(signer, r, relayer, asked)
  PROVE  Control!Next
<1>1. Exists /\ ~Exists'
  BY DEF CloseWallet, CanClose, CloseAmount, Closed, Exists
<1>2. Holder # {} /\ Holder' = {} /\ GuardianKeys' = {}
  BY <1>1 DEF Holder, GuardianKeys
<1>3. Control!Dissolve
  BY <1>1, <1>2, NothingPending DEF Control!Dissolve
<1> QED
  BY <1>3 DEF Control!Next, Control!HolderNext

LEMMA TickRefines ==
  ASSUME IInv, Tick
  PROVE  Control!Next \/ UNCHANGED Control!recoveryVars
<1> DEFINE t == wallet.rotation.proposed_at
<1>1. now' = now + 1 /\ wallet' = wallet
  BY DEF Tick
<1>2. Holder' = Holder /\ GuardianKeys' = GuardianKeys /\ Pending' = Pending
  BY <1>1 DEF Holder, GuardianKeys, GuardianSlotsOf, Pending, IsPending, Exists
<1>3. CASE ~IsPending
  <2>1. Age' = Age
    BY <1>1, <1>3 DEF Age, IsPending, Exists
  <2> QED
    BY <1>2, <2>1 DEF Control!recoveryVars
<1>4. CASE IsPending
  <2>1. t \in Nat /\ now \in Nat
    BY <1>4, WindowOfPending DEF IsPending
  <2>2. Age = Lesser(now - t, ROTATION_DELAY + ROTATION_WINDOW + 1)
    BY <1>4 DEF Age
  <2>3. Age' = Lesser(now + 1 - t, ROTATION_DELAY + ROTATION_WINDOW + 1)
    <3>1. IsPending'
      BY <1>1, <1>4 DEF IsPending, Exists
    <3>2. wallet'.rotation.proposed_at = t /\ now' = now + 1
      BY <1>1
    <3> QED
      BY <2>1, <3>1, <3>2 DEF Age, Lesser
  <2>4. \/ Age < ROTATION_DELAY + ROTATION_WINDOW + 1 /\ Age' = Age + 1
        \/ Age' = Age
    BY <2>1, <2>2, <2>3, ParametersAssumption DEF Lesser
  <2>5. Pending # {}
    BY <1>4 DEF Pending
  <2>6. CASE Age' = Age
    BY <1>2, <2>6 DEF Control!recoveryVars
  <2>7. CASE Age < ROTATION_DELAY + ROTATION_WINDOW + 1 /\ Age' = Age + 1
    <3>1. Control!Elapse
      BY <1>2, <2>5, <2>7 DEF Control!Elapse, Control!LapsedAge
    <3> QED
      BY <3>1 DEF Control!Next
  <2> QED
    BY <2>4, <2>6, <2>7
<1> QED
  BY <1>3, <1>4

LEMMA InitRefines == Init => Control!Init
  BY DEF Init, Control!Init, Holder, GuardianKeys, Pending, Age, IsPending, Exists

LEMMA NextRefines == IInv /\ [Next]_vars => [Control!Next]_(Control!recoveryVars)
<1> SUFFICES ASSUME IInv, [Next]_vars
             PROVE  Control!Next \/ UNCHANGED Control!recoveryVars
  OBVIOUS
<1>1. ASSUME NEW signer \in Keys, NEW r \in Requests, NEW relayer \in Relayers,
             NEW asked \in RelayerFees, Execute(signer, r, relayer, asked)
      PROVE  Control!Next \/ UNCHANGED Control!recoveryVars
  BY <1>1, PaymentRefines, SetGuardiansRefines, ProposeRotationRefines,
     CancelRotationRefines, CloseWalletRefines DEF Execute
<1>2. CASE Unsigned
  BY <1>2, ConfirmRotationRefines, TickRefines, NothingChanged DEF Unsigned, Deposit
<1>3. CASE UNCHANGED vars
  BY <1>3, NothingChanged DEF vars
<1> QED
  BY <1>1, <1>2, <1>3 DEF Next

\* The program keeps every promise of Recovery: its slots, timestamps, nonces
\* and signatures implement keys that hold, guard and propose (every handler;
\* state.rs, RotationSlot and PendingRotation).
THEOREM ControlRefines == Spec => ImplementsRecovery
<1>1. Init => Control!Init
  BY InitRefines
<1>2. IInv /\ [Next]_vars => [Control!Next]_(Control!recoveryVars)
  BY NextRefines
<1> QED
  BY <1>1, <1>2, Inductive, PTL DEF Spec, ImplementsRecovery, Control!Spec
=============================================================================
