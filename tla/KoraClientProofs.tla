-------------------------- MODULE KoraClientProofs --------------------------
(***************************************************************************)
(* Whatever other devices, other runs and other relayers do in between,    *)
(* and whichever of its own calls fail: Kora is never out of pocket, a     *)
(* transfer leaves the reserve, and no two runs pay for one nonce.         *)
(***************************************************************************)
EXTENDS KoraClient, FundsProofs

-----------------------------------------------------------------------------
(* The inductive invariant. *)

\* A wallet that outlives a transaction has used a nonce.
NonceUsed == Exists => wallet.nonce >= 1

\* What a run has read, funded and sent, by how far it got.
LocalInv(l) ==
  /\ l.pc \in {"nonce", "balance", "funding", "sign"} => l.transfer = "unsent"
  /\ l.pc \in {"nonce", "balance"} => l.deposit = "unsent"
  /\ l.pc \in {"balance", "funding", "sign", "confirm"} \/ l.transfer # "unsent" =>
       l.relayer_fee = (IF l.nonce = 0 THEN StateRent ELSE 0) + TRANSACTION_FEE
  /\ l.deposit # "unsent" => l.top_up \in Deposits
  /\ l.transfer # "unsent" => \E t \in 0 .. MaxTime : l.expires_at = t + AUTHORIZATION_TTL
  /\ l.pc = "done" => l.transfer = "ok"

\* The lamports a run still waits for.
Coming(l) == IF l.pc = "funding" /\ l.deposit = "sent" THEN l.top_up ELSE 0

\* As long as its nonce is the wallet's, nobody has spent what the run counts on.
FundsHeld(c) ==
  /\ run[c].nonce <= CurrentNonce
  /\ run[c].nonce = CurrentNonce
       /\ (run[c].pc \in {"funding", "sign"} \/ run[c].transfer # "unsent") =>
       lamports[Vault] + Coming(run[c]) >= Needed(c)

\* A run that has paid has used its nonce.
PaymentInv(c) ==
  /\ lamports[c] \in {0, LAMPORTS}
  /\ lamports[c] > 0 => run[c].nonce < CurrentNonce /\ run[c].transfer # "unsent"
  /\ run[c].transfer = "ok" => lamports[c] = LAMPORTS
  /\ \A d \in Runs :
       lamports[c] > 0 /\ lamports[d] > 0 /\ run[c].nonce = run[d].nonce => c = d

ClientInv ==
  /\ IInv
  /\ NonceUsed
  /\ run \in [Runs -> Local]
  /\ incarnation \in {"first", "later"}
  /\ \A c \in Runs : LocalInv(run[c])
  /\ incarnation = "first" => \A c \in Runs : FundsHeld(c) /\ PaymentInv(c)

-----------------------------------------------------------------------------
(* The lamports of a step. *)

\* Two payments out of the vault touch no other account, and a relayer that is
\* not the payee gains its refund.
LEMMA PaidElsewhere ==
  ASSUME NEW l \in [Accounts -> Nat], NEW to \in Accounts, NEW relayer \in Relayers,
         NEW amount, NEW refund \in Nat, CanPay(l, to, amount, refund)
  PROVE  LET p == Paid(l, to, amount, relayer, refund)
         IN  /\ \A a \in Accounts \ {Vault, to, relayer} : p[a] = l[a]
             /\ to # relayer => p[relayer] = l[relayer] + refund
<1> DEFINE m == Move(l, Vault, to, amount)
<1> DEFINE p == Move(m, Vault, relayer, refund)
<1>0. Vault \in Accounts /\ relayer \in Accounts /\ relayer # Vault
  BY AccountsAssumption DEF Accounts
<1>1. amount \in Nat /\ l[Vault] >= amount /\ m[Vault] >= refund
  BY <1>0 DEF CanPay
<1>2. m \in [Accounts -> Nat] /\ \A a \in Accounts \ {Vault, to} : m[a] = l[a]
  BY <1>0, <1>1, MoveType, MoveValues
<1> HIDE DEF m
<1>3. /\ p[relayer] = m[relayer] + refund
      /\ \A a \in Accounts \ {Vault, relayer} : p[a] = m[a]
  BY <1>0, <1>1, <1>2, MoveValues
<1>4. p = Paid(l, to, amount, relayer, refund)
  BY DEF Paid, m
<1> HIDE DEF p
<1> QED
  BY <1>0, <1>2, <1>3, <1>4

LEMMA RefundsElsewhere ==
  ASSUME NEW l \in [Accounts -> Nat], NEW relayer \in Relayers, NEW refund \in Nat,
         VaultRefunds(l, relayer, refund)
  PROVE  \A a \in Accounts \ {Vault, relayer} : lamports'[a] = l[a]
<1>1. Vault \in Accounts /\ relayer \in Accounts
  BY DEF Accounts
<1> QED
  BY <1>1, MoveValues DEF VaultRefunds

LEMMA AfterInitElsewhere ==
  ASSUME IInv, NEW relayer \in Relayers, lamports[relayer] >= RentAdvance
  PROVE  /\ RentAdvance \in 0 .. StateRent
         /\ Exists => RentAdvance = 0
         /\ AfterInit(relayer) \in [Accounts -> Nat]
         /\ AfterInit(relayer)[relayer] = lamports[relayer] - RentAdvance
         /\ \A a \in Accounts \ {State, relayer} : AfterInit(relayer)[a] = lamports[a]
<1>1. relayer \in Accounts /\ State \in Accounts /\ relayer # State
  BY AccountsAssumption DEF Accounts
<1>2. lamports \in [Accounts -> Nat]
  BY DEF IInv, TypeOK
<1>3. RentAdvance \in 0 .. StateRent /\ (Exists => RentAdvance = 0)
  BY <1>1, <1>2, ParametersAssumption DEF RentAdvance, Exists
<1> QED
  BY <1>1, <1>2, <1>3, AfterInitType, MoveValues DEF AfterInit

\* A run's address is neither of the wallet's accounts nor a relayer.
LEMMA RunIsApart ==
  ASSUME NEW c \in Runs
  PROVE  /\ c \in Accounts \ ({Vault, State} \union Relayers)
         /\ c \notin Depositors \union {Funder}
  BY ClientAssumption, AccountsAssumption DEF Accounts

LEMMA PaymentElsewhere ==
  ASSUME IInv, NEW signer \in Keys, NEW r \in Requests, NEW relayer \in Relayers,
         NEW asked \in RelayerFees, NEW c \in Runs, r.action.to # c,
         \/ TransferSol(signer, r, relayer, asked)
         \/ SweepVault(signer, r, relayer, asked)
  PROVE  lamports'[c] = lamports[c]
<1> DEFINE l == AfterInit(relayer)
<1> DEFINE refund == Refund(r, asked)
<1>1. PICK amount :
        /\ CanPay(l, r.action.to, amount, refund)
        /\ lamports' = Paid(l, r.action.to, amount, relayer, refund)
        /\ r.action.kind \in {"TransferSol", "SweepVault"}
        /\ lamports[relayer] >= RentAdvance
  BY DEF TransferSol, CanTransfer, SweepVault, VaultPays
<1>2. refund \in Nat /\ r.action.to \in Accounts
  BY <1>1, RefundBounds, RequestType, ActionType
<1>3. l \in [Accounts -> Nat] /\ l[c] = lamports[c]
  BY <1>1, RunIsApart, AfterInitElsewhere
<1> HIDE DEF l, refund
<1> QED
  BY <1>1, <1>2, <1>3, RunIsApart, PaidElsewhere

LEMMA CloseElsewhere ==
  ASSUME IInv, NEW signer \in Keys, NEW r \in Requests, NEW relayer \in Relayers,
         NEW asked \in RelayerFees, NEW c \in Runs, r.action.to # c,
         CloseWallet(signer, r, relayer, asked)
  PROVE  lamports'[c] = lamports[c]
<1> DEFINE refund == CloseRefund(r, asked)
<1> DEFINE amount == lamports[Vault] - refund
<1> DEFINE p == Paid(lamports, r.action.to, amount, relayer, refund)
<1>1. /\ r.action.kind = "CloseWallet"
      /\ CanPay(lamports, r.action.to, amount, refund)
      /\ lamports' = Move(p, State, relayer, p[State])
  BY DEF CloseWallet, CanClose, CloseAmount, Closed
<1>2. lamports \in [Accounts -> Nat] /\ Vault \in Accounts /\ State \in Accounts
  BY DEF IInv, TypeOK, Accounts
<1>3. refund \in Nat /\ r.action.to \in Accounts
  BY <1>1, <1>2, RefundBounds, RequestType, ActionType DEF CloseRefund, Lesser
<1>4. p \in [Accounts -> Nat] /\ p[c] = lamports[c]
  BY <1>1, <1>2, <1>3, RunIsApart, PaidType, PaidElsewhere
<1> HIDE DEF p
<1>5. relayer \in Accounts /\ p[State] \in Nat /\ p[State] >= p[State]
  BY <1>2, <1>4 DEF Accounts
<1> QED
  BY <1>1, <1>2, <1>4, <1>5, RunIsApart, MoveValues

\* Other devices pay other addresses.
LEMMA DevicesElsewhere ==
  ASSUME IInv, NEW signer \in Keys, NEW r \in DeviceRequests, NEW relayer \in Relayers,
         NEW asked \in RelayerFees, NEW c \in Runs, Execute(signer, r, relayer, asked)
  PROVE  lamports'[c] = lamports[c]
<1>1. r \in Requests
  BY ClientAssumption
<1>2. r.action.kind \in {"TransferSol", "SweepVault", "CloseWallet"} => r.action.to # c
  BY ClientAssumption
<1>3. lamports \in [Accounts -> Nat] /\ Refund(r, asked) \in Nat
  BY <1>1, RefundBounds DEF IInv, TypeOK
<1>4. CASE TransferSol(signer, r, relayer, asked) \/ SweepVault(signer, r, relayer, asked)
  <2>1. r.action.to # c
    BY <1>2, <1>4 DEF TransferSol, CanTransfer, VaultPays, SweepVault
  <2> QED
    BY <1>1, <1>4, <2>1, PaymentElsewhere
<1>5. CASE CloseWallet(signer, r, relayer, asked)
  <2>1. r.action.to # c
    BY <1>2, <1>5 DEF CloseWallet, CanClose, CloseAmount, Closed
  <2> QED
    BY <1>1, <1>5, <2>1, CloseElsewhere
<1>6. CASE SetGuardians(signer, r, relayer, asked)
  <2>1. /\ lamports[relayer] >= RentAdvance
        /\ VaultRefunds(AfterInit(relayer), relayer, Refund(r, asked))
    BY <1>6 DEF SetGuardians
  <2>2. AfterInit(relayer) \in [Accounts -> Nat] /\ AfterInit(relayer)[c] = lamports[c]
    BY <2>1, RunIsApart, AfterInitElsewhere
  <2> QED
    BY <1>3, <2>1, <2>2, RunIsApart, RefundsElsewhere
<1>7. CASE ProposeRotation(signer, r, relayer, asked) \/ CancelRotation(signer, r, relayer, asked)
  <2>1. VaultRefunds(lamports, relayer, Refund(r, asked))
    BY <1>7 DEF ProposeRotation, CancelRotation, CanCancel, Cancelled, VaultRefunds
  <2> QED
    BY <1>3, <2>1, RunIsApart, RefundsElsewhere
<1> QED
  BY <1>4, <1>5, <1>6, <1>7 DEF Execute

-----------------------------------------------------------------------------
(* The nonce of a step. *)

\* A step uses the nonce, closes the wallet, or takes nothing from the vault.
NonceStep ==
  \/ Exists' /\ CurrentNonce' = CurrentNonce + 1
  \/ Exists /\ ~Exists'
  \/ CurrentNonce' = CurrentNonce /\ lamports'[Vault] >= lamports[Vault]

LEMMA WalletIsNoAbsence == ASSUME NEW w \in WalletState PROVE w # NoAccount
  BY NoAccountAssumption

LEMMA NonceType == IInv => CurrentNonce \in 0 .. U64Max
  BY ParametersAssumption DEF IInv, TypeOK, CurrentNonce, Exists, WalletState

\* What the wallet keeps of an approved action is its nonce, plus one.
LEMMA NonceUsedBy ==
  ASSUME IInv, NEW signer \in Keys, NEW r \in Requests,
         Authorized(InitIfNeeded, signer, r),
         wallet' \in WalletState, wallet'.nonce = Advanced(InitIfNeeded, signer).nonce
  PROVE  NonceUsed' /\ NonceStep
<1>1. r.nonce = CurrentNonce /\ r.nonce \in Nat
  BY AuthorizedNonce, RequestType
<1>2. Advanced(InitIfNeeded, signer).nonce = r.nonce + 1
  BY InitIfNeededWallet, AdvancedWallet
<1>3. Exists' /\ CurrentNonce' = CurrentNonce + 1 /\ CurrentNonce' = wallet'.nonce
  BY <1>1, <1>2, WalletIsNoAbsence DEF Exists, CurrentNonce
<1> QED
  BY <1>1, <1>2, <1>3 DEF NonceUsed, NonceStep

LEMMA ExecuteNonce ==
  ASSUME IInv, IInv', NEW signer \in Keys, NEW r \in Requests, NEW relayer \in Relayers,
         NEW asked \in RelayerFees, Execute(signer, r, relayer, asked)
  PROVE  NonceUsed' /\ NonceStep
<1> DEFINE a == Advanced(InitIfNeeded, signer)
<1>0. Authorized(InitIfNeeded, signer, r)
  BY DEF Execute, TransferSol, CanTransfer, VaultPays, SweepVault, SetGuardians,
       ProposeRotation, CancelRotation, CanCancel, Cancelled, VaultRefunds, CloseWallet,
       CanClose, CloseAmount, Closed, InitIfNeeded
<1>1. a \in WalletState
  BY <1>0, InitIfNeededWallet, AdvancedWallet
<1>2. CASE CloseWallet(signer, r, relayer, asked)
  BY <1>2 DEF CloseWallet, CanClose, CloseAmount, Closed, NonceUsed, NonceStep, Exists
<1>3. ASSUME wallet' \in WalletState, wallet'.nonce = a.nonce
      PROVE  NonceUsed' /\ NonceStep
  BY <1>0, <1>3, NonceUsedBy
<1>4. CASE TransferSol(signer, r, relayer, asked) \/ SweepVault(signer, r, relayer, asked)
  BY <1>1, <1>3, <1>4 DEF TransferSol, CanTransfer, VaultPays, SweepVault
<1> HIDE DEF a
<1>5. CASE SetGuardians(signer, r, relayer, asked)
  <2>1. wallet' \in WalletState /\ wallet' = WithGuardians(a, r.action.guardians)
    BY <1>5, SetGuardiansInv DEF SetGuardians, a
  <2>2. wallet'.nonce = a.nonce
    BY <1>1, <2>1 DEF WithGuardians, WalletState
  <2> QED
    BY <1>3, <2>1, <2>2
<1>6. CASE ProposeRotation(signer, r, relayer, asked)
  <2>1. wallet' \in WalletState /\ InitIfNeeded = wallet
    BY <1>6, ProposeRotationInv DEF ProposeRotation, InitIfNeeded
  <2>2. \/ wallet' = Rotated(a, r.action.new_key)
        \/ \E pending : wallet' = [a EXCEPT !.rotation = pending]
    BY <1>6, <2>1 DEF ProposeRotation, Rotate, Propose, a
  <2>3. wallet'.nonce = a.nonce
    BY <1>1, <2>2 DEF Rotated, WalletState
  <2> QED
    BY <1>3, <2>1, <2>3
<1>7. CASE CancelRotation(signer, r, relayer, asked)
  <2>1. InitIfNeeded = wallet /\ wallet' = [a EXCEPT !.rotation = EMPTY_ROTATION]
    BY <1>7 DEF CancelRotation, CanCancel, Cancelled, VaultRefunds, InitIfNeeded, a
  <2>2. wallet' \in WalletState /\ wallet'.nonce = a.nonce
    BY <1>1, <2>1, EmptyRotationType DEF WalletState
  <2> QED
    BY <1>3, <2>2
<1> QED
  BY <1>2, <1>4, <1>5, <1>6, <1>7 DEF Execute

LEMMA DepositNonce ==
  ASSUME IInv, NonceUsed, NEW party \in Parties, NEW to \in {Vault, State},
         NEW n \in Deposits, Deposit(party, to, n)
  PROVE  /\ NonceUsed' /\ CurrentNonce' = CurrentNonce /\ Exists' = Exists
         /\ to = Vault => lamports'[Vault] = lamports[Vault] + n
         /\ lamports'[Vault] >= lamports[Vault]
         /\ \A a \in Accounts \ {party, Vault, State} : lamports'[a] = lamports[a]
<1>1. /\ lamports \in [Accounts -> Nat] /\ party \in Accounts /\ to \in Accounts
      /\ Vault \in Accounts /\ n \in Nat /\ party # to /\ party # Vault
  BY AccountsAssumption DEF IInv, TypeOK, Accounts
<1>2. lamports[party] >= n /\ lamports' = Move(lamports, party, to, n) /\ wallet' = wallet
  BY DEF Deposit
<1>3. /\ lamports'[to] = lamports[to] + n
      /\ \A a \in Accounts \ {party, to} : lamports'[a] = lamports[a]
  BY <1>1, <1>2, MoveValues
<1>4. NonceUsed' /\ CurrentNonce' = CurrentNonce /\ Exists' = Exists
  BY <1>2 DEF NonceUsed, CurrentNonce, Exists
<1> QED
  BY <1>1, <1>3, <1>4

LEMMA UnsignedNonce ==
  ASSUME IInv, NonceUsed, ConfirmRotation \/ Tick \/ UNCHANGED vars
  PROVE  NonceUsed' /\ CurrentNonce' = CurrentNonce /\ UNCHANGED lamports /\ Exists' = Exists
<1>1. CASE ConfirmRotation
  <2>1. /\ wallet \in WalletState /\ Exists /\ UNCHANGED lamports
        /\ wallet' = Rotated(wallet, wallet.rotation.new_key)
    BY <1>1 DEF ConfirmRotation, IInv, TypeOK, Exists
  <2>2. wallet' # NoAccount
    <3>1. IInv'
      BY <1>1, ConfirmRotationInv
    <3>2. wallet'.nonce = wallet.nonce /\ wallet'.active_key = wallet.rotation.new_key
      BY <2>1 DEF Rotated, WalletState
    <3>3. wallet' \in WalletState
      BY <2>1, EmptyRotationType DEF Rotated, WalletState, RotationSlot
    <3> QED
      BY <3>3, WalletIsNoAbsence
  <2>3. wallet'.nonce = wallet.nonce
    BY <2>1 DEF Rotated, WalletState
  <2> QED
    BY <2>1, <2>2, <2>3 DEF NonceUsed, CurrentNonce, Exists
<1>2. CASE Tick \/ UNCHANGED vars
  BY <1>2 DEF Tick, vars, NonceUsed, CurrentNonce, Exists
<1> QED
  BY <1>1, <1>2

-----------------------------------------------------------------------------
(* The calls of a run. *)

\* A call changes one run's locals and nothing on the chain: it keeps the
\* invariant if the new locals do, and forgets no nonce it has signed for.
LEMMA OneRun ==
  ASSUME ClientInv, UNCHANGED vars, incarnation' = incarnation, NEW c \in Runs,
         run' \in [Runs -> Local], \A d \in Runs \ {c} : run'[d] = run[d],
         LocalInv(run'[c]), incarnation = "first" => FundsHeld(c)',
         run[c].transfer # "unsent" =>
           run'[c].nonce = run[c].nonce /\ run'[c].transfer # "unsent",
         run'[c].transfer = "ok" => run[c].transfer = "ok"
  PROVE  ClientInv'
<1>1. IInv' /\ NonceUsed'
  BY NextInv, UnsignedNonce DEF ClientInv
<1>2. lamports' = lamports /\ CurrentNonce' = CurrentNonce
  BY DEF vars, CurrentNonce, Exists
<1>3. \A d \in Runs : LocalInv(run'[d])
  BY DEF ClientInv
<1>4. ASSUME incarnation' = "first", NEW d \in Runs
      PROVE  FundsHeld(d)' /\ PaymentInv(d)'
  <2>1. FundsHeld(d)'
    <3>1. CASE d = c
      BY <1>4, <3>1
    <3>2. CASE d # c
      BY <1>2, <1>4, <3>2 DEF ClientInv, FundsHeld, Needed
    <3> QED
      BY <3>1, <3>2
  <2>2. \A e \in Runs : lamports[e] > 0 =>
          run[e].transfer # "unsent" /\ run'[e].nonce = run[e].nonce
            /\ run'[e].transfer # "unsent"
    BY <1>4 DEF ClientInv, PaymentInv
  <2>3. PaymentInv(d)
    BY <1>4 DEF ClientInv
  <2>4. /\ lamports'[d] \in {0, LAMPORTS}
        /\ lamports'[d] > 0 => run'[d].nonce < CurrentNonce' /\ run'[d].transfer # "unsent"
        /\ run'[d].transfer = "ok" => lamports'[d] = LAMPORTS
    BY <1>2, <2>2, <2>3 DEF PaymentInv
  <2>5. \A e \in Runs :
          lamports'[d] > 0 /\ lamports'[e] > 0 /\ run'[d].nonce = run'[e].nonce => d = e
    BY <1>2, <2>2, <2>3 DEF PaymentInv
  <2> QED
    BY <2>1, <2>4, <2>5 DEF PaymentInv
<1> QED
  BY <1>1, <1>3, <1>4 DEF ClientInv

\* A call that asks for nothing more of the vault leaves it as it was.
LEMMA HeldAtRest ==
  ASSUME NEW c \in Runs, FundsHeld(c),
         lamports' = lamports, CurrentNonce' = CurrentNonce,
         run'[c].nonce = run[c].nonce, run'[c].relayer_fee = run[c].relayer_fee,
         Coming(run'[c]) = Coming(run[c]),
         run'[c].pc \in {"funding", "sign"} \/ run'[c].transfer # "unsent" =>
           run[c].pc \in {"funding", "sign"} \/ run[c].transfer # "unsent"
  PROVE  FundsHeld(c)'
<1>1. Needed(c)' = Needed(c)
  BY DEF Needed
<1> QED
  BY <1>1 DEF FundsHeld

LEMMA StepInv ==
  ASSUME ClientInv, NEW c \in Runs, Step(c),
         incarnation' = IF Exists /\ ~Exists' THEN "later" ELSE incarnation
  PROVE  ClientInv'
<1>0. /\ run \in [Runs -> Local] /\ run[c] \in Local /\ LocalInv(run[c])
      /\ incarnation \in {"first", "later"} /\ incarnation = "first" => FundsHeld(c)
      /\ lamports \in [Accounts -> Nat] /\ now \in 0 .. MaxTime /\ CurrentNonce \in 0 .. U64Max
  BY NonceType DEF ClientInv, IInv, TypeOK
<1>1. UNCHANGED vars
  BY DEF Step, ReadNonce, ReadBalance, Funded, Sign, Confirm, GiveUp
<1>2. incarnation' = incarnation /\ CurrentNonce' = CurrentNonce /\ lamports' = lamports
  <2>1. wallet' = wallet /\ lamports' = lamports
    BY <1>1 DEF vars
  <2>2. Exists' = Exists /\ CurrentNonce' = CurrentNonce
    BY <2>1 DEF Exists, CurrentNonce
  <2>3. ~(Exists /\ ~Exists')
    BY <2>1 DEF Exists
  <2>4. incarnation' = incarnation
    BY <1>0, <2>3
  <2> QED
    BY <2>1, <2>2, <2>4
<1>3. lamports[Vault] \in Nat
  BY <1>0 DEF Accounts
<1>4. CASE ReadNonce(c)
  <2>1. /\ run' = [run EXCEPT ![c].pc = "balance", ![c].nonce = CurrentNonce,
                              ![c].relayer_fee = AdvancedByKora]
        /\ run[c].pc = "nonce"
    BY <1>4 DEF ReadNonce
  <2>2. /\ AdvancedByKora \in Nat
        /\ AdvancedByKora = (IF CurrentNonce = 0 THEN StateRent ELSE 0) + TRANSACTION_FEE
    BY ClientAssumption, ParametersAssumption
    DEF AdvancedByKora, ClientInv, NonceUsed, CurrentNonce
  <2>3. /\ run' \in [Runs -> Local] /\ \A d \in Runs \ {c} : run'[d] = run[d]
        /\ run'[c].pc = "balance" /\ run'[c].nonce = CurrentNonce
        /\ run'[c].relayer_fee = AdvancedByKora
        /\ run'[c].deposit = run[c].deposit /\ run'[c].transfer = run[c].transfer
    BY <1>0, <2>1, <2>2 DEF Local
  <2>4. run[c].transfer = "unsent" /\ run[c].deposit = "unsent"
    BY <1>0, <2>1 DEF LocalInv
  <2>5. LocalInv(run'[c])
    BY <2>2, <2>3, <2>4 DEF LocalInv
  <2>6. FundsHeld(c)'
    BY <1>0, <1>2, <2>3, <2>4 DEF FundsHeld
  <2> QED
    BY <1>1, <1>2, <2>3, <2>4, <2>5, <2>6, OneRun
<1>5. CASE ReadBalance(c)
  <2>1. Needed(c) \in Nat /\ Needed(c) <= LAMPORTS + StateRent + TRANSACTION_FEE + VAULT_RESERVE
    BY <1>0, <1>5, ClientAssumption, ParametersAssumption DEF Needed, LocalInv, ReadBalance
  <2>2. run[c].transfer = "unsent" /\ run[c].deposit = "unsent" /\ run[c].pc = "balance"
    BY <1>0, <1>5 DEF LocalInv, ReadBalance
  <2>3. CASE lamports[Vault] < Needed(c)
    <3>1. run' = [run EXCEPT ![c].pc = "funding", ![c].deposit = "sent",
                             ![c].top_up = Needed(c) - lamports[Vault]]
      BY <1>5, <2>3 DEF ReadBalance
    <3>2. /\ run' \in [Runs -> Local] /\ \A d \in Runs \ {c} : run'[d] = run[d]
          /\ run'[c].pc = "funding" /\ run'[c].deposit = "sent"
          /\ run'[c].top_up = Needed(c) - lamports[Vault]
          /\ run'[c].nonce = run[c].nonce /\ run'[c].relayer_fee = run[c].relayer_fee
          /\ run'[c].transfer = "unsent"
      BY <1>0, <1>3, <2>1, <2>2, <2>3, <3>1 DEF Local, Status
    <3>3. run'[c].top_up \in Deposits
      <4> DEFINE most == LAMPORTS + StateRent + TRANSACTION_FEE + VAULT_RESERVE
      <4>1. most \in Nat /\ 1 .. most \subseteq Deposits /\ Needed(c) <= most
        BY <2>1, ClientAssumption, ParametersAssumption
      <4> HIDE DEF most
      <4>2. Needed(c) - lamports[Vault] \in 1 .. most
        BY <1>3, <2>1, <2>3, <4>1
      <4> QED
        BY <3>2, <4>1, <4>2
    <3>4. LocalInv(run'[c])
      BY <1>0, <2>2, <3>2, <3>3 DEF LocalInv
    <3>5. incarnation = "first" => FundsHeld(c)'
      <4>1. Needed(c)' = Needed(c) /\ Coming(run'[c]) = Needed(c) - lamports[Vault]
        BY <3>2 DEF Needed, Coming
      <4>2. lamports'[Vault] + Coming(run'[c]) >= Needed(c)'
        BY <1>2, <1>3, <2>1, <4>1
      <4>3. ASSUME incarnation = "first" PROVE run[c].nonce <= CurrentNonce
        BY <1>0, <4>3 DEF FundsHeld
      <4>4. ASSUME incarnation = "first" PROVE FundsHeld(c)'
        BY <1>2, <3>2, <4>2, <4>3, <4>4 DEF FundsHeld
      <4> QED
        BY <4>4
    <3> QED
      BY <1>1, <1>2, <2>2, <3>2, <3>4, <3>5, OneRun
  <2>4. CASE ~(lamports[Vault] < Needed(c))
    <3>1. run' = [run EXCEPT ![c].pc = "sign"]
      BY <1>5, <2>4 DEF ReadBalance
    <3>2. /\ run' \in [Runs -> Local] /\ \A d \in Runs \ {c} : run'[d] = run[d]
          /\ run'[c] = [run[c] EXCEPT !.pc = "sign"]
          /\ run'[c].pc = "sign" /\ run'[c].deposit = "unsent"
          /\ run'[c].nonce = run[c].nonce /\ run'[c].relayer_fee = run[c].relayer_fee
          /\ run'[c].transfer = "unsent"
      BY <1>0, <2>2, <3>1 DEF Local
    <3>3. LocalInv(run'[c])
      BY <1>0, <2>2, <3>2 DEF LocalInv
    <3>4. incarnation = "first" => FundsHeld(c)'
      <4>1. Needed(c)' = Needed(c) /\ Coming(run'[c]) = 0
        BY <3>2 DEF Needed, Coming
      <4>2. lamports'[Vault] + Coming(run'[c]) >= Needed(c)'
        BY <1>2, <1>3, <2>1, <2>4, <4>1
      <4>3. ASSUME incarnation = "first" PROVE run[c].nonce <= CurrentNonce
        BY <1>0, <4>3 DEF FundsHeld
      <4>4. ASSUME incarnation = "first" PROVE FundsHeld(c)'
        BY <1>2, <3>2, <4>2, <4>3, <4>4 DEF FundsHeld
      <4> QED
        BY <4>4
    <3> QED
      BY <1>1, <1>2, <2>2, <3>2, <3>3, <3>4, OneRun
  <2> QED
    BY <2>3, <2>4
<1>6. CASE Funded(c)
  <2>1. /\ run' = [run EXCEPT ![c].pc = "sign"]
        /\ run[c].pc = "funding" /\ run[c].deposit = "ok" /\ run[c].transfer = "unsent"
    BY <1>0, <1>6 DEF Funded, LocalInv
  <2>2. /\ run' \in [Runs -> Local] /\ \A d \in Runs \ {c} : run'[d] = run[d]
        /\ run'[c].pc = "sign" /\ run'[c].deposit = "ok" /\ run'[c].top_up = run[c].top_up
        /\ run'[c].nonce = run[c].nonce /\ run'[c].relayer_fee = run[c].relayer_fee
        /\ run'[c].transfer = "unsent"
    BY <1>0, <2>1 DEF Local
  <2>3. LocalInv(run'[c])
    BY <1>0, <2>1, <2>2 DEF LocalInv
  <2>4. ASSUME incarnation = "first" PROVE FundsHeld(c)'
    BY <1>0, <1>2, <2>1, <2>2, <2>4, HeldAtRest DEF Coming
  <2> QED
    BY <1>1, <1>2, <2>1, <2>2, <2>3, <2>4, OneRun
<1>7. CASE Sign(c)
  <2>1. /\ run' = [run EXCEPT ![c].pc = "confirm", ![c].transfer = "sent",
                              ![c].expires_at = now + AUTHORIZATION_TTL]
        /\ run[c].pc = "sign" /\ run[c].transfer = "unsent"
    BY <1>0, <1>7 DEF Sign, LocalInv
  <2>2. now + AUTHORIZATION_TTL \in Nat
    BY <1>0, ClientAssumption
  <2>3. /\ run' \in [Runs -> Local] /\ \A d \in Runs \ {c} : run'[d] = run[d]
        /\ run'[c].pc = "confirm" /\ run'[c].deposit = run[c].deposit
        /\ run'[c].top_up = run[c].top_up
        /\ run'[c].nonce = run[c].nonce /\ run'[c].relayer_fee = run[c].relayer_fee
        /\ run'[c].transfer = "sent" /\ run'[c].expires_at = now + AUTHORIZATION_TTL
    BY <1>0, <2>1, <2>2 DEF Local, Status
  <2>4. LocalInv(run'[c])
    BY <1>0, <2>1, <2>3 DEF LocalInv
  <2>5. ASSUME incarnation = "first" PROVE FundsHeld(c)'
    BY <1>0, <1>2, <2>1, <2>3, <2>5, HeldAtRest DEF Coming
  <2> QED
    BY <1>1, <1>2, <2>1, <2>3, <2>4, <2>5, OneRun
<1>8. CASE Confirm(c)
  <2>1. /\ run' = [run EXCEPT ![c].pc = "done"]
        /\ run[c].pc = "confirm" /\ run[c].transfer = "ok"
    BY <1>8 DEF Confirm, Succeeded
  <2>2. /\ run' \in [Runs -> Local] /\ \A d \in Runs \ {c} : run'[d] = run[d]
        /\ run'[c].pc = "done" /\ run'[c].deposit = run[c].deposit
        /\ run'[c].top_up = run[c].top_up /\ run'[c].expires_at = run[c].expires_at
        /\ run'[c].nonce = run[c].nonce /\ run'[c].relayer_fee = run[c].relayer_fee
        /\ run'[c].transfer = "ok"
    BY <1>0, <2>1 DEF Local
  <2>3. LocalInv(run'[c])
    BY <1>0, <2>1, <2>2 DEF LocalInv
  <2>4. ASSUME incarnation = "first" PROVE FundsHeld(c)'
    BY <1>0, <1>2, <2>1, <2>2, <2>4, HeldAtRest DEF Coming
  <2> QED
    BY <1>1, <1>2, <2>1, <2>2, <2>3, <2>4, OneRun
<1>9. CASE GiveUp(c)
  <2>1. run' = [run EXCEPT ![c].pc = "failed"]
    BY <1>9 DEF GiveUp
  <2>2. /\ run' \in [Runs -> Local] /\ \A d \in Runs \ {c} : run'[d] = run[d]
        /\ run'[c].pc = "failed" /\ run'[c].deposit = run[c].deposit
        /\ run'[c].top_up = run[c].top_up /\ run'[c].expires_at = run[c].expires_at
        /\ run'[c].nonce = run[c].nonce /\ run'[c].relayer_fee = run[c].relayer_fee
        /\ run'[c].transfer = run[c].transfer
    BY <1>0, <2>1 DEF Local
  <2>3. LocalInv(run'[c])
    BY <1>0, <2>2 DEF LocalInv
  <2>4. run[c].transfer # "unsent" => run[c].pc # "funding"
    BY <1>0 DEF LocalInv
  <2>5. ASSUME incarnation = "first" PROVE FundsHeld(c)'
    <3>1. CASE run[c].transfer # "unsent"
      BY <1>0, <1>2, <2>2, <2>4, <2>5, <3>1, HeldAtRest DEF Coming
    <3>2. CASE run[c].transfer = "unsent"
      BY <1>0, <1>2, <2>2, <2>5, <3>2 DEF FundsHeld
    <3> QED
      BY <3>1, <3>2
  <2> QED
    BY <1>1, <1>2, <2>2, <2>3, <2>5, OneRun
<1> QED
  BY <1>4, <1>5, <1>6, <1>7, <1>8, <1>9 DEF Step

-----------------------------------------------------------------------------
(* What happens around a run. *)

\* A step of the chain that pays no run, and tells none anything.
LEMMA ElsewhereKeeps ==
  ASSUME ClientInv, IInv', NonceUsed', NonceStep, run' = run,
         \A c \in Runs : lamports'[c] = lamports[c],
         incarnation' = IF Exists /\ ~Exists' THEN "later" ELSE incarnation
  PROVE  ClientInv'
<1>0. /\ run \in [Runs -> Local] /\ lamports \in [Accounts -> Nat]
      /\ CurrentNonce \in Nat /\ lamports[Vault] \in Nat
      /\ lamports' \in [Accounts -> Nat] /\ lamports'[Vault] \in Nat
      /\ \A c \in Runs : LocalInv(run[c])
  BY NonceType, ParametersAssumption DEF ClientInv, IInv, TypeOK, Accounts
<1>1. incarnation' \in {"first", "later"}
  BY DEF ClientInv
<1>2. ASSUME incarnation' = "first", NEW c \in Runs
      PROVE  FundsHeld(c)' /\ PaymentInv(c)'
  <2>1. incarnation = "first" /\ ~(Exists /\ ~Exists')
    BY <1>2
  <2>2. /\ FundsHeld(c) /\ PaymentInv(c)
        /\ CurrentNonce' >= CurrentNonce
        /\ \/ CurrentNonce' = CurrentNonce + 1
           \/ CurrentNonce' = CurrentNonce /\ lamports'[Vault] >= lamports[Vault]
    BY <1>0, <2>1 DEF ClientInv, NonceStep
  <2>3. /\ run[c].nonce \in Nat /\ run[c].relayer_fee \in Nat /\ run[c].top_up \in Nat
        /\ CurrentNonce' \in Nat
    BY <1>0, <2>2, ParametersAssumption DEF Local
  <2>4. Needed(c) \in Nat /\ Coming(run[c]) \in Nat /\ Needed(c)' = Needed(c)
    BY <2>3, ClientAssumption DEF Needed, Coming
  <2>5. FundsHeld(c)'
    BY <1>0, <2>2, <2>3, <2>4 DEF FundsHeld
  <2>6. PaymentInv(c)'
    BY <1>0, <2>2, <2>3 DEF PaymentInv
  <2> QED
    BY <2>5, <2>6
<1> QED
  BY <1>0, <1>1, <1>2 DEF ClientInv

LEMMA ElsewhereInv ==
  ASSUME ClientInv, Elsewhere,
         incarnation' = IF Exists /\ ~Exists' THEN "later" ELSE incarnation
  PROVE  ClientInv'
<1>0. IInv /\ NonceUsed /\ run' = run /\ lamports \in [Accounts -> Nat]
  BY DEF ClientInv, Elsewhere, IInv, TypeOK
<1>1. ASSUME NEW signer \in Keys, NEW r \in DeviceRequests, NEW relayer \in Relayers,
             NEW asked \in RelayerFees, Execute(signer, r, relayer, asked)
      PROVE  ClientInv'
  <2>1. r \in Requests
    BY ClientAssumption
  <2>2. IInv'
    BY <1>0, <1>1, <2>1, NextInv DEF Next
  <2>3. NonceUsed' /\ NonceStep
    BY <1>0, <1>1, <2>1, <2>2, ExecuteNonce
  <2>4. \A c \in Runs : lamports'[c] = lamports[c]
    BY <1>0, <1>1, DevicesElsewhere
  <2> QED
    BY <1>0, <2>2, <2>3, <2>4, ElsewhereKeeps
<1>2. CASE ConfirmRotation \/ Tick
  <2>1. IInv'
    BY <1>0, <1>2, NextInv DEF Next, Unsigned
  <2>2. NonceUsed' /\ CurrentNonce' = CurrentNonce /\ lamports' = lamports
    BY <1>0, <1>2, UnsignedNonce
  <2>3. lamports[Vault] \in Nat
    BY <1>0 DEF Accounts
  <2>4. NonceStep
    BY <2>2, <2>3 DEF NonceStep
  <2> QED
    BY <1>0, <2>1, <2>2, <2>4, ElsewhereKeeps
<1>3. ASSUME NEW party \in Depositors, NEW to \in {Vault, State}, NEW n \in Deposits,
             Deposit(party, to, n)
      PROVE  ClientInv'
  <2>1. party \in Parties
    BY ClientAssumption
  <2>2. IInv'
    BY <1>0, <1>3, <2>1, DepositInv
  <2>3. /\ NonceUsed' /\ CurrentNonce' = CurrentNonce
        /\ lamports'[Vault] >= lamports[Vault]
        /\ \A a \in Accounts \ {party, Vault, State} : lamports'[a] = lamports[a]
    BY <1>0, <1>3, <2>1, DepositNonce
  <2>4. \A c \in Runs : lamports'[c] = lamports[c]
    BY <2>3, RunIsApart
  <2> QED
    BY <1>0, <2>2, <2>3, <2>4, ElsewhereKeeps DEF NonceStep
<1> QED
  BY <1>1, <1>2, <1>3 DEF Elsewhere

LEMMA FundsLandInv ==
  ASSUME ClientInv, NEW c \in Runs, FundsLand(c),
         incarnation' = IF Exists /\ ~Exists' THEN "later" ELSE incarnation
  PROVE  ClientInv'
<1> DEFINE n == run[c].top_up
<1>0. /\ IInv /\ NonceUsed /\ run \in [Runs -> Local] /\ \A d \in Runs : LocalInv(run[d])
      /\ lamports \in [Accounts -> Nat] /\ lamports[Vault] \in Nat
      /\ CurrentNonce \in Nat
  BY NonceType, ParametersAssumption DEF ClientInv, IInv, TypeOK, Accounts
<1>1. /\ run[c].deposit = "sent" /\ Deposit(Funder, Vault, n)
      /\ run' = [run EXCEPT ![c].deposit = "ok"]
  BY DEF FundsLand
<1>2. n \in Deposits /\ n \in Nat /\ Funder \in Parties
  BY <1>0, <1>1, ClientAssumption, AccountsAssumption DEF LocalInv
<1>3. IInv'
  BY <1>0, <1>1, <1>2, DepositInv
<1>4. /\ NonceUsed' /\ CurrentNonce' = CurrentNonce /\ Exists' = Exists
      /\ lamports'[Vault] = lamports[Vault] + n
      /\ \A a \in Accounts \ {Funder, Vault, State} : lamports'[a] = lamports[a]
  BY <1>0, <1>1, <1>2, DepositNonce
<1>5. /\ run' \in [Runs -> Local] /\ \A d \in Runs \ {c} : run'[d] = run[d]
      /\ run'[c].pc = run[c].pc /\ run'[c].deposit = "ok"
      /\ run'[c].top_up = run[c].top_up /\ run'[c].expires_at = run[c].expires_at
      /\ run'[c].nonce = run[c].nonce /\ run'[c].relayer_fee = run[c].relayer_fee
      /\ run'[c].transfer = run[c].transfer
  BY <1>0, <1>1 DEF Local, Status
<1>6. incarnation' = incarnation
  BY <1>4
<1>7. \A d \in Runs : LocalInv(run'[d])
  <2>1. LocalInv(run'[c])
    BY <1>0, <1>1, <1>5 DEF LocalInv
  <2> QED
    BY <1>0, <1>5, <2>1
<1>8. \A d \in Runs : lamports'[d] = lamports[d]
  BY <1>4, RunIsApart
<1> HIDE DEF n
<1>9. ASSUME incarnation' = "first", NEW d \in Runs
      PROVE  FundsHeld(d)' /\ PaymentInv(d)'
  <2>1. FundsHeld(d) /\ PaymentInv(d)
    BY <1>6, <1>9 DEF ClientInv
  <2>2. /\ run'[d].pc = run[d].pc /\ run'[d].nonce = run[d].nonce
        /\ run'[d].relayer_fee = run[d].relayer_fee /\ run'[d].transfer = run[d].transfer
    BY <1>5
  <2>3. /\ run[d].relayer_fee \in Nat /\ run[d].top_up \in Nat /\ Needed(d) \in Nat
        /\ Needed(d)' = Needed(d)
    BY <1>0, <2>2, ClientAssumption DEF Needed, Local
  <2>4. Coming(run[d]) \in Nat /\ Coming(run'[d]) \in Nat /\ Coming(run'[d]) + n >= Coming(run[d])
    <3>1. CASE d = c
      BY <1>1, <1>2, <1>5, <3>1 DEF Coming, n
    <3>2. CASE d # c
      BY <1>2, <1>5, <2>3, <3>2 DEF Coming
    <3> QED
      BY <3>1, <3>2
  <2>5. FundsHeld(d)'
    BY <1>0, <1>2, <1>4, <2>1, <2>2, <2>3, <2>4 DEF FundsHeld
  <2>6. \A e \in Runs : run'[e].nonce = run[e].nonce
    BY <1>5
  <2>7. PaymentInv(d)'
    BY <1>4, <1>8, <2>1, <2>2, <2>6 DEF PaymentInv
  <2> QED
    BY <2>5, <2>7
<1> QED
  BY <1>3, <1>4, <1>5, <1>6, <1>7, <1>9 DEF ClientInv

-----------------------------------------------------------------------------
(* A run's transfer, whoever carries it. *)

\* What a run signs is one of the requests the wallet is modelled under.
LEMMA RunRequest ==
  ASSUME NEW c \in Runs, run[c] \in Local, LocalInv(run[c]), run[c].transfer # "unsent"
  PROVE  /\ RequestOf(run[c], c) \in Requests
         /\ run[c].relayer_fee \in RelayerFees
<1>1. PICK t \in 0 .. MaxTime : run[c].expires_at = t + AUTHORIZATION_TTL
  BY DEF LocalInv
<1>2. /\ run[c].relayer_fee \in {TRANSACTION_FEE, StateRent + TRANSACTION_FEE}
      /\ run[c].nonce \in 0 .. U64Max
  BY ClientAssumption, ParametersAssumption DEF LocalInv, Local
<1>3. RequestOf(run[c], c) =
        RequestOf([nonce |-> run[c].nonce, expires_at |-> t + AUTHORIZATION_TTL,
                   relayer_fee |-> run[c].relayer_fee], c)
  BY <1>1 DEF RequestOf
<1>4. RequestOf(run[c], c) \in Signable(c)
  BY <1>2, <1>3 DEF Signable
<1> QED
  BY <1>2, <1>4, ClientAssumption

\* It pays the run's address out of what the run had made sure of.
LEMMA TransferEffect ==
  ASSUME ClientInv, NEW c \in Runs, run[c].transfer # "unsent",
         NEW relayer \in Relayers, NEW asked \in RelayerFees, Transfer(c, relayer, asked)
  PROVE  /\ IInv' /\ NonceUsed' /\ NonceStep
         /\ Exists' /\ CurrentNonce' = CurrentNonce + 1
         /\ run[c].nonce = CurrentNonce
         /\ lamports'[c] = lamports[c] + LAMPORTS
         /\ \A d \in Runs \ {c} : lamports'[d] = lamports[d]
         /\ incarnation = "first" => lamports'[Vault] >= VAULT_RESERVE
         /\ lamports'[relayer] - lamports[relayer]
              = Refund(RequestOf(run[c], c), asked) - RentAdvance
<1> DEFINE r == RequestOf(run[c], c)
<1> DEFINE l == AfterInit(relayer)
<1> DEFINE refund == Refund(r, asked)
<1>0. /\ IInv /\ NonceUsed /\ run[c] \in Local /\ LocalInv(run[c])
      /\ lamports \in [Accounts -> Nat] /\ CurrentNonce \in Nat
  BY NonceType, ParametersAssumption DEF ClientInv, IInv, TypeOK
<1>1. r \in Requests /\ TransferSol(EnclaveKey, r, relayer, asked) /\ EnclaveKey \in Keys
  BY <1>0, RunRequest, ClientAssumption DEF Transfer
<1>2. /\ r.action.to = c /\ r.action.lamports = LAMPORTS
      /\ r.max_relayer_fee = run[c].relayer_fee /\ r.nonce = run[c].nonce
  BY DEF RequestOf
<1>3. Execute(EnclaveKey, r, relayer, asked)
  BY <1>1 DEF Execute
<1>4. IInv'
  BY <1>0, <1>1, <1>3, NextInv DEF Next
<1>5. NonceUsed' /\ NonceStep
  BY <1>0, <1>1, <1>3, <1>4, ExecuteNonce
<1> HIDE DEF r
<1>6. /\ Authorized(InitIfNeeded, EnclaveKey, r) /\ lamports[relayer] >= RentAdvance
      /\ CanPay(l, c, LAMPORTS, refund) /\ lamports' = Paid(l, c, LAMPORTS, relayer, refund)
      /\ wallet' = Advanced(InitIfNeeded, EnclaveKey)
  BY <1>1, <1>2 DEF TransferSol, CanTransfer, VaultPays
<1>7. r.nonce = CurrentNonce
  BY <1>0, <1>1, <1>6, AuthorizedNonce
<1>8. Exists' /\ CurrentNonce' = CurrentNonce + 1
  <2>1. wallet' \in WalletState /\ wallet'.nonce = r.nonce + 1
    BY <1>0, <1>1, <1>6, InitIfNeededWallet, AdvancedWallet
  <2> QED
    BY <1>7, <2>1, WalletIsNoAbsence DEF Exists, CurrentNonce
<1>9. refund \in Nat /\ refund <= run[c].relayer_fee /\ run[c].relayer_fee \in Nat
  BY <1>0, <1>1, <1>2, RefundBounds DEF Local
<1>10. c \in Accounts \ ({Vault, State} \union Relayers) /\ relayer \in Accounts \ {Vault, State}
  BY RunIsApart, AccountsAssumption DEF Accounts
<1>11. /\ l \in [Accounts -> Nat] /\ RentAdvance \in Nat
       /\ l[relayer] = lamports[relayer] - RentAdvance
       /\ \A a \in Accounts \ {State, relayer} : l[a] = lamports[a]
  BY <1>0, <1>6, AfterInitElsewhere
<1> HIDE DEF l, refund
<1>12. /\ lamports' \in [Accounts -> Nat]
       /\ lamports'[c] = l[c] + LAMPORTS
       /\ lamports'[Vault] = l[Vault] - LAMPORTS - refund
       /\ lamports'[relayer] = l[relayer] + refund
       /\ \A a \in Accounts \ {Vault, c, relayer} : lamports'[a] = l[a]
  BY <1>6, <1>9, <1>10, <1>11, PaidValues, PaidElsewhere
<1>13. \A d \in Runs \ {c} : lamports'[d] = lamports[d]
  BY <1>11, <1>12, RunIsApart
<1>14. lamports'[c] = lamports[c] + LAMPORTS
  BY <1>10, <1>11, <1>12
<1>15. lamports'[relayer] - lamports[relayer] = refund - RentAdvance
  BY <1>0, <1>9, <1>10, <1>11, <1>12
<1>16. ASSUME incarnation = "first" PROVE lamports'[Vault] >= VAULT_RESERVE
  <2>1. FundsHeld(c)
    BY <1>16 DEF ClientInv
  <2>2. run[c].pc # "funding"
    BY <1>0 DEF LocalInv
  <2>3. lamports[Vault] >= LAMPORTS + run[c].relayer_fee + VAULT_RESERVE
    <3>1. Coming(run[c]) = 0 /\ lamports[Vault] \in Nat
      BY <1>0, <2>2 DEF Coming, Accounts
    <3> QED
      BY <1>2, <1>7, <2>1, <3>1 DEF FundsHeld, Needed
  <2>4. l[Vault] = lamports[Vault] /\ lamports[Vault] \in Nat
    BY <1>0, <1>10, <1>11, AccountsAssumption DEF Accounts
  <2> QED
    BY <1>9, <1>12, <2>3, <2>4, ClientAssumption
<1> QED
  BY <1>2, <1>4, <1>5, <1>7, <1>8, <1>13, <1>14, <1>15, <1>16 DEF r, refund

\* Whichever of Kora's transaction and another relayer's comes first, the
\* nonce is gone and the run has paid.
LEMMA TransferInv ==
  ASSUME ClientInv, NEW c \in Runs, run[c].transfer # "unsent",
         NEW relayer \in Relayers, NEW asked \in RelayerFees, Transfer(c, relayer, asked),
         run' = run \/ (run[c].transfer = "sent" /\ run' = [run EXCEPT ![c].transfer = "ok"]),
         incarnation' = IF Exists /\ ~Exists' THEN "later" ELSE incarnation
  PROVE  ClientInv'
<1>0. /\ run \in [Runs -> Local] /\ \A d \in Runs : LocalInv(run[d])
      /\ lamports \in [Accounts -> Nat] /\ CurrentNonce \in Nat
  BY NonceType, ParametersAssumption DEF ClientInv, IInv, TypeOK
<1>1. /\ IInv' /\ NonceUsed' /\ Exists' /\ CurrentNonce' = CurrentNonce + 1
      /\ run[c].nonce = CurrentNonce
      /\ lamports'[c] = lamports[c] + LAMPORTS
      /\ \A d \in Runs \ {c} : lamports'[d] = lamports[d]
  BY TransferEffect
<1>2. /\ run' \in [Runs -> Local]
      /\ \A d \in Runs \ {c} : run'[d] = run[d]
      /\ \A d \in Runs :
           /\ run'[d].pc = run[d].pc /\ run'[d].deposit = run[d].deposit
           /\ run'[d].top_up = run[d].top_up /\ run'[d].expires_at = run[d].expires_at
           /\ run'[d].nonce = run[d].nonce /\ run'[d].relayer_fee = run[d].relayer_fee
           /\ run[d].transfer # "unsent" => run'[d].transfer # "unsent"
           /\ run'[d].transfer = "ok" => d = c \/ run[d].transfer = "ok"
           /\ run'[d].transfer # run[d].transfer =>
                run[d].transfer = "sent" /\ run'[d].transfer = "ok"
  BY <1>0 DEF Local, Status
<1>3. incarnation' = incarnation
  BY <1>1
<1>4. ASSUME NEW d \in Runs PROVE LocalInv(run'[d])
  <2>1. LocalInv(run[d])
    BY <1>0
  <2> QED
    BY <1>2, <2>1 DEF LocalInv
<1>5. ASSUME incarnation' = "first", NEW d \in Runs
      PROVE  FundsHeld(d)' /\ PaymentInv(d)'
  <2>1. \A e \in Runs : FundsHeld(e) /\ PaymentInv(e)
    BY <1>3, <1>5 DEF ClientInv
  <2>2. \A e \in Runs : run[e].nonce \in Nat /\ run'[e].nonce = run[e].nonce
    BY <1>0, <1>2, ParametersAssumption DEF Local
  <2>3. \A e \in Runs : run[e].nonce <= CurrentNonce
    BY <2>1 DEF FundsHeld
  <2>4. FundsHeld(d)'
    BY <1>0, <1>1, <2>2, <2>3 DEF FundsHeld
  <2>5. lamports[c] = 0 /\ lamports'[c] = LAMPORTS
    <3>1. PaymentInv(c)
      BY <2>1
    <3>2. lamports[c] = 0
      BY <1>1, <2>2, <3>1, ClientAssumption DEF PaymentInv
    <3> QED
      BY <1>1, <3>2, ClientAssumption
  <2>6. /\ lamports'[d] \in {0, LAMPORTS}
        /\ lamports'[d] > 0 => run'[d].nonce < CurrentNonce' /\ run'[d].transfer # "unsent"
        /\ run'[d].transfer = "ok" => lamports'[d] = LAMPORTS
    <3>1. CASE d = c
      BY <1>0, <1>1, <1>2, <2>5, <3>1
    <3>2. CASE d # c
      BY <1>0, <1>1, <1>2, <2>1, <2>2, <3>2 DEF PaymentInv
    <3> QED
      BY <3>1, <3>2
  <2>7. ASSUME NEW e \in Runs, lamports'[d] > 0, lamports'[e] > 0,
               run'[d].nonce = run'[e].nonce
        PROVE  d = e
    <3>1. \A f \in Runs \ {c} : lamports'[f] > 0 => run[f].nonce < CurrentNonce
      BY <1>1, <2>1 DEF PaymentInv
    <3>2. CASE d = c \/ e = c
      BY <1>0, <1>1, <2>2, <2>7, <3>1, <3>2
    <3>3. CASE d # c /\ e # c
      BY <1>1, <2>1, <2>2, <2>7, <3>3 DEF PaymentInv
    <3> QED
      BY <3>2, <3>3
  <2> QED
    BY <2>4, <2>6, <2>7 DEF PaymentInv
<1> QED
  BY <1>1, <1>2, <1>3, <1>4, <1>5 DEF ClientInv

LEMMA TransferErrsInv ==
  ASSUME ClientInv, NEW c \in Runs, TransferErrs(c),
         incarnation' = IF Exists /\ ~Exists' THEN "later" ELSE incarnation
  PROVE  ClientInv'
<1>0. /\ run \in [Runs -> Local] /\ LocalInv(run[c])
      /\ incarnation = "first" => FundsHeld(c)
  BY DEF ClientInv
<1>1. /\ run[c].transfer = "sent" /\ UNCHANGED vars
      /\ run' = [run EXCEPT ![c].transfer = "err"]
  BY DEF TransferErrs
<1>2. incarnation' = incarnation /\ lamports' = lamports /\ CurrentNonce' = CurrentNonce
  BY <1>1 DEF vars, Exists, CurrentNonce
<1>3. /\ run' \in [Runs -> Local] /\ \A d \in Runs \ {c} : run'[d] = run[d]
      /\ run'[c].pc = run[c].pc /\ run'[c].deposit = run[c].deposit
      /\ run'[c].top_up = run[c].top_up /\ run'[c].expires_at = run[c].expires_at
      /\ run'[c].nonce = run[c].nonce /\ run'[c].relayer_fee = run[c].relayer_fee
      /\ run'[c].transfer = "err"
  BY <1>0, <1>1 DEF Local, Status
<1>4. LocalInv(run'[c])
  BY <1>0, <1>1, <1>3 DEF LocalInv
<1>5. ASSUME incarnation = "first" PROVE FundsHeld(c)'
  BY <1>0, <1>1, <1>2, <1>3, <1>5, HeldAtRest DEF Coming
<1> QED
  BY <1>1, <1>2, <1>3, <1>4, <1>5, OneRun

-----------------------------------------------------------------------------
(* The theorems. *)

LEMMA ClientInitInv == ClientInit => ClientInv
<1> SUFFICES ASSUME ClientInit PROVE ClientInv
  OBVIOUS
<1>1. IInv /\ wallet = NoAccount /\ lamports \in [Accounts -> Nat]
  BY InitInv DEF ClientInit, Init, IInv, TypeOK
<1>2. run = [c \in Runs |-> Started] /\ Started \in Local /\ LocalInv(Started)
  BY ParametersAssumption DEF ClientInit, Started, Local, Status, LocalInv
<1>3. ASSUME NEW c \in Runs PROVE lamports[c] = 0
  BY ClientAssumption, RunIsApart DEF ClientInit, Init
<1>4. CurrentNonce = 0
  BY <1>1 DEF CurrentNonce, Exists
<1>5. ASSUME NEW c \in Runs PROVE FundsHeld(c) /\ PaymentInv(c)
  BY <1>2, <1>3, <1>4 DEF Started, FundsHeld, PaymentInv
<1> QED
  BY <1>1, <1>2, <1>5 DEF ClientInit, ClientInv, NonceUsed, Exists

LEMMA ClientNextInv == ClientInv /\ [ClientNext]_clientVars => ClientInv'
<1> SUFFICES ASSUME ClientInv, [ClientNext]_clientVars PROVE ClientInv'
  OBVIOUS
<1>1. CASE UNCHANGED clientVars
  <2>1. UNCHANGED vars /\ run' = run /\ incarnation' = incarnation
    BY <1>1 DEF clientVars
  <2>2. IInv' /\ NonceUsed' /\ CurrentNonce' = CurrentNonce /\ lamports' = lamports
        /\ Exists' = Exists
    BY <2>1, NextInv, UnsignedNonce DEF ClientInv
  <2>3. lamports[Vault] \in Nat
    BY DEF ClientInv, IInv, TypeOK, Accounts
  <2> QED
    BY <2>1, <2>2, <2>3, ElsewhereKeeps DEF NonceStep
<1>2. CASE ClientNext
  <2>0. incarnation' = IF Exists /\ ~Exists' THEN "later" ELSE incarnation
    BY <1>2 DEF ClientNext
  <2>1. ASSUME NEW c \in Runs, Land(c) PROVE ClientInv'
    <3>1. CASE FundsLand(c)
      BY <2>0, <3>1, FundsLandInv
    <3>2. CASE TransferLands(c)
      <4>1. Kora \in Relayers /\ run[c].relayer_fee \in RelayerFees
        BY <3>2, RunRequest, ClientAssumption DEF TransferLands, ClientInv
      <4> QED
        BY <2>0, <3>2, <4>1, TransferInv DEF TransferLands
    <3>3. CASE TransferErrs(c)
      BY <2>0, <3>3, TransferErrsInv
    <3>4. CASE TransferCarried(c)
      BY <2>0, <3>4, TransferInv DEF TransferCarried
    <3> QED
      BY <2>1, <3>1, <3>2, <3>3, <3>4 DEF Land
  <2> QED
    BY <1>2, <2>0, <2>1, StepInv, ElsewhereInv DEF ClientNext
<1> QED
  BY <1>1, <1>2

LEMMA ClientInductive == ClientSpec => []ClientInv
  BY ClientInitInv, ClientNextInv, PTL DEF ClientSpec

\* However the runs, the devices and the network interleave, an address is
\* paid once, and of the runs that read one nonce at most one pays.
THEOREM RunsPayOnce == ClientSpec => []PaidOnce
<1>1. ClientInv => PaidOnce
  BY DEF ClientInv, PaidOnce, PaymentInv, LocalInv
<1> QED
  BY <1>1, ClientInductive, PTL

LEMMA TransferMakesWhole ==
  ASSUME ClientInv, NEW c \in Runs, TransferLands(c)
  PROVE  lamports'[Kora] - lamports[Kora] >= TRANSACTION_FEE
<1> DEFINE r == RequestOf(run[c], c)
<1> DEFINE fee == run[c].relayer_fee
<1>0. /\ IInv /\ run[c] \in Local /\ LocalInv(run[c]) /\ run[c].transfer = "sent"
      /\ Transfer(c, Kora, fee) /\ Kora \in Relayers /\ fee \in Nat
  BY ClientAssumption DEF ClientInv, TransferLands, Local
<1>1. fee \in RelayerFees
  BY <1>0, RunRequest
<1>2. /\ lamports'[Kora] - lamports[Kora] = Refund(r, fee) - RentAdvance
      /\ run[c].nonce = CurrentNonce
  BY <1>0, <1>1, TransferEffect
<1>3. Refund(r, fee) = fee
  BY <1>0 DEF Refund, RequestOf, Lesser
<1>4. lamports[Kora] >= RentAdvance
  BY <1>0 DEF Transfer, TransferSol, CanTransfer, VaultPays
<1>5. RentAdvance \in 0 .. StateRent /\ (Exists => RentAdvance = 0)
  BY <1>0, <1>4, AfterInitElsewhere
<1>6. fee = (IF CurrentNonce = 0 THEN StateRent ELSE 0) + TRANSACTION_FEE
  BY <1>0, <1>2 DEF LocalInv
<1>7. fee >= RentAdvance + TRANSACTION_FEE
  <2>1. CASE Exists
    BY <1>5, <1>6, <2>1, ClientAssumption, ParametersAssumption
  <2>2. CASE ~Exists
    BY <1>5, <1>6, <2>2, ClientAssumption, ParametersAssumption DEF CurrentNonce
  <2> QED
    BY <2>1, <2>2
<1> QED
  BY <1>0, <1>2, <1>3, <1>5, <1>7, ClientAssumption

\* Kora never pays for a run whose transaction succeeds: the nonce the run
\* signed for tells whether the rent was still to be advanced.
THEOREM KoraIsWhole == ClientSpec => RelayerMadeWhole
<1>1. ClientInv /\ [ClientNext]_clientVars =>
        [\A c \in Runs :
           run[c].transfer = "sent" /\ run'[c].transfer = "ok" =>
             lamports'[Kora] - lamports[Kora] >= TRANSACTION_FEE]_clientVars
  <2> SUFFICES ASSUME ClientInv, ClientNext, NEW c \in Runs,
                      run[c].transfer = "sent", run'[c].transfer = "ok"
               PROVE  lamports'[Kora] - lamports[Kora] >= TRANSACTION_FEE
    OBVIOUS
  <2>1. run \in [Runs -> Local] /\ run[c] \in Local
    BY DEF ClientInv
  <2>2. ASSUME NEW d \in Runs, Step(d) PROVE run'[c].transfer \in {run[c].transfer, "sent"}
    <3>1. CASE ReadNonce(d) \/ ReadBalance(d)
      BY <2>1, <3>1 DEF ReadNonce, ReadBalance, Local
    <3>2. CASE Funded(d) \/ Confirm(d) \/ GiveUp(d)
      BY <2>1, <3>2 DEF Funded, Confirm, GiveUp, Local
    <3>3. CASE Sign(d)
      BY <2>1, <3>3 DEF Sign, Local
    <3> QED
      BY <2>2, <3>1, <3>2, <3>3 DEF Step
  <2>3. ASSUME NEW d \in Runs, Land(d) PROVE TransferLands(c)
    <3>1. CASE FundsLand(d)
      <4>1. run'[c].transfer = run[c].transfer
        BY <2>1, <3>1 DEF FundsLand, Local
      <4> QED
        BY <4>1
    <3>2. CASE TransferErrs(d)
      <4>1. run'[c].transfer \in {run[c].transfer, "err"}
        BY <2>1, <3>2 DEF TransferErrs, Local
      <4> QED
        BY <4>1
    <3>3. CASE TransferLands(d)
      <4>1. d # c => run'[c] = run[c]
        BY <2>1, <3>3 DEF TransferLands
      <4> QED
        BY <3>3, <4>1
    <3>4. CASE TransferCarried(d)
      BY <3>4 DEF TransferCarried
    <3> QED
      BY <2>3, <3>1, <3>2, <3>3, <3>4 DEF Land
  <2>4. ~Elsewhere
    BY DEF Elsewhere
  <2>5. TransferLands(c)
    BY <2>2, <2>3, <2>4 DEF ClientNext
  <2> QED
    BY <2>5, TransferMakesWhole
<1> QED
  BY <1>1, ClientInductive, PTL DEF ClientSpec, RelayerMadeWhole

\* The reserve outlives every payment of a first incarnation: what a run found
\* in the vault is there as long as the nonce it read is the wallet's.
THEOREM ReserveIsKept == ClientSpec => ReserveKept
<1>1. ClientInv /\ [ClientNext]_clientVars =>
        [\A c \in Runs :
           incarnation = "first" /\ lamports'[c] > lamports[c]
             => lamports'[Vault] >= VAULT_RESERVE]_clientVars
  <2> SUFFICES ASSUME ClientInv, ClientNext, NEW c \in Runs,
                      incarnation = "first", lamports'[c] > lamports[c]
               PROVE  lamports'[Vault] >= VAULT_RESERVE
    OBVIOUS
  <2>0. /\ IInv /\ NonceUsed /\ lamports[c] \in Nat
        /\ \A d \in Runs : run[d] \in Local /\ LocalInv(run[d])
    BY RunIsApart DEF ClientInv, IInv, TypeOK
  <2>1. lamports' # lamports /\ ~(lamports'[c] = lamports[c])
    BY <2>0
  <2>2. \A d \in Runs : ~Step(d)
    BY <2>1 DEF Step, ReadNonce, ReadBalance, Funded, Sign, Confirm, GiveUp, vars
  <2>3. ~Elsewhere
    <3> SUFFICES ASSUME Elsewhere PROVE FALSE
      OBVIOUS
    <3>1. ASSUME NEW party \in Depositors, NEW to \in {Vault, State}, NEW n \in Deposits,
                 Deposit(party, to, n)
          PROVE  FALSE
      <4>1. party \in Parties /\ c \in Accounts \ {party, Vault, State}
        BY RunIsApart, ClientAssumption
      <4> QED
        BY <2>0, <2>1, <3>1, <4>1, DepositNonce
    <3>2. ~ConfirmRotation /\ ~Tick
      BY <2>1 DEF ConfirmRotation, Tick
    <3> QED
      BY <2>0, <2>1, <3>1, <3>2, DevicesElsewhere DEF Elsewhere
  <2>4. PICK d \in Runs : Land(d)
    BY <2>2, <2>3 DEF ClientNext
  <2>5. ~FundsLand(d)
    <3> SUFFICES ASSUME FundsLand(d) PROVE FALSE
      OBVIOUS
    <3>1. Deposit(Funder, Vault, run[d].top_up) /\ run[d].top_up \in Deposits
      BY <2>0 DEF FundsLand, LocalInv
    <3>2. Funder \in Parties /\ c \in Accounts \ {Funder, Vault, State}
      BY RunIsApart, ClientAssumption
    <3> QED
      BY <2>0, <2>1, <3>1, <3>2, DepositNonce
  <2>6. ~TransferErrs(d)
    BY <2>1 DEF TransferErrs, vars
  <2>7. PICK relayer \in Relayers, asked \in RelayerFees :
          run[d].transfer # "unsent" /\ Transfer(d, relayer, asked)
    BY <2>0, <2>4, <2>5, <2>6, RunRequest, ClientAssumption
    DEF Land, TransferLands, TransferCarried
  <2> QED
    BY <2>7, TransferEffect
<1> QED
  BY <1>1, ClientInductive, PTL DEF ClientSpec, ReserveKept
=============================================================================
