----------------------------- MODULE KoraClient -----------------------------
(***************************************************************************)
(* Runs of the example client against the wallet: each pays a fresh        *)
(* address once, through a Kora node that fronts the rent and the fee.     *)
(*                                                                         *)
(* A run reads the nonce, reads the vault's balance, tops it up, signs,    *)
(* and polls.  Between any two of its calls other devices of the same      *)
(* wallet act, other runs go on and time passes; any call may fail, which  *)
(* ends the run but not the transactions it has already sent.              *)
(***************************************************************************)
EXTENDS SmartWalletProperties

CONSTANTS
  Runs,               \* the runs, each named by the address it pays
  EnclaveKey,         \* the key every run signs with (ENCLAVE_SEED)
  Kora, Funder,       \* the relayer of every run, and who tops the vault up
  DeviceRequests,     \* what the wallet's other devices may carry
  Depositors,         \* who else sends lamports to the wallet's accounts
  LAMPORTS, VAULT_RESERVE, TRANSACTION_FEE, AUTHORIZATION_TTL

VARIABLES
  run,                \* the locals of each run, and what it has sent
  incarnation         \* "first", or "later" once the wallet has been closed

clientVars == <<vars, run, incarnation>>

\* A transaction sent is in the network for good: its sender cannot recall it.
Status == {"unsent", "sent", "ok", "err"}

Local ==
  [pc : {"nonce", "balance", "funding", "sign", "confirm", "done", "failed"},
   nonce : 0 .. U64Max, relayer_fee : Nat, expires_at : Nat, top_up : Nat,
   deposit : Status, transfer : Status]

Started ==
  [pc |-> "nonce", nonce |-> 0, relayer_fee |-> 0, expires_at |-> 0, top_up |-> 0,
   deposit |-> "unsent", transfer |-> "unsent"]

Ended(c) == run[c].pc \in {"done", "failed"}

RequestOf(local, to) ==
  [wallet_id |-> Id, nonce |-> local.nonce, expires_at |-> local.expires_at,
   max_relayer_fee |-> local.relayer_fee,
   action |-> [kind |-> "TransferSol", to |-> to, lamports |-> LAMPORTS]]

\* What a run may come to sign: either fee, at any nonce and any time.
Signable(c) ==
  {RequestOf([nonce |-> n, expires_at |-> t + AUTHORIZATION_TTL, relayer_fee |-> fee], c) :
     n \in 0 .. U64Max, t \in 0 .. MaxTime,
     fee \in {TRANSACTION_FEE, StateRent + TRANSACTION_FEE}}

\* The addresses are fresh: nobody but their run pays them.
ASSUME ClientAssumption ==
  /\ Runs \subseteq Parties \ ({Funder} \union Relayers)
  /\ Kora \in Relayers /\ Funder \in Parties /\ EnclaveKey \in Keys
  /\ {LAMPORTS, VAULT_RESERVE, TRANSACTION_FEE, AUTHORIZATION_TTL} \subseteq Nat \ {0}
  /\ {TRANSACTION_FEE, StateRent + TRANSACTION_FEE} \subseteq RelayerFees
  /\ 1 .. LAMPORTS + StateRent + TRANSACTION_FEE + VAULT_RESERVE \subseteq Deposits
  /\ Depositors \subseteq Parties \ Runs
  /\ DeviceRequests \subseteq Requests
  /\ \A c \in Runs : Endowment[c] = 0 /\ Signable(c) \subseteq Requests
  /\ \A r \in DeviceRequests :
       r.action.kind \in {"TransferSol", "SweepVault", "CloseWallet"}
         => r.action.to \notin Runs

Transfer(c, relayer, asked) ==
  TransferSol(EnclaveKey, RequestOf(run[c], c), relayer, asked)

-----------------------------------------------------------------------------
(* The calls of a run, in order. *)

\* Fault: the first use is taken for any other.
AdvancedByKoraFeeOnly == TRANSACTION_FEE

\* What Kora advances: the fee, and the rent of a state that does not exist.
AdvancedByKora == (IF Exists THEN 0 ELSE StateRent) + TRANSACTION_FEE

\* Lamports sent to the state's address before it exists read as an account
\* that does not deserialize: the call fails.
Readable == Exists \/ lamports[State] = 0

ReadNonce(c) ==
  /\ run[c].pc = "nonce"
  /\ Readable
  /\ run' = [run EXCEPT ![c].pc = "balance",
                        ![c].nonce = CurrentNonce,
                        ![c].relayer_fee = AdvancedByKora]
  /\ UNCHANGED vars

Needed(c) == LAMPORTS + run[c].relayer_fee + VAULT_RESERVE

\* Reads the vault's balance and sends the lamports it lacks.
ReadBalance(c) ==
  LET held == lamports[Vault]
  IN  /\ run[c].pc = "balance"
      /\ run' = IF held < Needed(c)
                THEN [run EXCEPT ![c].pc = "funding", ![c].deposit = "sent",
                                 ![c].top_up = Needed(c) - held]
                ELSE [run EXCEPT ![c].pc = "sign"]
      /\ UNCHANGED vars

Funded(c) ==
  /\ run[c].pc = "funding"
  /\ run[c].deposit = "ok"
  /\ run' = [run EXCEPT ![c].pc = "sign"]
  /\ UNCHANGED vars

\* Fault: the nonce is read again, once the vault is funded.
SignAtNewNonce(c) ==
  /\ run[c].pc = "sign"
  /\ Exists
  /\ run' = [run EXCEPT ![c].pc = "confirm", ![c].transfer = "sent",
                        ![c].nonce = wallet.nonce,
                        ![c].expires_at = now + AUTHORIZATION_TTL]
  /\ UNCHANGED vars

\* Signs for the nonce read, and hands Kora the transaction.
Sign(c) ==
  /\ run[c].pc = "sign"
  /\ run' = [run EXCEPT ![c].pc = "confirm", ![c].transfer = "sent",
                        ![c].expires_at = now + AUTHORIZATION_TTL]
  /\ UNCHANGED vars

\* Fault: an error is an answer too.
SucceededOrNot(status) == status \in {"ok", "err"}

Succeeded(status) == status = "ok"

Confirm(c) ==
  /\ run[c].pc = "confirm"
  /\ Succeeded(run[c].transfer)
  /\ run' = [run EXCEPT ![c].pc = "done"]
  /\ UNCHANGED vars

\* A call fails, a transaction errs, or it is not confirmed after 60 polls.
GiveUp(c) ==
  /\ ~Ended(c)
  /\ run' = [run EXCEPT ![c].pc = "failed"]
  /\ UNCHANGED vars

Step(c) ==
  \/ ReadNonce(c) \/ ReadBalance(c) \/ Funded(c)
  \/ Sign(c) \/ Confirm(c) \/ GiveUp(c)

-----------------------------------------------------------------------------
(* What the network does with a run's transactions, however late. *)

FundsLand(c) ==
  /\ run[c].deposit = "sent"
  /\ Deposit(Funder, Vault, run[c].top_up)
  /\ run' = [run EXCEPT ![c].deposit = "ok"]

\* Kora's transaction executes at most once.
TransferLands(c) ==
  /\ run[c].transfer = "sent"
  /\ Transfer(c, Kora, run[c].relayer_fee)
  /\ run' = [run EXCEPT ![c].transfer = "ok"]

Executable(c) ==
  CanTransfer(EnclaveKey, RequestOf(run[c], c), Kora, run[c].relayer_fee)

TransferErrs(c) ==
  /\ run[c].transfer = "sent"
  /\ ~Executable(c)
  /\ run' = [run EXCEPT ![c].transfer = "err"]
  /\ UNCHANGED vars

\* A signed authorization is public, for any relayer to carry.
TransferCarried(c) ==
  /\ run[c].transfer # "unsent"
  /\ \E relayer \in Relayers, asked \in RelayerFees : Transfer(c, relayer, asked)
  /\ UNCHANGED run

Land(c) == FundsLand(c) \/ TransferLands(c) \/ TransferErrs(c) \/ TransferCarried(c)

\* Other devices of the wallet, its guardians, depositors and the clock.
Elsewhere ==
  /\ \/ \E signer \in Keys, r \in DeviceRequests, relayer \in Relayers, asked \in RelayerFees :
          Execute(signer, r, relayer, asked)
     \/ ConfirmRotation
     \/ \E party \in Depositors, to \in {Vault, State}, n \in Deposits :
          Deposit(party, to, n)
     \/ Tick
  /\ UNCHANGED run

ClientInit ==
  /\ Init
  /\ run = [c \in Runs |-> Started]
  /\ incarnation = "first"

ClientNext ==
  /\ \/ \E c \in Runs : Step(c) \/ Land(c)
     \/ Elsewhere
  /\ incarnation' = IF Exists /\ ~Exists' THEN "later" ELSE incarnation

ClientSpec == ClientInit /\ [][ClientNext]_clientVars

-----------------------------------------------------------------------------
(* What a run may count on. *)

\* Kora gets back at least the fee it pays, whatever it had to advance: no
\* account is made under a run that read one, because no wallet of nonce 0
\* ever outlives a transaction (main: "the relayer is whole again").
RelayerMadeWhole ==
  [][\A c \in Runs :
       run[c].transfer = "sent" /\ run'[c].transfer = "ok" =>
         lamports'[Kora] - lamports[Kora] >= TRANSACTION_FEE
    ]_clientVars

\* A run's transfer leaves the reserve in the vault: it read the nonce before
\* the balance, so whoever spends in between spends its nonce too
\* (main, steps 2 and 3; VAULT_RESERVE: "Left in the vault after the run").
ReserveKept ==
  [][\A c \in Runs :
       incarnation = "first" /\ lamports'[c] > lamports[c] => lamports'[Vault] >= VAULT_RESERVE
    ]_clientVars

\* Until a close, an address is paid at most once, a run that ended well has
\* paid, and of the runs that read one nonce no two pay: a retry is safe as
\* long as the wallet's nonce has not moved.
PaidOnce ==
  incarnation = "first" =>
    /\ \A c \in Runs : lamports[c] \in {0, LAMPORTS}
    /\ \A c \in Runs : run[c].pc = "done" => lamports[c] = LAMPORTS
    /\ \A c, d \in Runs :
         lamports[c] > 0 /\ lamports[d] > 0 /\ run[c].nonce = run[d].nonce => c = d
=============================================================================
