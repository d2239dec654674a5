SPECIFICATION ClientSpec
CONSTANTS
  owner = owner
  kora = kora
  relayer1 = relayer1
  funder = funder
  alice = alice
  bob = bob
  run1 = run1
  run2 = run2
  Keys = {owner}
  ZeroKey = ZeroKey
  Id = Id
  Sha256 <- MCSha256
  ProgramId = ProgramId
  Vault = Vault
  State = State
  Relayers = {kora, relayer1}
  Parties = {funder, alice, bob, run1, run2}
  NoAccount = NoAccount
  MAX_GUARDIANS = 1
  ROTATION_DELAY = 1
  ROTATION_WINDOW = 1
  VaultRent = 1
  StateRent = 2
  Bundled = FALSE
  U64Max = 8
  I64Max = 6
  Requests <- AllRequests
  DeviceRequests <- MCDeviceRequests
  Signatures <- ClientSignatures
  RelayerFees = {0, 1, 3}
  Deposits = {1, 2, 3, 4, 5, 6, 7, 8}
  Endowment <- ClientEndowment
  MaxTime = 2
  Runs = {run1, run2}
  EnclaveKey = owner
  Kora = kora
  Depositors = {alice}
  Funder = funder
  LAMPORTS = 2
  VAULT_RESERVE = 2
  TRANSACTION_FEE = 1
  AUTHORIZATION_TTL = 1
SYMMETRY RunSymmetry
INVARIANTS PaidOnce
PROPERTIES RelayerMadeWhole ReserveKept
CHECK_DEADLOCK FALSE
