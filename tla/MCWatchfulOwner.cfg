SPECIFICATION WatchSpec
CONSTANTS
  owner = owner
  heir = heir
  guardian1 = guardian1
  guardian2 = guardian2
  otherProgram = otherProgram
  relayer1 = relayer1
  relayer2 = relayer2
  alice = alice
  bob = bob
  Keys = {owner, heir, guardian1, guardian2}
  ZeroKey = ZeroKey
  Id = Id
  Sha256 <- MCSha256
  ProgramId = ProgramId
  Vault = Vault
  State = State
  Relayers = {relayer1}
  Parties = {bob}
  NoAccount = NoAccount
  MAX_GUARDIANS = 2
  ROTATION_DELAY = 4
  ROTATION_WINDOW = 1
  VaultRent = 1
  StateRent = 1
  Bundled = FALSE
  U64Max = 6
  I64Max = 20
  Requests <- WatchRequests
  Signatures <- WatchSignatures
  RelayerFees = {0}
  Deposits = {1}
  Endowment <- WatchEndowment
  MaxTime = 9
  WATCH_PERIOD = 1
  DELIVERY_TIME = 1
  MAX_RELAYER_FEE = 1
INVARIANTS DeadlinesCanBeMet
PROPERTIES OwnerKeepsControl
CHECK_DEADLOCK FALSE
