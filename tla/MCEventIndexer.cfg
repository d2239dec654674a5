SPECIFICATION IndexSpec
CONSTANTS
  owner = owner
  heir = heir
  guardian1 = guardian1
  guardian2 = guardian2
  otherProgram = otherProgram
  relayer1 = relayer1
  relayer2 = relayer2
  alice = alice
  bob = bob
  Keys = {owner, heir, guardian1, guardian2}
  ZeroKey = ZeroKey
  Id = Id
  Sha256 <- MCSha256
  ProgramId = ProgramId
  Vault = Vault
  State = State
  Relayers = {relayer1}
  Parties = {bob}
  NoAccount = NoAccount
  MAX_GUARDIANS = 2
  ROTATION_DELAY = 2
  ROTATION_WINDOW = 1
  VaultRent = 1
  StateRent = 1
  Bundled = FALSE
  U64Max = 5
  I64Max = 11
  Requests <- IndexerRequests
  Signatures <- IndexerSignatures
  RelayerFees = {0}
  Deposits = {1}
  Endowment <- IndexerEndowment
  MaxTime = 7
INVARIANTS IndexAgrees
CHECK_DEADLOCK FALSE
