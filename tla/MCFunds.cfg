SPECIFICATION Spec
CONSTANTS
  owner = owner
  heir = heir
  guardian1 = guardian1
  guardian2 = guardian2
  otherProgram = otherProgram
  relayer1 = relayer1
  relayer2 = relayer2
  alice = alice
  bob = bob
  Keys = {owner, heir, guardian1}
  ZeroKey = ZeroKey
  Id = Id
  Sha256 <- MCSha256
  ProgramId = ProgramId
  Vault = Vault
  State = State
  Relayers = {relayer1, relayer2}
  Parties = {alice, bob}
  NoAccount = NoAccount
  MAX_GUARDIANS = 1
  ROTATION_DELAY = 2
  ROTATION_WINDOW = 1
  VaultRent = 2
  StateRent = 3
  Bundled = FALSE
  U64Max = 16
  I64Max = 10
  Requests <- FundsRequests
  Signatures <- FundsSignatures
  RelayerFees = {0, 1, 3}
  Deposits = {2, 3}
  Endowment <- FundsEndowment
  MaxTime = 2
INVARIANTS FeeNeverBlocksTransfer EmptyVaultNeverBlocksClose OwnerCanCancel
PROPERTIES VaultSpendsApproved EventsAccountForVault TransferKeepsVaultAlive
  CloseLeavesNothing
CHECK_DEADLOCK FALSE
