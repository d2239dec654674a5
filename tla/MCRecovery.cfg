SPECIFICATION Spec
CONSTANTS
  owner = owner
  heir = heir
  guardian1 = guardian1
  guardian2 = guardian2
  otherProgram = otherProgram
  relayer1 = relayer1
  relayer2 = relayer2
  alice = alice
  bob = bob
  Keys = {owner, heir, guardian1, guardian2}
  ZeroKey = ZeroKey
  Id = Id
  Sha256 <- MCSha256
  ProgramId = ProgramId
  Vault = Vault
  State = State
  Relayers = {relayer1}
  Parties = {bob}
  NoAccount = NoAccount
  MAX_GUARDIANS = 2
  ROTATION_DELAY = 2
  ROTATION_WINDOW = 1
  VaultRent = 1
  StateRent = 1
  Bundled = FALSE
  U64Max = 5
  I64Max = 11
  DISCRIMINATOR <- MCDiscriminator
  WalletId <- MCWalletId
  RpIdHashZero <- MCRpIdHashZero
  KeyBytes <- MCKeyBytes
  U64ToLeBytes <- MCU64ToLeBytes
  I64ToLeBytes <- MCI64ToLeBytes
  StateBump = 255
  VaultBump = 254
  Requests <- RecoveryRequests
  Signatures <- RecoverySignatures
  RelayerFees = {0}
  Deposits = {}
  Endowment <- RecoveryEndowment
  MaxTime = 8
INVARIANTS TypeOK WalletWellFormed
  DevicesFindTheirWallets OffsetsReadEveryField RemovedKeysLeaveNoTrace
PROPERTIES ControlApproved ProposalsKeepTheirTimelock CancelVoidedOnlyByRestart ImplementsRecovery
CHECK_DEADLOCK FALSE
