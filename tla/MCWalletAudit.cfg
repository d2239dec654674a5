SPECIFICATION AuditSpec
CONSTANTS
  owner = owner
  heir = heir
  guardian1 = guardian1
  guardian2 = guardian2
  otherProgram = otherProgram
  relayer1 = relayer1
  relayer2 = relayer2
  alice = alice
  bob = bob
  Keys = {owner, heir}
  ZeroKey = ZeroKey
  Id = Id
  Sha256 <- MCSha256
  ProgramId = ProgramId
  Vault = Vault
  State = State
  Relayers = {relayer1, relayer2}
  Parties = {bob}
  NoAccount = NoAccount
  MAX_GUARDIANS = 1
  ROTATION_DELAY = 1
  ROTATION_WINDOW = 1
  VaultRent = 2
  StateRent = 3
  Bundled = TRUE
  U64Max = 8
  I64Max = 11
  Requests <- AuditRequests
  Signatures <- AuditSignatures
  RelayerFees = {2}
  Deposits = {2}
  Endowment <- AuditEndowment
  MaxTime = 3
INVARIANTS NonceCountsApprovals
PROPERTIES VaultSpendsApproved CloseLeavesNothing
CHECK_DEADLOCK FALSE
