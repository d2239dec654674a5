SPECIFICATION Spec
CONSTANTS
  DOMAIN_TAG <- MCDomainTag
  COMPRESSED_PUBKEY_LEN = 1
  ADDRESS_LEN = 1
  WORD_LEN = 1
  P256_SIGNATURE_LEN = 1
  U64 <- MCU64
  I64 <- MCI64
  U64ToLeBytes <- MCU64ToLeBytes
  I64ToLeBytes <- MCI64ToLeBytes
  SECP256R1_PROGRAM_ID <- MCSecp256r1
  ProgramId <- MCProgramId
  Approvals <- MCApprovals
  Verifying <- MCVerifying
  Transactions <- MCTransactions
INVARIANTS AcceptedWasApproved
PROPERTIES SignedPairPasses
