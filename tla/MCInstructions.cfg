SPECIFICATION Spec
CONSTANTS
  DOMAIN_TAG <- MCDomainTag
  COMPRESSED_PUBKEY_LEN = 1
  ADDRESS_LEN = 1
  WORD_LEN = 1
  U64 <- MCU64
  I64 <- MCI64
  U64ToLeBytes <- MCU64ToLeBytes
  I64ToLeBytes <- MCI64ToLeBytes
  WalletPda <- MCWalletPda
  VaultPda <- MCVaultPda
  PROGRAM_ID <- MCProgramId
  SYSTEM_PROGRAM <- MCSystem
  INSTRUCTIONS_SYSVAR <- MCSysvar
  EVENT_AUTHORITY <- MCEvents
  Requests <- MCRequests
  Instructions <- MCInstructions
  Relayers <- MCRelayers
INVARIANTS ApprovalBindsInstruction AnyRelayerMaySend
