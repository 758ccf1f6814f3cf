SPECIFICATION Spec
CONSTANTS
  XLEN = 4
  BYTE <- MCBYTE
  Regs <- MCRegs
  BitAnd <- MCBitAnd
  BitOr <- MCBitOr
  BitXor <- MCBitXor
  MSTATUS_M <- MCMSTATUS_M
  MISA_RESET <- MCMISA_RESET
  Mpp <- MCMpp
  MstatusMret <- MCMstatusMret
  Instr <- MCInstr
  Text <- MCText
  ResetAdr = 0
  RamInit <- MCRamInit
INVARIANTS
  TypeOK
  BranchShadowForwardsNothing
PROPERTIES
  ImplementsIsa
  ExecutesFetched
  SquashLeavesNothing
  KeepsDistances
