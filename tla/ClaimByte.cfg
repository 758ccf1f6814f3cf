SPECIFICATION Spec
CONSTANTS
  XLEN = 4
  BYTE <- MCBYTE
  Regs <- MCRegs
  BitAnd <- MCBitAnd
  BitOr <- MCBitOr
  BitXor <- MCBitXor
  MSTATUS_M <- MCMSTATUS_M
  MISA_RESET <- MCMISA_RESET
  Mpp <- MCMpp
  MstatusMret <- MCMstatusMret
  Instr <- MCInstr
  Text <- ByteText
  ResetAdr = 0
  RamInit <- MCRamInit
PROPERTIES
  SignedBytesLoaded
