SPECIFICATION Spec
CONSTANTS
  XLEN = 8
  BYTE <- MCBYTE
  Regs <- MCRegs
  BitAnd <- MCBitAnd
  BitOr <- MCBitOr
  BitXor <- MCBitXor
  MSTATUS_M <- MCMSTATUS_M
  MISA_RESET <- MCMISA_RESET
  Mpp <- MCMpp
  MstatusMret <- MCMstatusMret
  Instr <- MCInstr
  Text <- MCText
  ResetAdr = 4
  RamInit <- MCWordsRam
INVARIANTS
  OneHot
PROPERTIES
  OperandsInOrder
  CommitsInstruction
