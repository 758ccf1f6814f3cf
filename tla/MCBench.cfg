SPECIFICATION BenchSpec
CONSTANTS
  XLEN = 8
  BYTE <- MCBYTE
  Regs <- MCRegs
  BitAnd <- MCBitAnd
  BitOr <- MCBitOr
  BitXor <- MCBitXor
  MSTATUS_M <- MCMSTATUS_M
  MISA_RESET <- MCMISA_RESET
  Mpp <- MCMpp
  MstatusMret <- MCMstatusMret
  Instr <- MCInstr
  Text <- MCText
  ResetAdr = 4
  RamInit <- MCBenchRam
  Garbage <- MCGarbage
  CodeOf <- MCCodeOf
  CommandLine <- MCCommandLine
  Files <- MCFiles
  MAX_CYCLES = 30
  COUNTDOWN = 6
CHECK_DEADLOCK FALSE
INVARIANTS
  BenchTypeOK
  KeepsOffLabels
PROPERTIES
  ExecutesMemory
  LogTellsCommit
  VerdictIsNear
  VerdictIsFinal
  SignatureAfterCodeEnd
  EveryTestEnds
  RunsItsMemory
