SPECIFICATION TablesSpec
CONSTANTS
  Unwritten = Unwritten
  Names <- MCNames
  elf_hash <- MCHash
  Types = {5}
  Addends = {0, 1}
  BYTE = 4
  MAX_SYMBOLS = 4
  MAX_RELOCATIONS = 1
  MAX_BUCKETS = 2
  BASE = 4
  ALIGN = 2
  Numbers = {1, 23}
  Fields <- MCFields
  Values <- MCValues
  NoteNames <- MCNoteNames
  Descs <- MCDescs
  Existing <- MCExisting
  Strings <- MCStrings
  FOREIGN_DYNAMIC = FALSE
  MAX_ENTRIES = 3
INVARIANTS
  ArrangementInv
  RelocationsKeepSymbols
  SymbolsAreFound
  ReadsBack
  ViewIsCurrent
PROPERTIES
  LocalsComeFirst
  ArrangementEnds
