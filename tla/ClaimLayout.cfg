SPECIFICATION ElfSpec
CONSTANTS
  Unwritten = Unwritten
  EHSIZE = 10
  PHENTSIZE = 6
  SHENTSIZE = 8
  SectionKinds <- MCLowKinds
  SegmentKinds <- MCSegmentKinds
  Additions <- MCAdditions
  LinkedObjects <- MCLinkedObjects
  BELOW_SEGMENTS = TRUE
  MAX_SECTIONS = 4
  MAX_SEGMENTS = 2
  MAX_SIZE = 2
INVARIANTS
  BackwardsIsAborted
