------------------------------ MODULE Program ------------------------------
(***************************************************************************)
(* What the core executes: the instruction words memory may hold at each   *)
(* address, the reset vector, and the initial data.  Text is a relation    *)
(* and not a function, so one run checks every program it allows, stores   *)
(* into the code included; what Text leaves out is a software convention.  *)
(***************************************************************************)
EXTENDS Decoder

CONSTANTS
  Instr,      \* the instruction words memory may hold
  Text,       \* Text[a]: those that may be fetched at address a
  ResetAdr,   \* reset_adr_i
  RamInit     \* the initial contents of the data memory

Line == {a \in Word : a % 4 = 0}

ASSUME InstrAssumption ==
  /\ ZeroInstr \in Instr
  /\ \A i \in Instr : WellFormed(i)
ASSUME TextAssumption ==
  /\ Text \in [Word -> SUBSET Instr]
  /\ \A a \in Word : Text[a] # {}
ASSUME ResetAssumption == ResetAdr \in Word
ASSUME RamAssumption == RamInit \subseteq [Line -> Word] /\ RamInit # {}

(***************************************************************************)
(* Contents of the register file and of the csr bank during reset.         *)
(***************************************************************************)
RfResetValue == [r \in Regs |-> 0]

CsrResetValue == [c \in CsrFlops |-> IF c = "misa" THEN MISA_RESET ELSE 0]
=============================================================================
