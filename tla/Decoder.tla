------------------------------ MODULE Decoder ------------------------------
(***************************************************************************)
(* The combinational decoder (decoder.sv): what its output ports show for  *)
(* one instruction word.  Each operator is named after its port.           *)
(*                                                                         *)
(* An instruction word is a record of its fields: opc is the opcode class, *)
(* name the line of the casez table the word matches ("illegal" when it    *)
(* matches none), rd, rs1, rs2 and csr the register fields, and imm the    *)
(* sign-extended immediate its format carries.                             *)
(***************************************************************************)
EXTENDS KlawPkg

Branches     == {"beq", "bne", "blt", "bge", "bltu", "bgeu"}
LoadNames    == {"lb", "lh", "lw", "lbu", "lhu"}
Shifts       == {"sll", "srl", "sra", "slli", "srli", "srai"}
CsrImmediate == {"csrrwi", "csrrsi", "csrrci"}
CsrNames     == {"csrrw", "csrrs", "csrrc"} \union CsrImmediate

\* The lines of the casez table an opcode can match.  "nop" is a P_TYPE word
\* on the mret or sret line whose bit 21 is clear (wfi): the line matches, so
\* the word is legal, and sets nothing.
NamesOf(opc) ==
  CASE opc = "R" ->
         {"add", "sub", "sll", "slt", "sltu", "xor", "srl", "sra", "or", "and",
          "mul", "mulh", "mulhsu", "mulhu", "div", "divu", "rem", "remu", "illegal"}
    [] opc = "I" ->
         {"addi", "slti", "sltiu", "xori", "ori", "andi", "slli", "srli", "srai", "illegal"}
    [] opc = "L" -> LoadNames \union {"ld", "illegal"}
    [] opc = "S" -> {"sw", "sh", "sb", "sd", "illegal"}
    [] opc = "B" -> Branches \union {"illegal"}
    [] opc = "U" -> {"lui"}
    [] opc = "AUIPC" -> {"auipc"}
    [] opc = "JAL" -> {"jal"}
    [] opc = "JALR" -> {"jalr"}
    [] opc = "P" -> CsrNames \union {"ecall", "ebreak", "mret", "sret", "nop", "illegal"}
    [] opc = "FENCE" -> {"fence", "illegal"}
    [] OTHER -> {"illegal"}

Opcodes == {"R", "I", "L", "S", "B", "U", "AUIPC", "JAL", "JALR", "P", "FENCE", "other"}

WellFormed(i) ==
  /\ DOMAIN i = {"opc", "name", "rd", "rs1", "rs2", "csr", "imm"}
  /\ i.opc \in Opcodes
  /\ i.name \in NamesOf(i.opc)
  /\ i.rd \in Regs /\ i.rs1 \in Regs /\ i.rs2 \in Regs
  /\ i.csr \in CsrAdr
  /\ i.imm \in Word

\* The all-zero word: what the instruction flops hold in reset.
ZeroInstr == [opc |-> "other", name |-> "illegal", rd |-> 0, rs1 |-> 0, rs2 |-> 0,
              csr |-> "other", imm |-> 0]

(***************************************************************************)
(* Register fields.                                                        *)
(***************************************************************************)
wbk_v_o(i) ==
  /\ \/ i.opc \in {"R", "I", "L", "U", "AUIPC", "JAL", "JALR"}
     \/ i.name = "fence"
     \/ i.opc = "P" /\ i.name \notin {"ecall", "ebreak"}
  /\ i.rd # 0

rs1_v_o(i) ==
  /\ \/ i.opc \in {"R", "I", "L", "JALR", "B", "S"}
     \/ i.name \in {"csrrw", "csrrs", "csrrc", "fence"}
  /\ i.rs1 # 0

rs2_v_o(i) == i.opc \in {"R", "B", "S"} /\ i.rs2 # 0

(***************************************************************************)
(* Immediate.  A csr immediate is the rs1 field itself.                    *)
(***************************************************************************)
immediat_o(i) ==
  IF i.name \in CsrImmediate THEN i.rs1
  ELSE IF i.opc \in {"I", "JALR", "L", "S", "B", "JAL", "AUIPC", "U"} THEN i.imm
  ELSE 0

(***************************************************************************)
(* Csr accesses.  A set or clear of no bit does not write; mret writes     *)
(* mstatus whatever its csr field says.                                    *)
(***************************************************************************)
csr_wbk_o(i) ==
  \/ i.name \in {"mret", "csrrw", "csrrwi"}
  \/ i.name \in {"csrrc", "csrrs"} /\ i.rs1 # 0
  \/ i.name \in {"csrrci", "csrrsi"} /\ immediat_o(i) # 0

csr_clear_o(i)   == i.name \in {"csrrc", "csrrci"}
csrrw_o(i)       == i.name \in {"csrrw", "csrrwi"}
wbk_csr_adr_o(i) == IF i.name = "mret" THEN "mstatus" ELSE i.csr

(***************************************************************************)
(* Operand selection.                                                      *)
(***************************************************************************)
auipc_o(i)           == i.name = "auipc"
rs1_is_immediat_o(i) == i.name \in CsrImmediate
rs2_is_immediat_o(i) == i.opc \in {"U", "AUIPC", "JALR", "I", "L"}
rs2_is_csr_o(i)      == i.name \in CsrNames \union {"mret"}
rs2_ca2_v_o(i)       ==
  i.name \in {"sub", "bge", "blt", "bgeu", "bltu", "slt", "sltu", "slti", "sltiu"}
unsign_extension_o(i) == i.name \in {"bltu", "bgeu", "lbu", "lhu", "sltiu", "sltu"}

(***************************************************************************)
(* Unit and operation, as the sets of bits that are one.  Several lines    *)
(* may set several bits of unit_o: that they never do is a property.       *)
(***************************************************************************)
\* Mutant: a shift is also an arithmetic instruction.
unit_o_ShiftIsArithm(i) ==
  {u \in {ALU, SFT, BU, LSU} :
     \/ u = LSU /\ (i.name \in LoadNames \/ i.opc = "S")
     \/ u = BU  /\ i.opc \in {"B", "JAL", "JALR"}
     \/ u = SFT /\ i.opc \in {"R", "I"} /\ i.name \in Shifts
     \/ u = ALU /\ (i.opc \in {"R", "I", "U", "AUIPC"} \/ i.name \in CsrNames)}

unit_o(i) ==
  {u \in {ALU, SFT, BU, LSU} :
     \/ u = LSU /\ (i.name \in LoadNames \/ i.opc = "S")
     \/ u = BU  /\ i.opc \in {"B", "JAL", "JALR"}
     \/ u = SFT /\ i.opc \in {"R", "I"} /\ i.name \in Shifts
     \/ u = ALU /\ \/ i.opc \in {"R", "I"} /\ i.name \notin Shifts
                   \/ i.opc \in {"U", "AUIPC"}
                   \/ i.name \in CsrNames}

operation_o(i) ==
  {b \in 0 .. 5 :
     \/ b = 5 /\ i.name = "jalr"
     \/ b = 4 /\ i.name \in {"slt", "sltu", "slti", "sltiu", "jal"}
     \/ b = 3 /\ i.name \in {"xor", "xori", "bge", "bgeu"}
     \/ b = 2 /\ i.name \in {"or", "ori", "sra", "srai", "blt", "bltu", "csrrs", "csrrsi"}
     \/ b = 1 /\ i.name \in {"and", "andi", "srl", "srli", "bne", "csrrc", "csrrci"}
                              \union LoadNames
     \/ b = 0 /\ \/ i.name \in {"add", "sub", "addi", "sll", "slli", "lui", "auipc", "beq"}
                 \/ i.opc = "S"}

\* Bytes the access covers, 0 for "none of the three size bits".
access_size_o(i) ==
  CASE i.name \in {"lw", "sw"} -> 4
    [] i.name \in {"lh", "lhu", "sh"} -> 2
    [] i.name \in {"lb", "lbu", "sb"} -> 1
    [] OTHER -> 0

illegal_inst_o(i) == i.name = "illegal"
ecall_o(i)  == i.name = "ecall"
ebreak_o(i) == i.name = "ebreak"
mret_o(i)   == i.name = "mret"
sret_o(i)   == i.name = "sret"
=============================================================================
