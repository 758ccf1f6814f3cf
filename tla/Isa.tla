-------------------------------- MODULE Isa --------------------------------
(***************************************************************************)
(* What the core promises to software: a sequential machine that executes  *)
(* one whole instruction at a time.  No pipeline, no forward, no flush.    *)
(*                                                                         *)
(* The integer and trap semantics are those of RV32I with machine-mode     *)
(* csrs, over words of the width KlawPkg gives; where the source defines   *)
(* its own behaviour (sret, the instructions it accepts and does not       *)
(* execute, the constant mstatus) the machine is what software sees.       *)
(***************************************************************************)
EXTENDS Program

VARIABLES
  pc,    \* address of the next instruction to execute
  x,     \* general registers
  csrs,  \* machine csrs
  mem,   \* data memory
  mode   \* privilege mode

isaVars == <<pc, x, csrs, mem, mode>>

Signed(w) == IF Msb(w) THEN w - WORD ELSE w
Bool(b)   == IF b THEN 1 ELSE 0
Plus(a, b) == (a + b) % WORD
\* A shift multiplies or divides by a power of two; the amount is modulo XLEN.
Scale(b)   == 2 ^ (b % XLEN)

(***************************************************************************)
(* Reading.                                                                *)
(***************************************************************************)
Src1(i) == x[i.rs1]
\* Second operand of a computation: a register or the immediate.
Src2(i) == IF i.opc = "R" THEN x[i.rs2] ELSE i.imm

CsrName(i) == IF i.name = "mret" THEN "mstatus" ELSE i.csr
CsrRead(i) == IF CsrName(i) \in CsrFlops THEN csrs[CsrName(i)] ELSE 0
CsrSrc(i)  == IF i.name \in CsrImmediate THEN i.rs1 ELSE x[i.rs1]

Target(i) ==
  CASE i.name = "jalr" -> Plus(Src1(i), i.imm)
    [] OTHER           -> Plus(pc, i.imm)

Taken(i) ==
  \/ i.name \in {"jal", "jalr"}
  \/ i.name = "beq"  /\ x[i.rs1] = x[i.rs2]
  \/ i.name = "bne"  /\ x[i.rs1] # x[i.rs2]
  \/ i.name = "blt"  /\ Signed(x[i.rs1]) < Signed(x[i.rs2])
  \/ i.name = "bge"  /\ Signed(x[i.rs1]) >= Signed(x[i.rs2])
  \/ i.name = "bltu" /\ x[i.rs1] < x[i.rs2]
  \/ i.name = "bgeu" /\ x[i.rs1] >= x[i.rs2]

DataAdr(i) == Plus(x[i.rs1], i.imm)
LineOf(a)  == a - (a % 4)

\* Width in bytes of a memory access, 0 when there is none.
Width(i) ==
  CASE i.name \in {"lw", "sw"} -> 4
    [] i.name \in {"lh", "lhu", "sh"} -> 2
    [] i.name \in {"lb", "lbu", "sb"} -> 1
    [] OTHER -> 0

\* Number of values below the lane an access starts at, and in the lane.
LaneBase(a) == CASE a % 4 = 0 -> 1 [] a % 4 = 1 -> BYTE [] a % 4 = 2 -> HALF
                 [] OTHER -> HALF * BYTE
LaneSize(i) == CASE Width(i) = 1 -> BYTE [] Width(i) = 2 -> HALF [] OTHER -> WORD

Lane(i, w) == (w \div LaneBase(DataAdr(i))) % LaneSize(i)

LoadValue(i) ==
  LET lane == Lane(i, mem[LineOf(DataAdr(i))])
  IN  IF i.name \in {"lb", "lh"} /\ lane >= LaneSize(i) \div 2
      THEN WORD - LaneSize(i) + lane ELSE lane

StoreValue(i) ==
  LET w == mem[LineOf(DataAdr(i))]
  IN  w + ((x[i.rs2] % LaneSize(i)) - Lane(i, w)) * LaneBase(DataAdr(i))

(***************************************************************************)
(* Results.                                                                *)
(***************************************************************************)
Result(i) ==
  LET a == Src1(i)
      b == Src2(i)
  IN  CASE i.name \in {"add", "addi"}   -> Plus(a, b)
        [] i.name = "sub"               -> (a - b) % WORD
        [] i.name \in {"slt", "slti"}   -> Bool(Signed(a) < Signed(b))
        [] i.name \in {"sltu", "sltiu"} -> Bool(a < b)
        [] i.name \in {"and", "andi"}   -> BitAnd(a, b)
        [] i.name \in {"or", "ori"}     -> BitOr(a, b)
        [] i.name \in {"xor", "xori"}   -> BitXor(a, b)
        [] i.name \in {"sll", "slli"}   -> (a * Scale(b)) % WORD
        [] i.name \in {"srl", "srli"}   -> a \div Scale(b)
        [] i.name \in {"sra", "srai"}   -> (Signed(a) \div Scale(b)) % WORD
        [] i.name = "lui"               -> i.imm
        [] i.name = "auipc"             -> Plus(pc, i.imm)
        [] i.name \in {"jal", "jalr"}   -> Plus(pc, 4)
        [] i.name \in LoadNames         -> LoadValue(i)
        [] i.name \in CsrNames \union {"mret"} -> CsrRead(i)
        [] OTHER                        -> 0   \* accepted, not executed

\* The source decodes an mret whatever its rd field holds, and executes it as a
\* read of mstatus.
HasResult(i) == i.opc \notin {"S", "B", "other"} /\ i.rd # 0

CsrWritten(i) ==
  \/ i.name \in {"csrrw", "csrrwi", "mret"}
  \/ i.name \in {"csrrs", "csrrc", "csrrsi", "csrrci"} /\ i.rs1 # 0

CsrValue(i) ==
  IF CsrName(i) = "mstatus" THEN MSTATUS_M
  ELSE CASE i.name \in {"csrrw", "csrrwi"} -> CsrSrc(i)
         [] i.name \in {"csrrs", "csrrsi"} -> BitOr(CsrSrc(i), CsrRead(i))
         [] i.name \in {"csrrc", "csrrci"} -> BitAnd(WORD - 1 - CsrSrc(i), CsrRead(i))

(***************************************************************************)
(* Traps.                                                                  *)
(***************************************************************************)
MissalignedTarget(i) == Taken(i) /\ Target(i) % 4 # 0
MissalignedData(i)   == Width(i) # 0 /\ DataAdr(i) % Width(i) # 0

Traps(i) ==
  \/ i.name \in {"illegal", "ecall", "ebreak"}
  \/ MissalignedTarget(i)
  \/ MissalignedData(i)

Cause(i) ==
  CASE MissalignedTarget(i)  -> 0
    [] i.name = "illegal"    -> 2
    [] i.name = "ebreak"     -> 3
    [] MissalignedData(i)    -> IF i.opc = "L" THEN 4 ELSE 6
    [] i.name = "ecall"      -> 11

TrapVal(i) ==
  CASE MissalignedTarget(i)  -> Target(i)
    [] i.name = "ebreak"     -> pc
    [] MissalignedData(i)    -> DataAdr(i)
    [] OTHER                 -> 0

(***************************************************************************)
(* Steps.                                                                  *)
(***************************************************************************)
Trap(i) ==
  /\ Traps(i)
  /\ pc' = csrs["mtvec"]
  /\ csrs' = [csrs EXCEPT !["mepc"] = pc, !["mcause"] = Cause(i), !["mtval"] = TrapVal(i),
                          !["mstatus"] = MSTATUS_M]
  /\ mode' = 3
  /\ UNCHANGED <<x, mem>>

NextPc(i) ==
  CASE Taken(i)        -> Target(i)
    [] i.name = "mret" -> csrs["mepc"]
    [] i.name = "sret" -> 0
    [] OTHER           -> Plus(pc, 4)

MemAfter(i) ==
  IF i.name \in {"sb", "sh", "sw"}
  THEN [mem EXCEPT ![LineOf(DataAdr(i))] = StoreValue(i)] ELSE mem

Retire(i) ==
  /\ ~Traps(i)
  /\ pc' = NextPc(i)
  /\ x' = IF HasResult(i) THEN [x EXCEPT ![i.rd] = Result(i)] ELSE x
  /\ csrs' = IF CsrWritten(i) /\ CsrName(i) \in CsrFlops
             THEN [csrs EXCEPT ![CsrName(i)] = CsrValue(i)] ELSE csrs
  /\ mem' = MemAfter(i)
  /\ mode' = CASE i.name = "mret" -> Mpp(csrs["mstatus"])
               [] i.name = "sret" -> 1
               [] OTHER           -> mode

Exec(i) == Trap(i) \/ Retire(i)

\* An instruction the reset interrupts has stored or not, and done nothing else.
Reset ==
  /\ pc' = ResetAdr
  /\ x' = RfResetValue
  /\ csrs' = CsrResetValue
  /\ mem' \in {mem} \union {MemAfter(i) : i \in {j \in Text[pc] : ~Traps(j)}}
  /\ mode' = 3

IsaInit ==
  /\ pc = ResetAdr
  /\ x = RfResetValue
  /\ csrs = CsrResetValue
  /\ mem \in RamInit
  /\ mode = 3

IsaNext == Reset \/ \E i \in Text[pc] : Exec(i)

IsaSpec == IsaInit /\ [][IsaNext]_isaVars
=============================================================================
