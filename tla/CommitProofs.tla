---------------------------- MODULE CommitProofs ----------------------------
(***************************************************************************)
(* Given the operands of program order, execute and write back do to the   *)
(* registers, the csrs, the memory, the mode and the pc what one step of   *)
(* the sequential machine does: for every instruction, every program and   *)
(* every width of word.  Where a program keeps out of the windows of       *)
(* CoreIsa it has those operands, so the core implements that machine, at  *)
(* whatever instant the reset falls.                                       *)
(***************************************************************************)
EXTENDS CoreProofs
(***************************************************************************)
(* The stream of instructions.                                             *)
(***************************************************************************)
LEMMA StreamInit == Init => StreamInv
BY RegsAssumption DEF Init, StreamInv, flush_v, Bubble, ZeroInstr, wbk_v_o, RfResetValue

\* An edge hands every word and its address to the next stage together.
LEMMA StreamNext ==
  ASSUME TypeOK, PipelineInv, StreamInv, [Next]_vars
  PROVE  StreamInv'
<1> USE DEF StreamInv, flush_v, Bubble
<1>1. CASE Posedge
  <2>1. /\ dec_instr_q' = if_instr_q /\ dec_pc_q' = if_pc_q /\ dec_wbk_v_q' = rd_v_nxt
        /\ dec_illegal_inst_q' = illegal_inst_q_nxt
        /\ if_reset_n_q' = reset_n /\ if_pc_q' = pc_fetched_nxt
        /\ if_instr_q' \in Text[pc_fetched_nxt] /\ reset_n
        /\ branch_v_dly1_q' = branch_v_q /\ exception_dly1_q' = exception_q
        /\ rf' = rf_nxt
    BY <1>1 DEF Posedge, DecEdge, IfetchEdge, ExeEdge, BanksEdge
  <2>2. rf'[0] = 0
    <3>1. rf \in [Regs -> Word]
      BY DEF TypeOK, StoreTypeOK
    <3> QED
      BY <2>1, <3>1, RegsAssumption DEF rf_nxt
  <2>3. CASE ~if_reset_n_q
    <3>1. Bubble'
      BY <2>1, <2>3 DEF PipelineInv, ResetDrains, illegal_inst_q_nxt
    <3> QED
      BY <2>1, <2>2, <2>3, <3>1 DEF rd_v_nxt, PipelineInv, ResetDrains
  <2>4. CASE if_reset_n_q
    <3>1. dec_reset_n_q
      BY <2>4 DEF PipelineInv, ResetDrains
    <3>2. ~flush_v' => pc_fetched_nxt = (if_pc_q + 4) % WORD
      BY <1>1, <2>4, WillExecute DEF pc_fetched_nxt, end_reset_valid
    <3>3. (~flush_v => (dec_wbk_v_q <=> wbk_v_o(dec_instr_q)))'
      BY <2>1 DEF rd_v_nxt
    <3> QED
      BY <2>1, <2>2, <2>4, <3>1, <3>2, <3>3 DEF illegal_inst_q_nxt
  <2> QED
    BY <2>3, <2>4
<1>2. CASE AssertReset
  BY <1>2, RegsAssumption
  DEF AssertReset, IfetchReset, DecReset, BanksReset, ZeroInstr, wbk_v_o, RfResetValue
<1>3. CASE ReleaseReset
  BY <1>3 DEF ReleaseReset, ifVars, decVars, wbkVars
<1>4. CASE UNCHANGED vars
  BY <1>4 DEF vars, ifVars, decVars, wbkVars
<1> QED
  BY <1>1, <1>2, <1>3, <1>4 DEF Next

\* Fetch runs one word ahead of decode, no word parts from its address, and x0
\* stays zero, for every program and every reset (ifetch.sv, dec.sv, rf.sv).
THEOREM StreamInOrder == Spec => []StreamInv
<1>1. Init => StreamInv
  BY StreamInit
<1>2. TypeOK /\ PipelineInv /\ StreamInv /\ [Next]_vars => StreamInv'
  BY StreamNext
<1> QED
  BY <1>1, <1>2, TypesHold, PipelineConsistent, PTL DEF Spec

(***************************************************************************)
(* The instruction in execute.                                             *)
(***************************************************************************)

\* What CommitsInstruction and the invariants say of the instruction that the
\* next edge completes.
Executing ==
  /\ TypeOK /\ PipelineInv /\ StreamInv
  /\ reset_n /\ ~flush_v /\ ~Bubble
  /\ OperandsArchitectural

LEMMA InExecute ==
  ASSUME Executing
  PROVE  /\ WellFormed(dec_instr_q)
         /\ ArchPc = dec_pc_q /\ dec_pc_q \in Word
         /\ if_pc_q = (dec_pc_q + 4) % WORD
         /\ if_reset_n_q /\ dec_reset_n_q
         /\ rf_nxt \in [Regs -> Word] /\ rf_nxt[0] = 0
         /\ csr_nxt \in [CsrFlops -> Word] /\ ram \in [Line -> Word]
         /\ dec_rs1_data_q \in Extended /\ dec_rs2_data_q \in Extended
         /\ dec_wbk_v_q <=> wbk_v_o(dec_instr_q)
         /\ dec_illegal_inst_q <=> illegal_inst_o(dec_instr_q)
<1> USE DEF Executing
<1>1. WellFormed(dec_instr_q) /\ dec_pc_q \in Word /\ ram \in [Line -> Word]
      /\ dec_rs1_data_q \in Extended /\ dec_rs2_data_q \in Extended
      /\ rf \in [Regs -> Word]
  BY InstrAssumption DEF TypeOK, DecTypeOK, StoreTypeOK
<1>2. if_reset_n_q /\ dec_reset_n_q
  BY DEF PipelineInv, ResetDrains
<1>3. ArchPc = dec_pc_q
  BY <1>2 DEF ArchPc, flush_v
<1>4. rf_nxt[0] = 0
  BY <1>1, RegsAssumption DEF rf_nxt, StreamInv
<1> QED
  BY <1>1, <1>2, <1>3, <1>4, BanksTypes DEF StreamInv

\* The words an instruction reads.
X1(i) == rf_nxt[i.rs1]
X2(i) == rf_nxt[i.rs2]

\* What execute finds in the operand flops, by class of instruction.
LEMMA Operands ==
  ASSUME Executing, NEW i, i = dec_instr_q
  PROVE  /\ X1(i) \in Word /\ X2(i) \in Word /\ Machine!Src2(i) \in Word /\ i.imm \in Word
         /\ i.opc \in {"R", "I", "L", "S", "B", "JALR"} => dec_rs1_data_q = Extend(i, X1(i))
         /\ i.name = "lui" => dec_rs1_data_q = Extend(i, 0)
         /\ i.name = "auipc" => dec_rs1_data_q = Extend(i, dec_pc_q)
         /\ i.opc \in {"R", "I", "U", "AUIPC"} =>
              dec_rs2_data_q = IF rs2_ca2_v_o(i) THEN (-Extend(i, Machine!Src2(i))) % (2 * WORD)
                                                 ELSE Extend(i, Machine!Src2(i))
         /\ i.opc \in {"S", "B"} =>
              dec_rs2_data_q = IF rs2_ca2_v_o(i) THEN (-Extend(i, X2(i))) % (2 * WORD)
                                                 ELSE Extend(i, X2(i))
<1> USE DEF X1, X2
<1>1. /\ WellFormed(i) /\ i.imm \in Word /\ i.rs1 \in Regs /\ i.rs2 \in Regs
      /\ rf_nxt \in [Regs -> Word] /\ rf_nxt[0] = 0
  BY InExecute DEF WellFormed
<1>2. Machine!Src2(i) = IF i.opc = "R" THEN X2(i) ELSE i.imm
  BY DEF Machine!Src2
<1>3. /\ IF csr_clear_o(i) THEN Low(dec_rs1_data_q) = WORD - 1 - ArchSource1(i)
                           ELSE dec_rs1_data_q = Extend(i, ArchSource1(i))
      /\ dec_rs2_data_q = IF rs2_ca2_v_o(i) THEN (-Extend(i, ArchSource2(i))) % (2 * WORD)
                                            ELSE Extend(i, ArchSource2(i))
  BY DEF Executing, OperandsArchitectural
<1>4. i.opc # "P" => ~csr_clear_o(i) /\ ~rs1_is_immediat_o(i) /\ ~rs2_is_csr_o(i)
  BY <1>1, NameTellsOpcode DEF csr_clear_o, rs1_is_immediat_o, rs2_is_csr_o, CsrNames, CsrImmediate
<1>5. i.name = "auipc" <=> i.opc = "AUIPC"
  BY <1>1, NameTellsOpcode DEF WellFormed, NamesOf
<1>6. i.name = "lui" => i.opc = "U"
  BY <1>1, NameTellsOpcode
<1>7. i.opc \in {"R", "I", "L", "S", "B", "JALR"} => ArchSource1(i) = X1(i)
  BY <1>1, <1>4, <1>5 DEF ArchSource1, rs1_v_o, auipc_o
<1>8. i.name = "lui" => ArchSource1(i) = 0
  BY <1>4, <1>5, <1>6 DEF ArchSource1, rs1_v_o, auipc_o
<1>9. i.name = "auipc" => ArchSource1(i) = dec_pc_q
  BY <1>4, <1>5 DEF ArchSource1, auipc_o, rs1_v_o
<1>10. i.opc \in {"R", "I", "U", "AUIPC"} => ArchSource2(i) = Machine!Src2(i)
  BY <1>1, <1>2, <1>4 DEF ArchSource2, rs2_v_o, rs2_is_immediat_o
<1>11. i.opc \in {"S", "B"} => ArchSource2(i) = X2(i)
  BY <1>1, <1>4 DEF ArchSource2, rs2_v_o, rs2_is_immediat_o
<1> QED
  BY <1>1, <1>2, <1>3, <1>4, <1>5, <1>6, <1>7, <1>8, <1>9, <1>10, <1>11

(***************************************************************************)
(* Comparisons and branches.                                               *)
(***************************************************************************)

\* The number an operand stands for.
Value(i, w) == IF unsign_extension_o(i) THEN w ELSE Machine!Signed(w)

\* The adder of alu.sv and bu.sv, given an operand and the complement of the
\* other: its top bit compares them and its low bits are their difference.
LEMMA Compares ==
  ASSUME NEW i, NEW a \in Word, NEW b \in Word
  PROVE  LET d == addition_res(Extend(i, a), (-Extend(i, b)) % (2 * WORD))
         IN  /\ Borrow(d) <=> Value(i, a) < Value(i, b)
             /\ Low(d) = (a - b) % WORD
<1>1. a \in Nat /\ a < WORD /\ b \in Nat /\ b < WORD /\ WORD \in Nat /\ WORD > 0
  BY Widths DEF Word
<1> DEFINE x == Value(i, a)
           y == Value(i, b)
<1> DEFINE j == IF ~unsign_extension_o(i) /\ a >= WORD \div 2 THEN -1 ELSE 0
           k == IF ~unsign_extension_o(i) /\ b >= WORD \div 2 THEN -1 ELSE 0
<1>0. \A w : Machine!Signed(w) = IF w >= WORD \div 2 THEN w - WORD ELSE w
  BY SharedWords DEF Machine!Signed, Msb
<1>2. x = a + j * WORD /\ j \in Int
  BY <1>0, <1>1 DEF Value
<1>3. y = b + k * WORD /\ k \in Int
  BY <1>0, <1>1 DEF Value
<1>4. x \in Int /\ y \in Int /\ x - y \in -WORD .. WORD - 1
  <2> HIDE DEF x, y
  <2>1. CASE unsign_extension_o(i)
    BY <1>1, <1>2, <1>3, <2>1
  <2>2. CASE ~unsign_extension_o(i)
    BY <1>1, <1>2, <1>3, <2>2
  <2> QED
    BY <2>1, <2>2
<1> HIDE DEF j, k
<1>5. Extend(i, a) = x % (2 * WORD) /\ Extend(i, b) = y % (2 * WORD)
  BY DEF Extend, Value
<1>6. (x - y) % WORD = (a - b) % WORD
  <2>1. x - y = (a - b) + (j - k) * WORD /\ a - b \in Int /\ j - k \in Int
    BY <1>1, <1>2, <1>3
  <2> HIDE DEF x, y
  <2>2. ((a - b) + (j - k) * WORD) % WORD = (a - b) % WORD
    BY <1>1, <2>1, ModShift
  <2> QED
    BY <2>1, <2>2
<1> HIDE DEF x, y
<1>7. LET d == addition_res(x % (2 * WORD), (-(y % (2 * WORD))) % (2 * WORD))
      IN  (Borrow(d) <=> x < y) /\ Low(d) = (x - y) % WORD
  BY <1>4, AdderDifference
<1> QED
  BY <1>5, <1>6, <1>7 DEF x, y

\* Two words are equal when their extensions are.
LEMMA ExtendInjective ==
  ASSUME NEW i, NEW a \in Word, NEW b \in Word
  PROVE  Extend(i, a) = Extend(i, b) <=> a = b
BY SignBitExtends

\* The extra disjunct of bgeu adds nothing: an unsigned operand is the
\* complement of the other only when both are zero.
LEMMA ComplementIsZero ==
  ASSUME NEW i, NEW a \in Word, NEW b \in Word, unsign_extension_o(i),
         Extend(i, a) = (-Extend(i, b)) % (2 * WORD)
  PROVE  Value(i, a) >= Value(i, b)
<1>1. a \in Nat /\ a < WORD /\ b \in Nat /\ b < WORD /\ WORD \in Nat /\ WORD > 0
  BY Widths DEF Word
<1>2. Value(i, a) = a /\ Value(i, b) = b
  BY DEF Value
<1>3. Extend(i, a) = a /\ Extend(i, b) = b
  BY SignBitExtends, <1>1 DEF SignBit
<1>4. a = (-b) % (2 * WORD)
  BY <1>3
<1>5. b > 0 => (-b) % (2 * WORD) = 2 * WORD - b
  BY <1>1
<1> QED
  BY <1>1, <1>2, <1>4, <1>5

\* What the branch unit is asked, by name.
LEMMA BranchOperations ==
  ASSUME NEW i, WellFormed(i), i.opc \in {"B", "JAL", "JALR"}
  PROVE  /\ BEQ  \in operation_o(i) <=> i.name = "beq"
         /\ BNE  \in operation_o(i) <=> i.name = "bne"
         /\ BLT  \in operation_o(i) <=> i.name \in {"blt", "bltu"}
         /\ BGE  \in operation_o(i) <=> i.name \in {"bge", "bgeu"}
         /\ JAL  \in operation_o(i) <=> i.name = "jal"
         /\ JALR \in operation_o(i) <=> i.name = "jalr"
         /\ unsign_extension_o(i) <=> i.name \in {"bltu", "bgeu"}
         /\ rs2_ca2_v_o(i) <=> i.name \in {"blt", "bltu", "bge", "bgeu"}
         /\ immediat_o(i) = i.imm
<1>1. i.name \in Branches \union {"illegal", "jal", "jalr"}
  BY DEF WellFormed, NamesOf
<1> QED
  BY <1>1 DEF operation_o, Branches, LoadNames, unsign_extension_o, rs2_ca2_v_o, immediat_o,
              CsrImmediate, BEQ, BNE, BLT, BGE, JAL, JALR

LEMMA SharedNames ==
  /\ Machine!Branches = Branches /\ Machine!LoadNames = LoadNames
  /\ Machine!CsrImmediate = CsrImmediate /\ Machine!CsrNames = CsrNames
  /\ Machine!CsrFlops = CsrFlops
  /\ \A a, b : Machine!Plus(a, b) = (a + b) % WORD
BY SharedWords DEF Machine!Branches, Branches, Machine!LoadNames, LoadNames,
  Machine!CsrImmediate, CsrImmediate, Machine!CsrNames, CsrNames, Machine!CsrFlops, CsrFlops,
  Machine!Plus

LEMMA BranchUnit ==
  ASSUME NEW i, WellFormed(i)
  PROVE  /\ BU \in unit_o(i) <=> i.opc \in {"B", "JAL", "JALR"}
         /\ i.opc \in {"B", "JAL", "JALR"} <=> i.name \in Branches \union {"jal", "jalr"}
                                                 \/ (i.opc = "B" /\ i.name = "illegal")
<1>1. BU \in unit_o(i) <=> i.opc \in {"B", "JAL", "JALR"}
  BY DEF unit_o, ALU, SFT, BU, LSU
<1>2. i.opc \in {"B", "JAL", "JALR"} => i.name \in Branches \union {"jal", "jalr", "illegal"}
                                        /\ (i.name = "illegal" => i.opc = "B")
  BY DEF WellFormed, NamesOf
<1> QED
  BY <1>1, <1>2, NameTellsOpcode

\* Execute takes a branch when the sequential machine does, to the same target.
LEMMA BranchAgrees ==
  ASSUME Executing, NEW i, i = dec_instr_q
  PROVE  /\ branch_v <=> Machine!Taken(i)
         /\ bu_pc_res = IF Machine!Taken(i) THEN Machine!Target(i) ELSE 0
<1> DEFINE a == X1(i)
           b == X2(i)
           u == i.opc \in {"B", "JAL", "JALR"}
<1>1. WellFormed(i) /\ a \in Word /\ b \in Word /\ ArchPc = dec_pc_q
  BY InExecute, Operands
<1>2. bu_en <=> u
  BY <1>1, BranchUnit DEF bu_en, unit
<1>3. Machine!Taken(i) <=>
        \/ i.name \in {"jal", "jalr"}
        \/ i.name = "beq"  /\ a = b
        \/ i.name = "bne"  /\ a # b
        \/ i.name = "blt"  /\ Machine!Signed(a) < Machine!Signed(b)
        \/ i.name = "bge"  /\ Machine!Signed(a) >= Machine!Signed(b)
        \/ i.name = "bltu" /\ a < b
        \/ i.name = "bgeu" /\ a >= b
  BY DEF Machine!Taken, X1, X2
<1>4. Machine!Target(i) = IF i.name = "jalr" THEN (a + i.imm) % WORD ELSE (dec_pc_q + i.imm) % WORD
  BY <1>1, SharedNames DEF Machine!Target, Machine!Src1, X1
<1>5. ~u => ~Machine!Taken(i)
  BY <1>1, <1>3, NameTellsOpcode DEF Branches
<1>6. ASSUME u PROVE branch_v <=> Machine!Taken(i)
  <2>1. i.opc = "B" => dec_rs1_data_q = Extend(i, a)
                       /\ dec_rs2_data_q = IF rs2_ca2_v_o(i) THEN (-Extend(i, b)) % (2 * WORD)
                                                             ELSE Extend(i, b)
    BY Operands
  <2>2. i.name \in Branches <=> i.opc = "B" /\ i.name # "illegal"
    BY <1>1, <1>6, BranchUnit, NameTellsOpcode DEF Branches
  <2>3. branch_v <=> \/ i.name = "beq" /\ dec_rs1_data_q = dec_rs2_data_q
                     \/ i.name = "bne" /\ dec_rs1_data_q # dec_rs2_data_q
                     \/ /\ i.name \in {"blt", "bltu"}
                        /\ Borrow(addition_res(dec_rs1_data_q, dec_rs2_data_q))
                     \/ /\ i.name \in {"bge", "bgeu"}
                        /\ \/ ~Borrow(addition_res(dec_rs1_data_q, dec_rs2_data_q))
                           \/ i.name = "bgeu" /\ dec_rs1_data_q = dec_rs2_data_q
                     \/ i.name \in {"jal", "jalr"}
    BY <1>1, <1>2, <1>6, BranchOperations DEF branch_v, bu_branch_v, operation
  <2>4. CASE i.name \in {"jal", "jalr"}
    BY <1>3, <2>3, <2>4
  <2>5. CASE i.name \in {"beq", "bne"}
    <3>1. dec_rs1_data_q = Extend(i, a) /\ dec_rs2_data_q = Extend(i, b)
      BY <1>1, <1>6, <2>1, <2>2, <2>5, BranchOperations DEF Branches
    <3> QED
      BY <1>1, <1>3, <2>3, <2>5, <3>1, ExtendInjective
  <2>6. CASE i.name \in {"blt", "bltu", "bge", "bgeu"}
    <3>1. dec_rs1_data_q = Extend(i, a) /\ dec_rs2_data_q = (-Extend(i, b)) % (2 * WORD)
      BY <1>1, <1>6, <2>1, <2>2, <2>6, BranchOperations DEF Branches
    <3>2. Borrow(addition_res(dec_rs1_data_q, dec_rs2_data_q)) <=> Value(i, a) < Value(i, b)
      BY <1>1, <3>1, Compares
    <3>3. i.name = "bgeu" /\ dec_rs1_data_q = dec_rs2_data_q => Value(i, a) >= Value(i, b)
      BY <1>1, <1>6, <3>1, BranchOperations, ComplementIsZero
    <3>4. Value(i, a) = IF i.name \in {"bltu", "bgeu"} THEN a ELSE Machine!Signed(a)
      BY <1>1, <1>6, BranchOperations DEF Value
    <3>5. Value(i, b) = IF i.name \in {"bltu", "bgeu"} THEN b ELSE Machine!Signed(b)
      BY <1>1, <1>6, BranchOperations DEF Value
    <3>6. Value(i, a) \in Int /\ Value(i, b) \in Int
      BY <1>1, SharedWords, Widths DEF Value, Machine!Signed, Word
    <3>7. Value(i, a) >= Value(i, b) <=> ~(Value(i, a) < Value(i, b))
      BY <3>6
    <3> QED
      BY <1>3, <2>3, <2>6, <3>2, <3>3, <3>4, <3>5, <3>7
  <2>7. CASE i.name = "illegal"
    BY <1>3, <2>3, <2>7
  <2> QED
    BY <1>1, <1>6, <2>4, <2>5, <2>6, <2>7, BranchUnit DEF Branches
<1>7. branch_v <=> Machine!Taken(i)
  BY <1>2, <1>5, <1>6 DEF branch_v, bu_branch_v
<1>8. branch_v => bu_pc_res = Machine!Target(i)
  <2> SUFFICES ASSUME branch_v PROVE bu_pc_res = Machine!Target(i)
    OBVIOUS
  <2>1. u
    BY <1>5, <1>7
  <2>2. JALR \in operation <=> i.name = "jalr"
    BY <1>1, <2>1, BranchOperations DEF operation
  <2>3. i.name = "jalr" => Low(dec_rs1_data_q) = a
    BY <1>1, NameTellsOpcode, Operands, SignBitExtends
  <2>4. immediat_o(dec_instr_q) = i.imm
    BY <1>1, <2>1, BranchOperations
  <2> QED
    BY <1>4, <2>2, <2>3, <2>4 DEF bu_pc_res, bu_pc_nxt, branch_v
<1>9. ~branch_v => bu_pc_res = 0
  BY DEF bu_pc_res, bu_pc_nxt, branch_v
<1> QED
  BY <1>7, <1>8, <1>9

(***************************************************************************)
(* Memory accesses.                                                        *)
(***************************************************************************)
LEMMA AccessAgrees ==
  ASSUME Executing, NEW i, i = dec_instr_q
  PROVE  /\ access_size_o(i) = Machine!Width(i)
         /\ lsu_en <=> i.name \in LoadNames \/ i.opc = "S"
         /\ is_store <=> i.opc = "S"
         /\ lsu_en => mem_adr = Machine!DataAdr(i)
         /\ adr_missaligned <=> Machine!MissalignedData(i)
<1>1. WellFormed(i) /\ i.imm \in Word /\ X1(i) \in Word /\ ~flush_v
  BY InExecute, Operands DEF Executing
<1>2. access_size_o(i) = Machine!Width(i)
  BY DEF access_size_o, Machine!Width
<1>3. lsu_en <=> i.name \in LoadNames \/ i.opc = "S"
  BY <1>1 DEF lsu_en, unit, unit_o, ALU, SFT, BU, LSU
<1>4. ST \in operation <=> i.opc = "S" \/ i.name \in {"add", "sub", "addi", "sll", "slli", "lui",
                                                      "auipc", "beq"}
  BY DEF operation, operation_o, LoadNames, ST
<1>5. is_store <=> i.opc = "S"
  BY <1>3, <1>4 DEF is_store, LoadNames
<1>6. lsu_en => i.opc \in {"L", "S"}
  BY <1>1, <1>3, NameTellsOpcode
<1>7. lsu_en => mem_adr = Machine!DataAdr(i)
  <2>1. lsu_en => Low(dec_rs1_data_q) = X1(i)
    BY <1>1, <1>6, Operands, SignBitExtends
  <2>2. lsu_en => immediat_o(i) = i.imm
    BY <1>1, <1>6, OneSource, NameTellsOpcode DEF immediat_o, CsrImmediate, CsrNames
  <2>3. Machine!DataAdr(i) = (X1(i) + i.imm) % WORD
    BY SharedNames DEF Machine!DataAdr, X1
  <2> QED
    BY <2>1, <2>2, <2>3 DEF mem_adr, lsu_adr
<1>8. adr_missaligned <=> Machine!MissalignedData(i)
  <2>1. CASE lsu_en
    <3>1. mem_adr \in Nat /\ Machine!Width(i) \in {0, 1, 2, 4} /\ mem_adr = Machine!DataAdr(i)
      BY <1>7, <2>1, ExeTypes, WordIsExtended DEF Executing, Machine!Width
    <3>2. mem_adr % 1 = 0
      BY <3>1
    <3> QED
      BY <1>2, <3>1, <3>2
      DEF adr_missaligned, lsu_adr_missaligned_o, Machine!MissalignedData
  <2>2. CASE ~lsu_en
    <3>1. i.name \notin LoadNames \union {"sw", "sh", "sb"}
      BY <1>1, <1>3, <2>2, NameTellsOpcode
    <3>2. Machine!Width(i) = 0
      BY <3>1 DEF Machine!Width, LoadNames
    <3> QED
      BY <2>2, <3>2, IdleUnits DEF Machine!MissalignedData
  <2> QED
    BY <2>1, <2>2
<1> QED
  BY <1>2, <1>3, <1>5, <1>7, <1>8

(***************************************************************************)
(* Traps.                                                                  *)
(***************************************************************************)
LEMMA TrapAgrees ==
  ASSUME Executing, NEW i, i = dec_instr_q
  PROVE  /\ pc_missaligned <=> Machine!MissalignedTarget(i)
         /\ dec_illegal_inst_q <=> i.name = "illegal"
         /\ exception_nxt <=> Machine!Traps(i)
<1>1. ~flush_v /\ (dec_illegal_inst_q <=> i.name = "illegal")
  BY InExecute DEF Executing, illegal_inst_o
<1>2. pc_missaligned <=> Machine!MissalignedTarget(i)
  <2>1. 0 % 4 = 0
    OBVIOUS
  <2> QED
    BY <2>1, BranchAgrees DEF pc_missaligned, bu_pc_missaligned_o, Machine!MissalignedTarget
<1>3. ld_adr_missaligned \/ st_adr_missaligned <=> Machine!MissalignedData(i)
  BY AccessAgrees DEF ld_adr_missaligned, st_adr_missaligned
<1> QED
  BY <1>1, <1>2, <1>3 DEF exception_nxt, Machine!Traps, ebreak_o, ecall_o

\* The one reason of a trap selects its cause and its value (the AND-OR
\* multiplexers of exe.sv).
LEMMA CauseAgrees ==
  ASSUME Executing, exception_nxt, NEW i, i = dec_instr_q
  PROVE  cause_nxt = Machine!Cause(i) /\ mtval_nxt = Machine!TrapVal(i)
<1> DEFINE pcm == Machine!MissalignedTarget(i)
           mda == Machine!MissalignedData(i)
<1>1. /\ pc_missaligned <=> pcm
      /\ dec_illegal_inst_q <=> i.name = "illegal"
      /\ adr_missaligned <=> mda
      /\ ld_adr_missaligned <=> mda /\ i.opc # "S"
      /\ st_adr_missaligned <=> mda /\ i.opc = "S"
  BY TrapAgrees, AccessAgrees DEF ld_adr_missaligned, st_adr_missaligned
<1>2. WellFormed(i) /\ ArchPc = dec_pc_q /\ dec_pc_q \in Word
  BY InExecute
<1>3. mda => i.opc \in {"L", "S"} /\ i.name \in LoadNames \union {"sw", "sh", "sb"}
  <2>1. mda => Machine!Width(i) # 0
    BY DEF Machine!MissalignedData
  <2>2. Machine!Width(i) # 0 => i.name \in LoadNames \union {"sw", "sh", "sb"}
    BY DEF Machine!Width, LoadNames
  <2> QED
    BY <1>2, <2>1, <2>2, NameTellsOpcode
<1>4. pcm => i.name \notin {"illegal", "ebreak", "ecall"} /\ ~mda
  <2>1. pcm => bu_en /\ i.name # "illegal"
    BY <1>1, ReasonTellsName DEF Executing
  <2>2. pcm => i.opc \in {"B", "JAL", "JALR"}
    BY <1>2, <2>1, BranchUnit DEF bu_en, unit
  <2> QED
    BY <1>2, <1>3, <2>1, <2>2, NameTellsOpcode
<1>5. mda => i.name \notin {"illegal", "ebreak", "ecall"}
  BY <1>3 DEF LoadNames
<1>6. bu_pc_res = (IF pcm THEN Machine!Target(i) ELSE bu_pc_res) /\ bu_pc_res \in Word
  BY BranchAgrees, ExeTypes DEF Executing, Machine!MissalignedTarget
<1>7. mda => mem_adr = Machine!DataAdr(i)
  BY <1>1, IdleUnits, AccessAgrees
<1>8. mem_adr \in Word /\ dec_pc_q \in Word
  BY <1>2, ExeTypes DEF Executing
<1>9. 0 \in Word /\ 2 \in Word /\ 3 \in Word /\ 4 \in Word /\ 6 \in Word /\ 11 \in Word
  <2>1. XLEN = 4 => WORD = 16
    BY XlenAssumption
  <2>2. XLEN = 8 => WORD = 256
    BY XlenAssumption
  <2>3. XLEN = 16 => WORD = 65536
    BY XlenAssumption
  <2>4. XLEN = 32 => WORD = 4294967296
    BY XlenAssumption
  <2> QED
    BY <2>1, <2>2, <2>3, <2>4, XlenAssumption DEF Word
<1>10. /\ ebreak_o(i) <=> i.name = "ebreak"
       /\ ecall_o(i) <=> i.name = "ecall"
  BY DEF ebreak_o, ecall_o
<1>11. pcm \/ mda \/ i.name \in {"illegal", "ebreak", "ecall"}
  BY TrapAgrees DEF Machine!Traps
<1> HIDE DEF pcm, mda
<1>12. cause_nxt = CASE pcm -> 0
                     [] i.name = "illegal" -> 2
                     [] i.name = "ebreak" -> 3
                     [] mda -> IF i.opc = "L" THEN 4 ELSE 6
                     [] i.name = "ecall" -> 11
  <2>1. CASE pcm
    BY <1>1, <1>4, <1>9, <1>10, <2>1, OneTerm
    DEF cause_nxt, Mask, illegal_inst_nxt, breakpoint_nxt, ld_adr_missaligned_nxt,
        st_adr_missaligned_nxt, env_call_m_mode_nxt
  <2>2. CASE mda
    BY <1>1, <1>3, <1>4, <1>5, <1>9, <1>10, <2>2, OneTerm
    DEF cause_nxt, Mask, illegal_inst_nxt, breakpoint_nxt, ld_adr_missaligned_nxt,
        st_adr_missaligned_nxt, env_call_m_mode_nxt
  <2>3. CASE i.name \in {"illegal", "ebreak", "ecall"}
    BY <1>1, <1>4, <1>5, <1>9, <1>10, <2>3, OneTerm
    DEF cause_nxt, Mask, illegal_inst_nxt, breakpoint_nxt, ld_adr_missaligned_nxt,
        st_adr_missaligned_nxt, env_call_m_mode_nxt
  <2> QED
    BY <1>11, <2>1, <2>2, <2>3
<1>13. mtval_nxt = CASE pcm -> Machine!Target(i)
                     [] i.name = "ebreak" -> dec_pc_q
                     [] mda -> Machine!DataAdr(i)
                     [] OTHER -> 0
  <2>1. mtval_nxt = Or3(Mask(pcm, bu_pc_res), Mask(i.name = "ebreak", dec_pc_q), Mask(mda, mem_adr))
    BY <1>1, <1>4, <1>10 DEF mtval_nxt, breakpoint_nxt, illegal_inst_nxt, Mask
  <2>2. CASE pcm
    BY <1>4, <1>6, <1>8, <2>1, <2>2, OneTerm DEF Mask
  <2>3. CASE mda
    BY <1>4, <1>5, <1>6, <1>7, <1>8, <2>1, <2>3, OneTerm DEF Mask
  <2>4. CASE i.name \in {"illegal", "ebreak", "ecall"}
    BY <1>4, <1>5, <1>6, <1>8, <1>9, <2>1, <2>4, OneTerm DEF Mask
  <2> QED
    BY <1>11, <2>2, <2>3, <2>4
<1> QED
  BY <1>2, <1>12, <1>13 DEF Machine!Cause, Machine!TrapVal, pcm, mda

\* A trap does what the sequential machine does: it saves the pc, the cause and
\* the value, jumps to the vector and leaves the registers and the memory.
LEMMA TrapCommits ==
  ASSUME Executing, Posedge, ~LateVector, exception_nxt
  PROVE  Machine!Trap(dec_instr_q)
<1> DEFINE i == dec_instr_q
<1>1. WellFormed(i) /\ ArchPc = dec_pc_q /\ ram \in [Line -> Word] /\ ~flush_v
  BY InExecute DEF Executing
<1>2. Machine!Traps(i)
  BY TrapAgrees
<1>3. cause_nxt = Machine!Cause(i) /\ mtval_nxt = Machine!TrapVal(i)
  BY CauseAgrees
<1>4. csr_data_nxt = 0 /\ ~csr_wbk_v_nxt
  BY TrapsDriveNothing DEF Executing
<1>5. /\ exception_q' /\ ~wbk_v_q' /\ ~csr_wbk_v_q' /\ csr_data_q' = 0
      /\ ~branch_v_q' /\ pc_data_q' = pc_data_nxt /\ core_mode_q' = 3
      /\ cause_q' = cause_nxt /\ mtval_q' = mtval_nxt /\ mepc_q' = dec_pc_q
      /\ reset_n' /\ if_reset_n_q'
      /\ rf' = rf_nxt /\ csr' = csr_nxt /\ ram' = ram_nxt
  BY <1>4 DEF Posedge, ExeEdge, BanksEdge, IfetchEdge, wbk_v_nxt, branch_v_nxt, core_mode_nxt
<1>6. ArchPc' = csr_nxt["mtvec"]
  <2>1. i.name # "mret"
    <3>1. i.name = "mret" => ~Machine!Traps(i)
      BY DEF Machine!Traps, Machine!MissalignedTarget, Machine!MissalignedData, Machine!Taken,
             Machine!Width
    <3> QED
      BY <1>2, <3>1
  <2>2. csr["mtvec"] = csr_nxt["mtvec"] /\ csr["mtvec"] \in Word
    BY DEF LateVector, Executing, TypeOK, StoreTypeOK, CsrFlops
  <2>3. pc_data_nxt = csr["mtvec"]
    BY <2>1, <2>2, OneTerm DEF pc_data_nxt, Mask, mret_o
  <2> QED
    BY <1>5, <2>2, <2>3 DEF ArchPc
<1>7. rf_nxt' = rf_nxt /\ ram' = ram
  BY <1>5 DEF rf_nxt, ram_nxt, adr_v_o
<1>8. csr_nxt' = [csr_nxt EXCEPT !["mepc"] = dec_pc_q, !["mcause"] = cause_nxt,
                                 !["mtval"] = mtval_nxt, !["mstatus"] = MSTATUS_M]
  <2>1. csr_nxt' = [c \in CsrFlops |->
                      IF c = "mstatus" THEN MSTATUS_M
                      ELSE IF c \in {"mepc", "mcause", "mtval"} THEN BitOr(0, TrapValue'[c])
                      ELSE csr_nxt[c]]
    BY <1>5 DEF csr_nxt, csr_write_v, TrapValue
  <2>2. /\ TrapValue'["mepc"] = dec_pc_q /\ TrapValue'["mcause"] = cause_nxt
        /\ TrapValue'["mtval"] = mtval_nxt
    BY <1>5 DEF TrapValue
  <2>3. dec_pc_q \in Word /\ cause_nxt \in Word /\ mtval_nxt \in Word
    BY InExecute, TrapTypes DEF Executing
  <2>4. /\ BitOr(0, TrapValue'["mepc"]) = dec_pc_q
        /\ BitOr(0, TrapValue'["mcause"]) = cause_nxt
        /\ BitOr(0, TrapValue'["mtval"]) = mtval_nxt
    BY <2>2, <2>3, GateTypes
  <2>5. csr_nxt \in [CsrFlops -> Word]
    BY BanksTypes DEF Executing
  <2> QED
    BY <2>1, <2>4, <2>5 DEF CsrFlops
<1> QED
  BY <1>1, <1>2, <1>3, <1>5, <1>6, <1>7, <1>8 DEF Machine!Trap

(***************************************************************************)
(* Results of the arithmetic unit and of the shifter.                      *)
(***************************************************************************)

\* The lines of the result table of the sequential machine.
LEMMA ResultOf ==
  ASSUME NEW i
  PROVE  LET a == Machine!Src1(i)
             b == Machine!Src2(i)
             r == Machine!Result(i)
         IN  /\ i.name \in {"add", "addi"} => r = (a + b) % WORD
             /\ i.name = "sub" => r = (a - b) % WORD
             /\ i.name \in {"slt", "slti"}
                  => r = IF Machine!Signed(a) < Machine!Signed(b) THEN 1 ELSE 0
             /\ i.name \in {"sltu", "sltiu"} => r = IF a < b THEN 1 ELSE 0
             /\ i.name \in {"and", "andi"} => r = BitAnd(a, b)
             /\ i.name \in {"or", "ori"} => r = BitOr(a, b)
             /\ i.name \in {"xor", "xori"} => r = BitXor(a, b)
             /\ i.name \in {"sll", "slli"} => r = (a * Power(b % XLEN)) % WORD
             /\ i.name \in {"srl", "srli"} => r = a \div Power(b % XLEN)
             /\ i.name \in {"sra", "srai"} => r = (Machine!Signed(a) \div Power(b % XLEN)) % WORD
             /\ i.name = "lui" => r = i.imm
             /\ i.name = "auipc" => r = (ArchPc + i.imm) % WORD
             /\ i.name \in {"jal", "jalr"} => r = (ArchPc + 4) % WORD
             /\ i.name \in LoadNames => r = Machine!LoadValue(i)
             /\ i.name \in CsrNames \union {"mret"} => r = Machine!CsrRead(i)
             /\ i.name \in {"mul", "mulh", "mulhsu", "mulhu", "div", "divu", "rem", "remu",
                            "ld", "fence", "sret", "nop"} => r = 0
<1> USE SharedWords, SharedNames DEF Machine!Result, LoadNames, CsrNames, CsrImmediate
<1>1. /\ i.name \in {"add", "addi"}
           => Machine!Result(i) = (Machine!Src1(i) + Machine!Src2(i)) % WORD
      /\ i.name = "sub" => Machine!Result(i) = (Machine!Src1(i) - Machine!Src2(i)) % WORD
  OBVIOUS
<1>2. /\ i.name \in {"slt", "slti"}
           => Machine!Result(i)
                = IF Machine!Signed(Machine!Src1(i)) < Machine!Signed(Machine!Src2(i)) THEN 1 ELSE 0
      /\ i.name \in {"sltu", "sltiu"}
           => Machine!Result(i) = IF Machine!Src1(i) < Machine!Src2(i) THEN 1 ELSE 0
  BY DEF Machine!Bool
<1>3. /\ i.name \in {"and", "andi"}
           => Machine!Result(i) = BitAnd(Machine!Src1(i), Machine!Src2(i))
      /\ i.name \in {"or", "ori"}
           => Machine!Result(i) = BitOr(Machine!Src1(i), Machine!Src2(i))
      /\ i.name \in {"xor", "xori"}
           => Machine!Result(i) = BitXor(Machine!Src1(i), Machine!Src2(i))
  OBVIOUS
<1>4. \A b : Machine!Scale(b) = Power(b % XLEN)
  BY DEF Machine!Scale, Power
<1>5. /\ i.name \in {"sll", "slli"}
           => Machine!Result(i) = (Machine!Src1(i) * Power(Machine!Src2(i) % XLEN)) % WORD
      /\ i.name \in {"srl", "srli"}
           => Machine!Result(i) = Machine!Src1(i) \div Power(Machine!Src2(i) % XLEN)
      /\ i.name \in {"sra", "srai"}
           => Machine!Result(i)
                = (Machine!Signed(Machine!Src1(i)) \div Power(Machine!Src2(i) % XLEN)) % WORD
  BY <1>4
<1>6. /\ i.name = "lui" => Machine!Result(i) = i.imm
      /\ i.name = "auipc" => Machine!Result(i) = (ArchPc + i.imm) % WORD
      /\ i.name \in {"jal", "jalr"} => Machine!Result(i) = (ArchPc + 4) % WORD
  OBVIOUS
<1>7. /\ i.name \in LoadNames => Machine!Result(i) = Machine!LoadValue(i)
      /\ i.name \in CsrNames \union {"mret"} => Machine!Result(i) = Machine!CsrRead(i)
  OBVIOUS
<1>8. i.name \in {"mul", "mulh", "mulhsu", "mulhu", "div", "divu", "rem", "remu",
                  "ld", "fence", "sret", "nop"} => Machine!Result(i) = 0
  OBVIOUS
<1> QED
  BY <1>1, <1>2, <1>3, <1>5, <1>6, <1>7, <1>8

\* What the arithmetic unit and the shifter are asked, by name.
LEMMA AluOperations ==
  ASSUME NEW i, WellFormed(i), i.opc \in {"R", "I", "U", "AUIPC"}
  PROVE  /\ ADD \in operation_o(i) <=> i.name \in {"add", "sub", "addi", "sll", "slli", "lui",
                                                   "auipc"}
         /\ AND \in operation_o(i) <=> i.name \in {"and", "andi", "srl", "srli"}
         /\ OR  \in operation_o(i) <=> i.name \in {"or", "ori", "sra", "srai"}
         /\ XOR \in operation_o(i) <=> i.name \in {"xor", "xori"}
         /\ SLT \in operation_o(i) <=> i.name \in {"slt", "sltu", "slti", "sltiu"}
         /\ ALU \in unit_o(i) <=> i.name \notin Shifts
         /\ SFT \in unit_o(i) <=> i.name \in Shifts
         /\ LSU \notin unit_o(i) /\ BU \notin unit_o(i)
         /\ unsign_extension_o(i) <=> i.name \in {"sltu", "sltiu"}
         /\ rs2_ca2_v_o(i) <=> i.name \in {"sub", "slt", "sltu", "slti", "sltiu"}
<1>1. i.name \in {"add", "sub", "sll", "slt", "sltu", "xor", "srl", "sra", "or", "and", "mul",
                  "mulh", "mulhsu", "mulhu", "div", "divu", "rem", "remu", "illegal", "addi",
                  "slti", "sltiu", "xori", "ori", "andi", "slli", "srli", "srai", "lui", "auipc"}
  BY DEF WellFormed, NamesOf
<1>2. i.name \in Shifts => i.opc \in {"R", "I"}
  BY NameTellsOpcode DEF Shifts
<1>3. /\ ADD \in operation_o(i) <=> i.name \in {"add", "sub", "addi", "sll", "slli", "lui", "auipc"}
      /\ AND \in operation_o(i) <=> i.name \in {"and", "andi", "srl", "srli"}
      /\ OR  \in operation_o(i) <=> i.name \in {"or", "ori", "sra", "srai"}
  BY <1>1 DEF operation_o, LoadNames, ADD, AND, OR
<1>4. /\ XOR \in operation_o(i) <=> i.name \in {"xor", "xori"}
      /\ SLT \in operation_o(i) <=> i.name \in {"slt", "sltu", "slti", "sltiu"}
  BY <1>1 DEF operation_o, LoadNames, XOR, SLT
<1>5. i.name \notin CsrNames \union LoadNames
  BY <1>1 DEF CsrNames, CsrImmediate, LoadNames
<1>6. /\ ALU \in unit_o(i) <=> i.name \notin Shifts
      /\ SFT \in unit_o(i) <=> i.name \in Shifts
      /\ LSU \notin unit_o(i) /\ BU \notin unit_o(i)
  BY <1>2, <1>5 DEF unit_o, ALU, SFT, BU, LSU
<1>7. /\ unsign_extension_o(i) <=> i.name \in {"sltu", "sltiu"}
      /\ rs2_ca2_v_o(i) <=> i.name \in {"sub", "slt", "sltu", "slti", "sltiu"}
  BY <1>1 DEF unsign_extension_o, rs2_ca2_v_o
<1> QED
  BY <1>3, <1>4, <1>6, <1>7

\* Every computation has the result of the sequential machine.
LEMMA AluAgrees ==
  ASSUME Executing, NEW i, i = dec_instr_q, i.opc \in {"R", "I", "U", "AUIPC"},
         i.name \notin Shifts, i.name # "illegal"
  PROVE  alu_res_data = Machine!Result(i)
<1> DEFINE a == dec_rs1_data_q
           b == dec_rs2_data_q
           w == Machine!Src2(i)
<1>1. WellFormed(i) /\ X1(i) \in Word /\ w \in Word /\ i.imm \in Word
      /\ a \in Extended /\ b \in Extended /\ dec_pc_q \in Word /\ ArchPc = dec_pc_q
  BY InExecute, Operands
<1>2. Machine!Src1(i) = X1(i)
  BY DEF Machine!Src1, X1
<1>3. alu_en /\ operation = operation_o(i)
  BY <1>1, AluOperations DEF alu_en, unit, operation
<1>4. alu_res_data = CASE i.name \in {"add", "sub", "addi", "lui", "auipc"} -> Low(addition_res(a, b))
                       [] i.name \in {"slt", "sltu", "slti", "sltiu"} ->
                            IF Borrow(addition_res(a, b)) THEN 1 ELSE 0
                       [] i.name \in {"and", "andi"} -> BitAnd(Low(a), Low(b))
                       [] i.name \in {"or", "ori"} -> BitOr(Low(a), Low(b))
                       [] i.name \in {"xor", "xori"} -> BitXor(Low(a), Low(b))
                       [] OTHER -> 0
  BY <1>1, <1>3, AluOperations DEF alu_res_data, alu_data_o, Shifts
<1>5. b = IF rs2_ca2_v_o(i) THEN (-Extend(i, w)) % (2 * WORD) ELSE Extend(i, w)
  BY Operands
<1>6. /\ i.opc \in {"R", "I"} => a = Extend(i, X1(i))
      /\ i.name = "lui" => a = Extend(i, 0)
      /\ i.name = "auipc" => a = Extend(i, dec_pc_q)
  BY Operands
<1>7. /\ i.name = "lui" => i.opc = "U"
      /\ i.name = "auipc" => i.opc = "AUIPC"
      /\ i.opc = "U" => i.name = "lui"
      /\ i.opc = "AUIPC" => i.name = "auipc"
  BY <1>1, NameTellsOpcode DEF WellFormed, NamesOf
<1>8. w = IF i.opc = "R" THEN X2(i) ELSE i.imm
  BY DEF Machine!Src2, X2
<1> HIDE DEF a, b, w
<1>9. CASE i.name \in {"add", "addi", "and", "andi", "or", "ori", "xor", "xori"}
  <2>1. i.opc \in {"R", "I"} /\ ~rs2_ca2_v_o(i)
    BY <1>1, <1>9, NameTellsOpcode, AluOperations
  <2>2. Low(a) = X1(i) /\ Low(b) = w
    BY <1>1, <1>5, <1>6, <2>1, SignBitExtends
  <2>3. Low(addition_res(a, b)) = (X1(i) + w) % WORD
    BY <1>1, <2>2, AdderSum
  <2> QED
    BY <1>2, <1>4, <1>9, <2>2, <2>3, ResultOf DEF w
<1>10. CASE i.name \in {"lui", "auipc"}
  <2>1. ~rs2_ca2_v_o(i) /\ i.opc # "R" /\ 0 \in Word
    BY <1>1, <1>7, <1>10, AluOperations, WordIsExtended
  <2>2. Low(b) = i.imm /\ Low(a) = IF i.name = "lui" THEN 0 ELSE dec_pc_q
    BY <1>1, <1>5, <1>6, <1>8, <1>10, <2>1, SignBitExtends
  <2>3. Low(addition_res(a, b)) = (Low(a) + i.imm) % WORD
    BY <1>1, <2>2, AdderSum
  <2>4. (0 + i.imm) % WORD = i.imm
    BY <1>1, Widths DEF Word
  <2> QED
    BY <1>1, <1>4, <1>10, <2>2, <2>3, <2>4, ResultOf
<1>11. CASE i.name \in {"sub", "slt", "slti", "sltu", "sltiu"}
  <2>1. i.opc \in {"R", "I"} /\ rs2_ca2_v_o(i) /\ (unsign_extension_o(i) <=> i.name \in {"sltu", "sltiu"})
    BY <1>1, <1>11, NameTellsOpcode, AluOperations
  <2>2. a = Extend(i, X1(i)) /\ b = (-Extend(i, w)) % (2 * WORD)
    BY <1>5, <1>6, <2>1
  <2>3. /\ Borrow(addition_res(a, b)) <=> Value(i, X1(i)) < Value(i, w)
        /\ Low(addition_res(a, b)) = (X1(i) - w) % WORD
    BY <1>1, <2>2, Compares
  <2>4. /\ Value(i, X1(i)) = IF i.name \in {"sltu", "sltiu"} THEN X1(i) ELSE Machine!Signed(X1(i))
        /\ Value(i, w) = IF i.name \in {"sltu", "sltiu"} THEN w ELSE Machine!Signed(w)
    BY <2>1 DEF Value
  <2> QED
    BY <1>2, <1>4, <1>11, <2>3, <2>4, ResultOf DEF w
<1>12. CASE i.name \in {"mul", "mulh", "mulhsu", "mulhu", "div", "divu", "rem", "remu"}
  BY <1>4, <1>12, ResultOf
<1>13. i.name \in {"add", "sub", "slt", "sltu", "xor", "or", "and", "mul", "mulh", "mulhsu",
                   "mulhu", "div", "divu", "rem", "remu", "addi", "slti", "sltiu", "xori", "ori",
                   "andi", "lui", "auipc"}
  BY <1>1 DEF WellFormed, NamesOf, Shifts
<1> QED
  BY <1>9, <1>10, <1>11, <1>12, <1>13

LEMMA ShifterAgrees ==
  ASSUME Executing, NEW i, i = dec_instr_q, i.name \in Shifts
  PROVE  shifter_res_data = Machine!Result(i)
<1> DEFINE a == X1(i)
           b == Machine!Src2(i)
<1>1. WellFormed(i) /\ a \in Word /\ b \in Word
  BY InExecute, Operands
<1>2. i.opc \in {"R", "I"}
  BY <1>1, NameTellsOpcode DEF Shifts
<1>3. Machine!Src1(i) = a
  BY DEF Machine!Src1, X1
<1>4. Low(dec_rs1_data_q) = a /\ Low(dec_rs2_data_q) = b
  <2>1. ~rs2_ca2_v_o(i)
    BY DEF rs2_ca2_v_o, Shifts
  <2> QED
    BY <1>1, <1>2, <2>1, Operands, SignBitExtends
<1>5. shifter_en /\ operation = operation_o(i)
  BY <1>1, <1>2, AluOperations DEF shifter_en, unit, operation
<1>6. /\ SLL \in operation <=> i.name \in {"sll", "slli"}
      /\ SRL \in operation <=> i.name \in {"srl", "srli"}
      /\ SRA \in operation <=> i.name \in {"sra", "srai"}
  BY <1>1, <1>2, <1>5, AluOperations DEF SLL, SRL, SRA, ADD, AND, OR, Shifts
<1> DEFINE s == Msb(a) /\ i.name \in {"sra", "srai"}
<1>7. shifter_res_data = IF i.name \in {"sll", "slli"} THEN l_shift1(a, b, s) ELSE r_shift1(a, b, s)
  BY <1>4, <1>5, <1>6 DEF shifter_res_data, shifter_data_o, Shifts
<1>8. a \in Nat /\ a < WORD /\ WORD \in Nat /\ a % WORD = a
  BY <1>1, Widths DEF Word
<1>9. CASE i.name \in {"sll", "slli"}
  <2>1. s = FALSE
    BY <1>9
  <2> QED
    BY <1>1, <1>3, <1>7, <1>9, <2>1, LeftShift, ResultOf
<1>10. CASE i.name \in {"srl", "srli"}
  <2>1. s = FALSE /\ (a < 0) = FALSE
    BY <1>8, <1>10
  <2>2. r_shift1(a % WORD, b, a < 0) = (a \div Power(b % XLEN)) % WORD
    BY <1>1, <1>8, RightShift
  <2>3. (a \div Power(b % XLEN)) % WORD = a \div Power(b % XLEN)
    <3>1. Power(b % XLEN) \in Nat \ {0}
      BY <1>1, AmountType
    <3> QED
      BY <1>8, <3>1
  <2> QED
    BY <1>3, <1>7, <1>8, <1>10, <2>1, <2>2, <2>3, ResultOf
<1>11. CASE i.name \in {"sra", "srai"}
  <2> DEFINE v == Machine!Signed(a)
  <2>1. v = IF Msb(a) THEN a - WORD ELSE a
    BY SharedWords DEF Machine!Signed
  <2>2. v \in Int /\ -WORD <= v /\ v < WORD /\ (v < 0 <=> Msb(a))
    BY <1>8, <2>1 DEF Msb
  <2>3. v % WORD = a
    <3>1. a - WORD = a + (-1) * WORD
      BY <1>8
    <3>2. (a + (-1) * WORD) % WORD = a % WORD
      BY <1>8
    <3> QED
      BY <1>8, <2>1, <3>1, <3>2
  <2> HIDE DEF v
  <2>4. (v < 0) = s
    BY <1>11, <2>2 DEF Msb
  <2>5. r_shift1(v % WORD, b, v < 0) = (v \div Power(b % XLEN)) % WORD
    BY <1>1, <2>2, RightShift
  <2> QED
    BY <1>3, <1>7, <1>11, <2>3, <2>4, <2>5, ResultOf DEF v
<1> QED
  BY <1>9, <1>10, <1>11 DEF Shifts

(***************************************************************************)
(* Csr instructions.                                                       *)
(***************************************************************************)
LEMMA CsrOperands ==
  ASSUME Executing, NEW i, i = dec_instr_q, i.name \in CsrNames \union {"mret"}
  PROVE  /\ i.opc = "P" /\ i.name # "illegal"
         /\ wbk_csr_adr_o(i) = Machine!CsrName(i)
         /\ csr_wbk_o(i) <=> Machine!CsrWritten(i)
         /\ Machine!CsrRead(i) \in Word /\ Low(dec_rs2_data_q) = Machine!CsrRead(i)
         /\ i.name \in CsrNames =>
              /\ Machine!CsrSrc(i) \in Word
              /\ Low(dec_rs1_data_q) = IF csr_clear_o(i) THEN WORD - 1 - Machine!CsrSrc(i)
                                                         ELSE Machine!CsrSrc(i)
         /\ unit_o(i) = IF i.name = "mret" THEN {} ELSE {ALU}
         /\ OR \in operation_o(i) <=> i.name \in {"csrrs", "csrrsi"}
         /\ AND \in operation_o(i) <=> i.name \in {"csrrc", "csrrci"}
         /\ ADD \notin operation_o(i) /\ SLT \notin operation_o(i) /\ XOR \notin operation_o(i)
<1>1. /\ WellFormed(i) /\ i.rs1 \in Regs /\ i.rs1 \in Word
      /\ rf_nxt \in [Regs -> Word] /\ rf_nxt[0] = 0 /\ csr_nxt \in [CsrFlops -> Word]
  BY InExecute, RegsAssumption DEF WellFormed
<1>2. i.opc = "P" /\ i.name # "illegal"
  BY <1>1, NameTellsOpcode DEF CsrNames, CsrImmediate
<1>3. wbk_csr_adr_o(i) = Machine!CsrName(i)
  BY DEF wbk_csr_adr_o, Machine!CsrName
<1>4. csr_wbk_o(i) <=> Machine!CsrWritten(i)
  BY DEF csr_wbk_o, Machine!CsrWritten, immediat_o, CsrImmediate, CsrNames
<1>5. ArchSource2(i) = Machine!CsrRead(i) /\ Machine!CsrRead(i) \in Word
  <2>1. Machine!CsrRead(i) = IF wbk_csr_adr_o(i) \in CsrFlops
                             THEN csr_nxt[wbk_csr_adr_o(i)] ELSE 0
    BY <1>3, SharedNames DEF Machine!CsrRead
  <2>2. rs2_is_csr_o(i) /\ ~rs2_is_immediat_o(i) /\ ~rs2_v_o(i)
    BY <1>1, OneSource DEF rs2_is_csr_o
  <2>3. ArchSource2(i) = Machine!CsrRead(i)
    BY <2>1, <2>2 DEF ArchSource2
  <2> QED
    BY <1>1, <2>1, <2>3, WordIsExtended
<1>6. /\ IF csr_clear_o(i) THEN Low(dec_rs1_data_q) = WORD - 1 - ArchSource1(i)
                           ELSE dec_rs1_data_q = Extend(i, ArchSource1(i))
      /\ dec_rs2_data_q = IF rs2_ca2_v_o(i) THEN (-Extend(i, ArchSource2(i))) % (2 * WORD)
                                            ELSE Extend(i, ArchSource2(i))
  BY DEF Executing, OperandsArchitectural
<1>7. ~rs2_ca2_v_o(i)
  BY DEF rs2_ca2_v_o, CsrNames, CsrImmediate
<1>8. Low(dec_rs2_data_q) = Machine!CsrRead(i)
  BY <1>5, <1>6, <1>7, SignBitExtends
<1>9. i.name \in CsrNames => ArchSource1(i) = Machine!CsrSrc(i) /\ Machine!CsrSrc(i) \in Word
  <2>1. Machine!CsrSrc(i) = IF i.name \in CsrImmediate THEN i.rs1 ELSE rf_nxt[i.rs1]
    BY SharedNames DEF Machine!CsrSrc
  <2>2. CASE i.name \in CsrImmediate
    <3>1. rs1_is_immediat_o(i) /\ ~auipc_o(i) /\ ~rs1_v_o(i)
      BY <1>1, <2>2, OneSource DEF rs1_is_immediat_o
    <3> QED
      BY <1>1, <2>1, <2>2, <3>1 DEF ArchSource1
  <2>3. CASE i.name \in {"csrrw", "csrrs", "csrrc"}
    <3>1. ~rs1_is_immediat_o(i) /\ ~auipc_o(i) /\ (rs1_v_o(i) <=> i.rs1 # 0)
      BY <2>3 DEF rs1_is_immediat_o, auipc_o, rs1_v_o, CsrImmediate
    <3>2. i.name \notin CsrImmediate
      BY <2>3 DEF CsrImmediate
    <3> QED
      BY <1>1, <2>1, <3>1, <3>2 DEF ArchSource1
  <2> QED
    BY <2>2, <2>3 DEF CsrNames
<1>10. i.name \in CsrNames =>
         Low(dec_rs1_data_q) = IF csr_clear_o(i) THEN WORD - 1 - Machine!CsrSrc(i)
                                                 ELSE Machine!CsrSrc(i)
  BY <1>6, <1>9, SignBitExtends
<1>11. unit_o(i) = IF i.name = "mret" THEN {} ELSE {ALU}
  BY <1>2 DEF unit_o, CsrNames, CsrImmediate, LoadNames, ALU, SFT, BU, LSU
<1>12. /\ OR \in operation_o(i) <=> i.name \in {"csrrs", "csrrsi"}
       /\ AND \in operation_o(i) <=> i.name \in {"csrrc", "csrrci"}
  BY <1>2 DEF operation_o, OR, AND, CsrNames, CsrImmediate, LoadNames
<1>13. ADD \notin operation_o(i) /\ SLT \notin operation_o(i) /\ XOR \notin operation_o(i)
  BY <1>2 DEF operation_o, ADD, SLT, XOR, CsrNames, CsrImmediate, LoadNames
<1> QED
  BY <1>2, <1>3, <1>4, <1>5, <1>8, <1>9, <1>10, <1>11, <1>12, <1>13

\* The new value of the csr, and for a set or clear of no bit the old one.
LEMMA CsrAgrees ==
  ASSUME Executing, NEW i, i = dec_instr_q, i.name \in CsrNames \union {"mret"}
  PROVE  /\ Machine!CsrWritten(i) /\ Machine!CsrName(i) # "mstatus"
              => csr_data_nxt = Machine!CsrValue(i)
         /\ ~Machine!CsrWritten(i) => alu_res_data = Machine!CsrRead(i)
<1> DEFINE old == Machine!CsrRead(i)
           src == Machine!CsrSrc(i)
<1>1. old \in Word /\ Low(dec_rs2_data_q) = old
  BY CsrOperands
<1>2. CASE i.name = "mret"
  BY <1>2 DEF Machine!CsrWritten, Machine!CsrName
<1>3. CASE i.name \in CsrNames
  <2>1. src \in Word /\ Low(dec_rs1_data_q) = IF csr_clear_o(i) THEN WORD - 1 - src ELSE src
    BY <1>3, CsrOperands
  <2>2. WORD - 1 - src \in Word
    BY <2>1, Widths DEF Word
  <2>3. alu_res_data = CASE i.name \in {"csrrs", "csrrsi"} -> BitOr(Low(dec_rs1_data_q), old)
                         [] i.name \in {"csrrc", "csrrci"} -> BitAnd(Low(dec_rs1_data_q), old)
                         [] OTHER -> 0
    <3>1. ALU \in unit_o(i)
      BY <1>3, CsrOperands DEF CsrNames, CsrImmediate
    <3> QED
      BY <1>1, <3>1, CsrOperands DEF alu_res_data, alu_data_o, alu_en, unit, operation
  <2>4. csr_data_nxt = IF i.name \in {"csrrw", "csrrwi"} THEN Low(dec_rs1_data_q) ELSE alu_res_data
    <3>1. Low(dec_rs1_data_q) \in Word /\ alu_res_data \in Word
      BY <2>1, <2>2, ExeTypes DEF Executing
    <3> QED
      BY <1>3, <3>1, OneTerm DEF csr_data_nxt, Mask, csrrw_o, mret_o, CsrNames, CsrImmediate
  <2>5. csr_clear_o(i) <=> i.name \in {"csrrc", "csrrci"}
    BY DEF csr_clear_o
  <2>6. Machine!CsrName(i) # "mstatus" =>
          Machine!CsrValue(i) = CASE i.name \in {"csrrw", "csrrwi"} -> src
                                  [] i.name \in {"csrrs", "csrrsi"} -> BitOr(src, old)
                                  [] i.name \in {"csrrc", "csrrci"} -> BitAnd(WORD - 1 - src, old)
    BY <1>3, SharedWords DEF Machine!CsrValue, CsrNames, CsrImmediate
  <2>7. ~Machine!CsrWritten(i) => i.name \in {"csrrs", "csrrsi", "csrrc", "csrrci"} /\ src = 0
    <3>1. ~Machine!CsrWritten(i) => i.name \in {"csrrs", "csrrsi", "csrrc", "csrrci"} /\ i.rs1 = 0
      BY <1>3 DEF Machine!CsrWritten, CsrNames, CsrImmediate
    <3> QED
      BY <3>1, InExecute DEF Machine!CsrSrc
  <2>8. BitOr(0, old) = old /\ BitAnd(WORD - 1 - 0, old) = old
    <3>1. WORD - 1 - 0 = WORD - 1
      BY Widths
    <3> QED
      BY <1>1, <3>1, GateAssumption
  <2> QED
    BY <1>3, <2>1, <2>3, <2>4, <2>5, <2>6, <2>7, <2>8 DEF CsrNames, CsrImmediate
<1> QED
  BY <1>2, <1>3

(***************************************************************************)
(* Loads and stores.                                                       *)
(***************************************************************************)
LEMMA LanesAgree ==
  ASSUME NEW w \in Word
  PROVE  /\ ByteOf(w, 0) = (w \div 1) % BYTE
         /\ ByteOf(w, 1) = (w \div BYTE) % BYTE
         /\ ByteOf(w, 2) = (w \div HALF) % BYTE
         /\ ByteOf(w, 3) = (w \div (HALF * BYTE)) % BYTE
         /\ HalfOf(w, 0) = (w \div 1) % HALF
         /\ HalfOf(w, 2) = (w \div HALF) % HALF
         /\ w = (w \div 1) % WORD
<1>1. /\ w \in Nat /\ w < WORD /\ WORD \in Nat
      /\ BYTE \in Nat /\ BYTE > 0 /\ HALF \in Nat /\ HALF > 0
  BY Widths DEF Word
<1>2. w \div 1 = w /\ w % WORD = w
  BY <1>1
<1>3. ByteOf(w, 3) = (w \div (HALF * BYTE)) % BYTE
  <2>1. ByteOf(w, 3) = w \div (HALF * BYTE) /\ ByteOf(w, 3) \in 0 .. BYTE - 1
    BY ByteRange DEF ByteOf
  <2> QED
    BY <1>1, <2>1
<1>4. HalfOf(w, 2) = (w \div HALF) % HALF
  <2>1. HalfOf(w, 2) = w \div HALF /\ HalfOf(w, 2) \in 0 .. HALF - 1
    BY HalfRange DEF HalfOf
  <2> QED
    BY <1>1, <2>1
<1> QED
  BY <1>2, <1>3, <1>4 DEF ByteOf, HalfOf

\* The lane of the sequential machine is the one the load-store unit selects.
LEMMA LaneOf ==
  ASSUME NEW i, NEW w \in Word, NEW a \in Word, a = Machine!DataAdr(i),
         ~Machine!MissalignedData(i)
  PROVE  /\ Machine!Width(i) = 1 =>
              /\ Machine!LaneSize(i) = BYTE
              /\ a % 4 \in 0 .. 3
              /\ Machine!Lane(i, w) = ByteOf(w, a % 4)
              /\ Machine!LaneBase(a) = CASE a % 4 = 0 -> 1 [] a % 4 = 1 -> BYTE
                                         [] a % 4 = 2 -> HALF [] a % 4 = 3 -> HALF * BYTE
         /\ Machine!Width(i) = 2 =>
              /\ Machine!LaneSize(i) = HALF
              /\ a % 4 \in {0, 2}
              /\ Machine!Lane(i, w) = HalfOf(w, a % 4)
              /\ Machine!LaneBase(a) = IF a % 4 = 0 THEN 1 ELSE HALF
         /\ Machine!Width(i) = 4 =>
              /\ Machine!LaneSize(i) = WORD
              /\ a % 4 = 0 /\ Machine!Lane(i, w) = w /\ Machine!LaneBase(a) = 1
<1>1. a \in Nat
  BY WordIsExtended
<1>2. a % 4 \in 0 .. 3 /\ (a % 2 = 0 => a % 4 \in {0, 2})
  BY <1>1
<1>3. Machine!Width(i) # 0 => a % Machine!Width(i) = 0
  BY DEF Machine!MissalignedData
<1>4. Machine!LaneBase(a) = CASE a % 4 = 0 -> 1 [] a % 4 = 1 -> BYTE
                              [] a % 4 = 2 -> HALF [] a % 4 = 3 -> HALF * BYTE
  BY <1>2, SharedWords DEF Machine!LaneBase
<1>5. Machine!LaneSize(i) = CASE Machine!Width(i) = 1 -> BYTE [] Machine!Width(i) = 2 -> HALF
                              [] OTHER -> WORD
  BY SharedWords DEF Machine!LaneSize
<1>6. Machine!Lane(i, w) = (w \div Machine!LaneBase(a)) % Machine!LaneSize(i)
  BY DEF Machine!Lane
<1>7. CASE Machine!Width(i) = 1
  <2>1. Machine!LaneSize(i) = BYTE
    BY <1>5, <1>7
  <2>2. Machine!Lane(i, w) = ByteOf(w, a % 4)
    BY <1>2, <1>4, <1>6, <2>1, LanesAgree
  <2> QED
    BY <1>2, <1>4, <1>7, <2>1, <2>2
<1>8. CASE Machine!Width(i) = 2
  <2>1. Machine!LaneSize(i) = HALF /\ a % 4 \in {0, 2}
    BY <1>2, <1>3, <1>5, <1>8
  <2>2. Machine!LaneBase(a) = IF a % 4 = 0 THEN 1 ELSE HALF
    BY <1>4, <2>1
  <2>3. Machine!Lane(i, w) = HalfOf(w, a % 4)
    BY <1>6, <2>1, <2>2, LanesAgree
  <2> QED
    BY <1>8, <2>1, <2>2, <2>3
<1>9. CASE Machine!Width(i) = 4
  <2>1. Machine!LaneSize(i) = WORD /\ a % 4 = 0
    BY <1>3, <1>5, <1>9
  <2> QED
    BY <1>4, <1>6, <1>9, <2>1, LanesAgree
<1> QED
  BY <1>7, <1>8, <1>9

\* The word of memory an aligned access touches.
LEMMA LineRead ==
  ASSUME Executing, lsu_en, NEW i, i = dec_instr_q
  PROVE  /\ mem_adr \in Word /\ mem_adr = Machine!DataAdr(i)
         /\ Machine!LineOf(mem_adr) = mem_adr - (mem_adr % 4)
         /\ mem_adr - (mem_adr % 4) \in Line
         /\ load_data_i \in Word /\ load_data_i = ram[Machine!LineOf(mem_adr)]
<1>1. mem_adr \in Word /\ ram \in [Line -> Word]
  BY ExeTypes, InExecute DEF Executing
<1>2. mem_adr = Machine!DataAdr(i)
  BY AccessAgrees
<1>3. Machine!LineOf(mem_adr) = mem_adr - (mem_adr % 4)
  BY DEF Machine!LineOf
<1>4. mem_adr - (mem_adr % 4) \in Line
  BY <1>1, LineOfWord
<1> QED
  BY <1>1, <1>2, <1>3, <1>4 DEF load_data_i

\* An aligned load returns the lane it names, extended as its name says, except
\* in the window of the sign of a byte.
LEMMA LoadAgrees ==
  ASSUME Executing, ~LateByte, NEW i, i = dec_instr_q, i.name \in LoadNames,
         ~Machine!MissalignedData(i)
  PROVE  lsu_res_data = Machine!LoadValue(i)
<1> DEFINE a == mem_adr
           w == load_data_i
<1>1. lsu_en
  BY AccessAgrees
<1>2. /\ a \in Word /\ a = Machine!DataAdr(i)
      /\ w \in Word /\ w = ram[Machine!LineOf(Machine!DataAdr(i))]
  BY <1>1, LineRead
<1>3. Machine!LoadValue(i)
        = IF i.name \in {"lb", "lh"} /\ Machine!Lane(i, w) >= Machine!LaneSize(i) \div 2
          THEN WORD - Machine!LaneSize(i) + Machine!Lane(i, w) ELSE Machine!Lane(i, w)
  BY <1>2, SharedWords DEF Machine!LoadValue
<1>4. unsign_extension_o(i) <=> i.name \in {"lbu", "lhu"}
  BY DEF unsign_extension_o, LoadNames
<1>5. access_size_o(i) = Machine!Width(i)
  BY AccessAgrees
<1>6. lsu_res_data = lsu_data_o(a, Machine!Width(i), i.name \in {"lbu", "lhu"}, w)
  BY <1>4, <1>5 DEF lsu_res_data, lsu_data_o
<1>7. i.name = "lb" => a % 4 = 0
  BY DEF LateByte
<1> HIDE DEF a, w
<1>8. CASE i.name \in {"lb", "lbu"}
  <2>1. Machine!Width(i) = 1
    BY <1>8 DEF Machine!Width
  <2>2. Machine!LaneSize(i) = BYTE /\ Machine!Lane(i, w) = ByteOf(w, a % 4) /\ a % 4 \in 0 .. 3
    BY <1>2, <2>1, LaneOf
  <2>3. ByteOf(w, a % 4) \in Int /\ BYTE \in Int /\ WORD \in Int
    BY <1>2, <2>2, ByteRange, Widths
  <2>4. lsu_res_data = ByteOf(w, a % 4)
           + IF i.name # "lbu" /\ ByteOf(w, 0) >= BYTE \div 2 THEN WORD - BYTE ELSE 0
    BY <1>6, <1>8, <2>1 DEF lsu_data_o
  <2>5. CASE i.name = "lb"
    BY <1>3, <1>7, <2>2, <2>3, <2>4, <2>5
  <2>6. CASE i.name = "lbu"
    BY <1>3, <2>2, <2>3, <2>4, <2>6
  <2> QED
    BY <1>8, <2>5, <2>6
<1>9. CASE i.name \in {"lh", "lhu"}
  <2>1. Machine!Width(i) = 2
    BY <1>9 DEF Machine!Width
  <2>2. Machine!LaneSize(i) = HALF /\ Machine!Lane(i, w) = HalfOf(w, a % 4) /\ a % 4 \in {0, 2}
    BY <1>2, <2>1, LaneOf
  <2>3. HalfOf(w, a % 4) \in Int /\ HALF \in Int /\ WORD \in Int
    BY <1>2, HalfRange, Widths
  <2>4. lsu_res_data = HalfOf(w, a % 4)
           + IF i.name # "lhu" /\ HalfOf(w, a % 4) >= HALF \div 2 THEN WORD - HALF ELSE 0
    BY <1>6, <1>9, <2>1, <2>2 DEF lsu_data_o
  <2>5. CASE i.name = "lh"
    BY <1>3, <2>2, <2>3, <2>4, <2>5
  <2>6. CASE i.name = "lhu"
    BY <1>3, <2>2, <2>3, <2>4, <2>6
  <2> QED
    BY <1>9, <2>5, <2>6
<1>10. CASE i.name = "lw"
  <2>1. Machine!Width(i) = 4
    BY <1>10 DEF Machine!Width
  <2>2. Machine!Lane(i, w) = w
    BY <1>2, <2>1, LaneOf
  <2> QED
    BY <1>3, <1>6, <1>10, <2>1, <2>2 DEF lsu_data_o
<1> QED
  BY <1>8, <1>9, <1>10 DEF LoadNames

\* An aligned store replaces the lane it names and no other.
LEMMA StoreAgrees ==
  ASSUME Executing, NEW i, i = dec_instr_q, i.name \in {"sb", "sh", "sw"},
         ~Machine!MissalignedData(i)
  PROVE  StoreMerge(load_data_i, mem_adr, access_size_o(i), Low(dec_rs2_data_q))
           = Machine!StoreValue(i)
<1> DEFINE a == mem_adr
           w == load_data_i
           d == X2(i)
<1>1. i.opc = "S" /\ lsu_en
  BY InExecute, NameTellsOpcode, AccessAgrees
<1>2. /\ a \in Word /\ a = Machine!DataAdr(i)
      /\ w \in Word /\ w = ram[Machine!LineOf(Machine!DataAdr(i))]
  BY <1>1, LineRead
<1>3. d \in Word /\ Low(dec_rs2_data_q) = d
  <2>1. ~rs2_ca2_v_o(i)
    BY DEF rs2_ca2_v_o
  <2> QED
    BY <1>1, <2>1, Operands, SignBitExtends
<1>4. Machine!StoreValue(i)
        = w + ((d % Machine!LaneSize(i)) - Machine!Lane(i, w)) * Machine!LaneBase(a)
  BY <1>2 DEF Machine!StoreValue, X2
<1>5. access_size_o(i) = Machine!Width(i)
  BY AccessAgrees
<1>6. /\ w \in Nat /\ w < WORD /\ d \in Nat /\ d < WORD /\ WORD \in Nat
      /\ HALF \in Nat /\ HALF > 0
  BY <1>2, <1>3, Widths DEF Word
<1> HIDE DEF a, w, d
<1>7. CASE i.name = "sb"
  <2>1. Machine!Width(i) = 1
    BY <1>7 DEF Machine!Width
  <2>2. /\ Machine!LaneSize(i) = BYTE /\ Machine!Lane(i, w) = ByteOf(w, a % 4) /\ a % 4 \in 0 .. 3
        /\ Machine!LaneBase(a) = CASE a % 4 = 0 -> 1 [] a % 4 = 1 -> BYTE
                                   [] a % 4 = 2 -> HALF [] a % 4 = 3 -> HALF * BYTE
    BY <1>2, <2>1, LaneOf
  <2>3. ByteOf(d, 0) = d % BYTE
    BY DEF ByteOf
  <2>4. StoreMerge(w, a, 1, d) = w + (ByteOf(d, 0) - ByteOf(w, a % 4)) * Machine!LaneBase(a)
    BY <2>2 DEF StoreMerge, PutByte
  <2> QED
    BY <1>3, <1>4, <1>5, <2>1, <2>2, <2>3, <2>4 DEF a, w, d
<1>8. CASE i.name = "sh"
  <2>1. Machine!Width(i) = 2
    BY <1>8 DEF Machine!Width
  <2>2. /\ Machine!LaneSize(i) = HALF /\ Machine!Lane(i, w) = HalfOf(w, a % 4) /\ a % 4 \in {0, 2}
        /\ Machine!LaneBase(a) = IF a % 4 = 0 THEN 1 ELSE HALF
    BY <1>2, <2>1, LaneOf
  <2>3. HalfOf(d, 0) = d % HALF /\ HalfOf(w, 0) = w % HALF /\ HalfOf(w, 2) = w \div HALF
    BY DEF HalfOf
  <2> DEFINE q == w \div HALF
             r == w % HALF
             e == d % HALF
  <2>4. w = q * HALF + r /\ q \in Int /\ r \in Int /\ e \in Int
    BY <1>6
  <2>5. CASE a % 4 = 0
    <3>1. StoreMerge(w, a, 2, d) = q * HALF + e
      BY <2>3, <2>5 DEF StoreMerge
    <3>2. Machine!StoreValue(i) = w + (e - r) * 1
      BY <1>4, <2>2, <2>3, <2>5
    <3> HIDE DEF q, r, e
    <3>3. q * HALF + e = w + (e - r) * 1
      BY <1>6, <2>4
    <3> QED
      BY <1>3, <1>5, <2>1, <3>1, <3>2, <3>3 DEF a, w, d
  <2>6. CASE a % 4 = 2
    <3>1. StoreMerge(w, a, 2, d) = e * HALF + r
      BY <2>3, <2>6 DEF StoreMerge
    <3>2. Machine!StoreValue(i) = w + (e - q) * HALF
      BY <1>4, <2>2, <2>3, <2>6
    <3> HIDE DEF q, r, e
    <3>3. e * HALF + r = w + (e - q) * HALF
      BY <1>6, <2>4
    <3> QED
      BY <1>3, <1>5, <2>1, <3>1, <3>2, <3>3 DEF a, w, d
  <2> QED
    BY <2>2, <2>5, <2>6
<1>9. CASE i.name = "sw"
  <2>1. Machine!Width(i) = 4
    BY <1>9 DEF Machine!Width
  <2>2. Machine!LaneSize(i) = WORD /\ Machine!Lane(i, w) = w /\ Machine!LaneBase(a) = 1
    BY <1>2, <2>1, LaneOf
  <2>3. d % WORD = d /\ w + (d - w) * 1 = d
    BY <1>6
  <2>4. StoreMerge(w, a, 4, d) = d
    BY DEF StoreMerge
  <2> QED
    BY <1>3, <1>4, <1>5, <2>1, <2>2, <2>3, <2>4 DEF a, w, d
<1> QED
  BY <1>7, <1>8, <1>9

(***************************************************************************)
(* Write back.                                                             *)
(***************************************************************************)

\* Five terms of which one is not masked off.
LEMMA OneOfFive ==
  ASSUME NEW v \in Word
  PROVE  /\ BitOr(Or3(v, 0, 0), BitOr(0, 0)) = v
         /\ BitOr(Or3(0, v, 0), BitOr(0, 0)) = v
         /\ BitOr(Or3(0, 0, v), BitOr(0, 0)) = v
         /\ BitOr(Or3(0, 0, 0), BitOr(v, 0)) = v
         /\ BitOr(Or3(0, 0, 0), BitOr(0, v)) = v
BY OneTerm, GateTypes, WordIsExtended

LEMMA WriteBackAgrees ==
  ASSUME Executing, ~LateByte, ~exception_nxt, NEW i, i = dec_instr_q, Machine!HasResult(i)
  PROVE  wbk_data_nxt = Machine!Result(i)
<1>1. WellFormed(i) /\ ~flush_v /\ ArchPc = dec_pc_q /\ dec_pc_q \in Word
  BY InExecute DEF Executing
<1>2. i.name \notin {"illegal", "ecall", "ebreak"} /\ ~Machine!MissalignedData(i)
  BY TrapAgrees DEF Machine!Traps
<1>3. i.opc \notin {"S", "B", "other"}
  BY DEF Machine!HasResult
<1>4. /\ alu_res_data \in Word /\ shifter_res_data \in Word /\ lsu_res_data \in Word
      /\ Low(dec_rs2_data_q) \in Word /\ bu_data_o(dec_pc_q) \in Word
  <2>1. dec_rs1_data_q \in Extended /\ dec_rs2_data_q \in Extended
    BY InExecute
  <2>2. shifter_res_data \in Word
    BY <2>1, ShifterType DEF shifter_res_data
  <2>3. bu_data_o(dec_pc_q) \in Word
    <3>1. dec_pc_q + 4 \in Int
      BY <1>1, WordIsExtended
    <3> QED
      BY <3>1, WrapType DEF bu_data_o
  <2>4. lsu_res_data \in Word
    <3>1. mem_adr \in Word /\ ram \in [Line -> Word]
      BY ExeTypes, InExecute DEF Executing
    <3>2. load_data_i \in Word
      BY <3>1, LineOfWord DEF load_data_i
    <3> QED
      BY <3>1, <3>2, LsuDataType DEF lsu_res_data
  <2> QED
    BY <2>1, <2>2, <2>3, <2>4, ExeTypes, LowType DEF Executing
<1>5. CASE i.opc \in {"R", "I", "U", "AUIPC"}
  <2>1. ~csr_wbk_o(i)
    BY <1>1, <1>5, NameTellsOpcode DEF csr_wbk_o, CsrNames, CsrImmediate
  <2>2. ~bu_en /\ ~lsu_en /\ (alu_en <=> i.name \notin Shifts) /\ (shifter_en <=> i.name \in Shifts)
    BY <1>1, <1>5, AluOperations DEF bu_en, lsu_en, alu_en, shifter_en, unit
  <2>3. CASE i.name \in Shifts
    <3>1. wbk_data_nxt = BitOr(Or3(0, 0, shifter_res_data), BitOr(0, 0))
      BY <2>1, <2>2, <2>3 DEF wbk_data_nxt, Mask
    <3> QED
      BY <1>4, <2>3, <3>1, OneOfFive, ShifterAgrees
  <2>4. CASE i.name \notin Shifts
    <3>1. wbk_data_nxt = BitOr(Or3(alu_res_data, 0, 0), BitOr(0, 0))
      BY <2>1, <2>2, <2>4 DEF wbk_data_nxt, Mask
    <3> QED
      BY <1>2, <1>4, <1>5, <2>4, <3>1, OneOfFive, AluAgrees
  <2> QED
    BY <2>3, <2>4
<1>6. CASE i.opc \in {"JAL", "JALR"}
  <2>1. i.name \in {"jal", "jalr"}
    BY <1>1, <1>6 DEF WellFormed, NamesOf
  <2>2. ~csr_wbk_o(i) /\ bu_en /\ ~lsu_en /\ ~alu_en /\ ~shifter_en
    BY <1>6, <2>1 DEF csr_wbk_o, bu_en, lsu_en, alu_en, shifter_en, unit, unit_o, LoadNames,
                      CsrNames, CsrImmediate, ALU, SFT, BU, LSU
  <2>3. wbk_data_nxt = BitOr(Or3(0, 0, 0), BitOr(bu_data_o(dec_pc_q), 0))
    BY <2>2 DEF wbk_data_nxt, Mask
  <2>4. Machine!Result(i) = bu_data_o(dec_pc_q)
    BY <1>1, <2>1, ResultOf DEF bu_data_o
  <2> QED
    BY <1>4, <2>3, <2>4, OneOfFive
<1>7. CASE i.opc = "L"
  <2>1. i.name \in LoadNames \union {"ld"}
    BY <1>1, <1>2, <1>7 DEF WellFormed, NamesOf
  <2>2. ~csr_wbk_o(i) /\ ~bu_en /\ (lsu_en <=> i.name \in LoadNames) /\ ~alu_en /\ ~shifter_en
    BY <1>1, <1>7, <2>1 DEF csr_wbk_o, bu_en, lsu_en, alu_en, shifter_en, unit, unit_o, LoadNames,
                            CsrNames, CsrImmediate, ALU, SFT, BU, LSU
  <2>3. CASE i.name \in LoadNames
    <3>1. wbk_data_nxt = BitOr(Or3(0, 0, 0), BitOr(0, lsu_res_data))
      BY <2>2, <2>3 DEF wbk_data_nxt, Mask
    <3> QED
      BY <1>2, <1>4, <2>3, <3>1, OneOfFive, LoadAgrees, ResultOf
  <2>4. CASE i.name = "ld"
    <3>1. wbk_data_nxt = BitOr(Or3(0, 0, 0), BitOr(0, 0))
      BY <2>2, <2>4 DEF wbk_data_nxt, Mask, LoadNames
    <3> QED
      BY <2>4, <3>1, OneOfFive, WordIsExtended, ResultOf
  <2> QED
    BY <2>1, <2>3, <2>4
<1>8. CASE i.opc = "FENCE" \/ i.name \in {"sret", "nop"}
  <2>1. i.name \in {"fence", "sret", "nop"}
    BY <1>1, <1>2, <1>8 DEF WellFormed, NamesOf
  <2>2. i.opc \in {"FENCE", "P"}
    BY <1>1, <2>1 DEF WellFormed, NamesOf, Opcodes, LoadNames, Branches
  <2>3. ~csr_wbk_o(i) /\ ~bu_en /\ ~lsu_en /\ ~alu_en /\ ~shifter_en
    BY <2>1, <2>2 DEF csr_wbk_o, bu_en, lsu_en, alu_en, shifter_en, unit, unit_o, LoadNames,
                      CsrNames, CsrImmediate, ALU, SFT, BU, LSU
  <2>4. wbk_data_nxt = BitOr(Or3(0, 0, 0), BitOr(0, 0))
    BY <2>3 DEF wbk_data_nxt, Mask
  <2> QED
    BY <2>1, <2>4, OneOfFive, WordIsExtended, ResultOf
<1>9. CASE i.name \in CsrNames \union {"mret"}
  <2>1. /\ ~bu_en /\ ~lsu_en /\ ~shifter_en /\ (alu_en <=> i.name # "mret")
        /\ csr_wbk_o(i) <=> Machine!CsrWritten(i)
        /\ Low(dec_rs2_data_q) = Machine!CsrRead(i)
    BY <1>9, CsrOperands DEF bu_en, lsu_en, shifter_en, alu_en, unit, ALU, SFT, BU, LSU
  <2>2. Machine!Result(i) = Machine!CsrRead(i)
    BY <1>9, ResultOf
  <2>3. CASE csr_wbk_o(i)
    <3>1. wbk_data_nxt = BitOr(Or3(0, Low(dec_rs2_data_q), 0), BitOr(0, 0))
      BY <2>1, <2>3 DEF wbk_data_nxt, Mask
    <3> QED
      BY <1>4, <2>1, <2>2, <3>1, OneOfFive
  <2>4. CASE ~csr_wbk_o(i)
    <3>1. i.name # "mret" /\ alu_res_data = Machine!CsrRead(i)
      BY <1>9, <2>1, <2>4, CsrAgrees DEF csr_wbk_o
    <3>2. wbk_data_nxt = BitOr(Or3(alu_res_data, 0, 0), BitOr(0, 0))
      BY <2>1, <2>4, <3>1 DEF wbk_data_nxt, Mask
    <3> QED
      BY <1>4, <2>2, <3>1, <3>2, OneOfFive
  <2> QED
    BY <2>3, <2>4
<1>10. i.opc = "P" => i.name \in CsrNames \union {"mret", "sret", "nop"}
  BY <1>1, <1>2 DEF WellFormed, NamesOf
<1>11. i.opc \in Opcodes
  BY <1>1 DEF WellFormed
<1> QED
  BY <1>3, <1>5, <1>6, <1>7, <1>8, <1>9, <1>10, <1>11 DEF Opcodes

(***************************************************************************)
(* An instruction that does not trap.                                      *)
(***************************************************************************)
LEMMA RegistersCommit ==
  ASSUME Executing, Posedge, ~LateByte, ~exception_nxt, NEW i, i = dec_instr_q
  PROVE  rf_nxt' = IF Machine!HasResult(i) THEN [rf_nxt EXCEPT ![i.rd] = Machine!Result(i)]
                                           ELSE rf_nxt
<1>1. WellFormed(i) /\ ~flush_v /\ (dec_wbk_v_q <=> wbk_v_o(i))
  BY InExecute DEF Executing
<1>2. i.name \notin {"illegal", "ecall", "ebreak"}
  BY TrapAgrees DEF Machine!Traps
<1>3. Machine!HasResult(i) <=> wbk_v_o(i)
  BY <1>1, <1>2, FenceName DEF Machine!HasResult, wbk_v_o, WellFormed, Opcodes
<1>4. wbk_v_nxt <=> Machine!HasResult(i)
  BY <1>1, <1>3 DEF wbk_v_nxt
<1>5. Machine!HasResult(i) => i.rd # 0
  BY DEF Machine!HasResult
<1>6. /\ rf' = rf_nxt /\ wbk_v_q' = wbk_v_nxt
      /\ wbk_adr_q' = i.rd /\ wbk_data_q' = wbk_data_nxt
  BY DEF Posedge, BanksEdge, ExeEdge
<1>7. rf_nxt' = IF Machine!HasResult(i) THEN [rf_nxt EXCEPT ![i.rd] = wbk_data_nxt] ELSE rf_nxt
  BY <1>4, <1>5, <1>6 DEF rf_nxt
<1> QED
  BY <1>7, WriteBackAgrees

LEMMA CsrsCommit ==
  ASSUME Executing, Posedge, ~exception_nxt, NEW i, i = dec_instr_q
  PROVE  csr_nxt' = IF Machine!CsrWritten(i) /\ Machine!CsrName(i) \in CsrFlops
                    THEN [csr_nxt EXCEPT ![Machine!CsrName(i)] = Machine!CsrValue(i)]
                    ELSE csr_nxt
<1> DEFINE name  == Machine!CsrName(i)
           value == Machine!CsrValue(i)
<1>1. csr_nxt \in [CsrFlops -> Word] /\ ~flush_v
  BY InExecute DEF Executing
<1>2. Machine!CsrWritten(i) => i.name \in CsrNames \union {"mret"}
  BY DEF Machine!CsrWritten, CsrNames, CsrImmediate
<1>3. csr_wbk_v_nxt <=> Machine!CsrWritten(i)
  <2>1. csr_wbk_o(i) => i.name \in CsrNames \union {"mret"}
    BY DEF csr_wbk_o, CsrNames, CsrImmediate
  <2> QED
    BY <1>1, <1>2, <2>1, CsrOperands DEF csr_wbk_v_nxt
<1>4. wbk_csr_adr_o(i) = name
  BY DEF wbk_csr_adr_o, Machine!CsrName
<1>5. csr_nxt' \in [CsrFlops -> Word]
  <2>1. csr_nxt' = [c \in CsrFlops |-> csr_nxt'[c]]
    BY DEF csr_nxt
  <2>2. ASSUME NEW c \in CsrFlops PROVE csr_nxt'[c] \in Word
    <3>1. csr_data_nxt \in Word /\ MSTATUS_M \in Word /\ csr_nxt[c] \in Word
      BY <1>1, ExeTypes, MstatusAssumption DEF Executing
    <3> QED
      BY <3>1, CsrsNext DEF Executing
  <2> QED
    BY <2>1, <2>2
<1>6. ASSUME NEW c \in CsrFlops
      PROVE  csr_nxt'[c] = IF Machine!CsrWritten(i) /\ name = c THEN value ELSE csr_nxt[c]
  <2>1. csr_nxt'[c] = IF Machine!CsrWritten(i) /\ name = c
                      THEN IF c = "mstatus" THEN MSTATUS_M ELSE csr_data_nxt
                      ELSE csr_nxt[c]
    BY <1>3, <1>4, CsrsNext DEF Executing
  <2>2. name = "mstatus" => value = MSTATUS_M
    BY DEF Machine!CsrValue
  <2>3. Machine!CsrWritten(i) /\ name # "mstatus" => csr_data_nxt = value
    BY <1>2, CsrAgrees
  <2> QED
    BY <2>1, <2>2, <2>3
<1> HIDE DEF name, value
<1> QED
  BY <1>1, <1>5, <1>6 DEF name, value

\* A store reaches the memory before the edge, as the machine's does.
LEMMA StoreCommits ==
  ASSUME Executing, ~exception_nxt, NEW i, i = dec_instr_q
  PROVE  ram_nxt = Machine!MemAfter(i)
<1>1. WellFormed(i) /\ ram \in [Line -> Word]
  BY InExecute
<1>2. ~Machine!MissalignedData(i) /\ i.name # "illegal"
  BY TrapAgrees DEF Machine!Traps
<1>3. is_store <=> i.opc = "S"
  BY AccessAgrees
<1>4. is_store => lsu_en
  BY DEF is_store
<1>5. ram_nxt = IF is_store
             THEN [ram EXCEPT ![Machine!LineOf(Machine!DataAdr(i))]
                     = StoreMerge(load_data_i, mem_adr, access_size_o(i), Low(dec_rs2_data_q))]
             ELSE ram
  <2>1. CASE is_store
    <3>1. ram_nxt = [ram EXCEPT ![mem_adr - (mem_adr % 4)]
                    = StoreMerge(ram[mem_adr - (mem_adr % 4)], mem_adr, access_size_o(i),
                                 Low(dec_rs2_data_q))]
      BY <1>1, <1>4, <2>1 DEF ram_nxt, adr_v_o
    <3> QED
      BY <1>1, <1>4, <2>1, <3>1, LineRead
  <2>2. CASE ~is_store
    BY <1>1, <2>2 DEF ram_nxt
  <2> QED
    BY <2>1, <2>2
<1>6. CASE i.name \in {"sb", "sh", "sw"}
  <2>1. i.opc = "S"
    BY <1>1, <1>6, NameTellsOpcode
  <2> QED
    BY <1>2, <1>3, <1>5, <1>6, <2>1, StoreAgrees DEF Machine!MemAfter
<1>7. CASE i.name \notin {"sb", "sh", "sw"}
  <2>1. is_store => i.name = "sd"
    BY <1>1, <1>2, <1>3, <1>7 DEF WellFormed, NamesOf
  <2>2. is_store => StoreMerge(load_data_i, mem_adr, access_size_o(i), Low(dec_rs2_data_q))
                      = load_data_i
    BY <2>1 DEF access_size_o, StoreMerge
  <2>3. ram_nxt = ram
    BY <1>1, <1>4, <1>5, <2>2, LineRead
  <2> QED
    BY <1>7, <2>3 DEF Machine!MemAfter
<1> QED
  BY <1>6, <1>7

LEMMA MemoryCommits ==
  ASSUME Executing, Posedge, ~exception_nxt, NEW i, i = dec_instr_q
  PROVE  ram' = Machine!MemAfter(i)
BY StoreCommits DEF Posedge, BanksEdge

LEMMA ModeCommits ==
  ASSUME Executing, Posedge, ~exception_nxt, NEW i, i = dec_instr_q
  PROVE  core_mode_q' = CASE i.name = "mret" -> Mpp(csr_nxt["mstatus"])
                          [] i.name = "sret" -> 1
                          [] OTHER           -> core_mode_q
<1>1. core_mode_q' = core_mode_nxt
  BY DEF Posedge, ExeEdge
<1>2. i.name = "mret" => Low(dec_rs2_data_q) = csr_nxt["mstatus"]
  BY CsrOperands, SharedNames DEF Machine!CsrRead, Machine!CsrName, CsrFlops
<1> QED
  BY <1>1, <1>2 DEF core_mode_nxt, mret_o, sret_o

\* The next address is the target of the branch, the return address, or that of
\* the word fetch holds already.
LEMMA PcCommits ==
  ASSUME Executing, Posedge, ~LateVector, ~exception_nxt, NEW i, i = dec_instr_q
  PROVE  ArchPc' = Machine!NextPc(i)
<1>1. /\ WellFormed(i) /\ ArchPc = dec_pc_q /\ ~flush_v /\ dec_reset_n_q
      /\ if_pc_q = (dec_pc_q + 4) % WORD
  BY InExecute DEF Executing
<1>2. /\ branch_v_q' = branch_v_nxt /\ exception_q' = exception_nxt
      /\ branch_v_dly1_q' = branch_v_q /\ exception_dly1_q' = exception_q
      /\ pc_data_q' = pc_data_nxt /\ reset_n' /\ if_reset_n_q'
      /\ dec_instr_q' = if_instr_q /\ dec_pc_q' = if_pc_q
      /\ dec_illegal_inst_q' = illegal_inst_q_nxt
  BY DEF Posedge, ExeEdge, DecEdge, IfetchEdge
<1>3. branch_v_nxt <=> Machine!Taken(i) \/ i.name \in {"mret", "sret"}
  BY <1>1, BranchAgrees DEF branch_v_nxt, mret_o, sret_o
<1>4. Machine!Taken(i) => i.name \notin {"mret", "sret"}
  BY DEF Machine!Taken
<1>5. Machine!NextPc(i) = CASE Machine!Taken(i) -> Machine!Target(i)
                            [] i.name = "mret" -> csr_nxt["mepc"]
                            [] i.name = "sret" -> 0
                            [] OTHER -> (dec_pc_q + 4) % WORD
  BY <1>1, SharedNames DEF Machine!NextPc
<1>6. CASE branch_v_nxt
  <2>1. ArchPc' = pc_data_nxt
    BY <1>2, <1>6 DEF ArchPc
  <2>2. bu_pc_res \in Word /\ csr["mepc"] \in Word /\ 0 \in Word
    BY ExeTypes, WordIsExtended DEF Executing, TypeOK, StoreTypeOK, CsrFlops
  <2>3. pc_data_nxt = Or3(bu_pc_res, 0, IF i.name = "mret" THEN csr["mepc"] ELSE 0)
    BY DEF pc_data_nxt, Mask, mret_o
  <2>4. bu_pc_res = IF Machine!Taken(i) THEN Machine!Target(i) ELSE 0
    BY BranchAgrees
  <2>5. i.name = "mret" => csr["mepc"] = csr_nxt["mepc"]
    BY DEF LateVector, mret_o
  <2>6. CASE Machine!Taken(i)
    BY <1>4, <1>5, <2>1, <2>2, <2>3, <2>4, <2>6, OneTerm
  <2>7. CASE ~Machine!Taken(i)
    BY <1>3, <1>5, <1>6, <2>1, <2>2, <2>3, <2>4, <2>5, <2>7, OneTerm
  <2> QED
    BY <2>6, <2>7
<1>7. CASE ~branch_v_nxt
  <2>1. ~Bubble'
    <3>1. ZeroInstr.name = "illegal"
      BY DEF ZeroInstr
    <3> QED
      BY <1>1, <1>2, <3>1 DEF Bubble, illegal_inst_q_nxt, illegal_inst_o
  <2>2. ArchPc' = if_pc_q
    BY <1>1, <1>2, <1>7, <2>1 DEF ArchPc, flush_v
  <2> QED
    BY <1>1, <1>3, <1>5, <1>7, <2>2
<1> QED
  BY <1>6, <1>7

LEMMA RetireCommits ==
  ASSUME Executing, Posedge, ~LateVector, ~LateByte, ~exception_nxt
  PROVE  Machine!Retire(dec_instr_q)
<1>1. ~Machine!Traps(dec_instr_q)
  BY TrapAgrees
<1> QED
  BY <1>1, PcCommits, RegistersCommit, CsrsCommit, MemoryCommits, ModeCommits, SharedNames
  DEF Machine!Retire

\* For every program and every width of word, an instruction that has its
\* operands does in execute and write back what the sequential machine does in
\* one step, traps included (exe.sv, alu.sv, shifter.sv, bu.sv, lsu.sv, csr.sv,
\* rf.sv), except in the two windows the property names.
THEOREM CommitsInstructions == Spec => CommitsInstruction
<1>1. TypeOK /\ PipelineInv /\ StreamInv /\ [Next]_vars
        => [Commit /\ OperandsArchitectural /\ ~LateVector /\ ~LateByte
              => Machine!Exec(dec_instr_q)]_vars
  <2> SUFFICES ASSUME TypeOK, PipelineInv, StreamInv, Posedge, ~flush_v, ~Bubble,
                      OperandsArchitectural, ~LateVector, ~LateByte
               PROVE  Machine!Exec(dec_instr_q)
    BY DEF Next, AssertReset, ReleaseReset, Commit, Edge
  <2>1. Executing
    BY DEF Executing, Posedge
  <2> QED
    BY <2>1, TrapCommits, RetireCommits DEF Machine!Exec
<1> QED
  BY <1>1, TypesHold, PipelineConsistent, StreamInOrder, PTL DEF CommitsInstruction, Spec
(***************************************************************************)
(* Refinement: the operands of a program that keeps out of the windows.    *)
(***************************************************************************)

\* What the refinement needs beside the invariants of every program holds as
\* long as the program keeps out of the windows of decode.
LEMMA OperandsNext ==
  ASSUME TypeOK, PipelineInv, OperandsInv, [Next]_vars, [Edge => ~InWindow]_vars
  PROVE  OperandsInv'
<1>1. CASE UNCHANGED vars
  BY <1>1 DEF vars, ifVars, decVars, wbkVars, trapVars, OperandsInv, OperandsArchitectural,
     flush_v, Bubble, ArchSource1, ArchSource2, rf_nxt, csr_nxt, csr_write_v, TrapValue
<1>2. CASE Posedge /\ vars' # vars
  <2>1. ~flush_v' => ~(PhantomRd \/ PhantomCsr \/ LateCsr \/ RawCsr)
    BY <1>2 DEF InWindow, Edge, Posedge
  <2> QED
    BY <1>2, <2>1, OperandsHandedOver DEF OperandsInv
<1>3. CASE AssertReset
  BY <1>3 DEF AssertReset, DecReset, OperandsInv, Bubble
<1>4. CASE ReleaseReset
  <2>1. Bubble
    BY <1>4 DEF ReleaseReset, PipelineInv, ResetDrains
  <2>2. Bubble'
    BY <1>4, <2>1 DEF ReleaseReset, Bubble, decVars
  <2> QED
    BY <2>2 DEF OperandsInv
<1> QED
  BY <1>1, <1>2, <1>3, <1>4 DEF Next

LEMMA OperandsInit == Init => OperandsInv
BY DEF Init, OperandsInv, Bubble

LEMMA OperandsKept ==
  Spec /\ KeepsDistances => []OperandsInv
<1>1. TypeOK /\ PipelineInv /\ OperandsInv /\ [Next]_vars /\ [Edge => ~InWindow]_vars => OperandsInv'
  BY OperandsNext
<1> QED
  BY <1>1, OperandsInit, TypesHold, PipelineConsistent, PTL DEF Spec, KeepsDistances

(***************************************************************************)
(* Steps.                                                                  *)
(***************************************************************************)

\* Everything the next step of the core starts from.
CoreInv == TypeOK /\ PipelineInv /\ StreamInv /\ OperandsInv

\* An edge that completes an instruction is the step of the machine that
\* executes the word fetched.
LEMMA CommitExecutes ==
  ASSUME CoreInv, Posedge, Commit, ~InWindow
  PROVE  dec_instr_q \in Text[ArchPc] /\ Machine!Exec(dec_instr_q)
<1>1. Executing /\ ~LateVector /\ ~LateByte
  BY DEF CoreInv, Executing, OperandsInv, Commit, Edge, InWindow
<1>2. dec_instr_q \in Text[dec_pc_q] /\ ArchPc = dec_pc_q
  BY <1>1, InExecute DEF Executing, StreamInv
<1>3. Machine!Exec(dec_instr_q)
  BY <1>1, TrapCommits, RetireCommits DEF Machine!Exec
<1> QED
  BY <1>2, <1>3

\* For every program that keeps out of the windows, each edge that completes an
\* instruction does what the sequential machine does with the very word fetched
\* at its pc: no wrong result of one word passes for the result of another.
THEOREM WordsFetchedExecute == Spec /\ KeepsDistances => ExecutesFetched
<1>1. CoreInv /\ [Next]_vars /\ [Edge => ~InWindow]_vars
        => [Commit => dec_instr_q \in Text[ArchPc] /\ Machine!Exec(dec_instr_q)]_vars
  BY CommitExecutes DEF Next, AssertReset, ReleaseReset, Commit, Edge
<1> QED
  BY <1>1, TypesHold, PipelineConsistent, StreamInOrder, OperandsKept, PTL
  DEF ExecutesFetched, KeepsDistances, Spec, CoreInv

\* The machine before its first step.
LEMMA InitMaps == Init => Machine!IsaInit
<1> SUFFICES ASSUME Init PROVE Machine!IsaInit
  OBVIOUS
<1>1. ArchPc = ResetAdr
  BY DEF Init, ArchPc
<1>2. rf_nxt = RfResetValue
  BY DEF Init, rf_nxt
<1>3. csr_nxt = CsrResetValue
  BY DEF Init, csr_nxt, csr_write_v, CsrResetValue
<1> QED
  BY <1>1, <1>2, <1>3, SharedNames
  DEF Machine!IsaInit, Init, Machine!RfResetValue, RfResetValue, Machine!CsrResetValue,
      CsrResetValue

\* A squashed edge is a stutter, the mode included.
LEMMA SquashedStutters ==
  ASSUME CoreInv, Posedge, ~Commit, ~ShadowReturn
  PROVE  UNCHANGED Machine!isaVars
<1> USE DEF CoreInv
<1>1. flush_v \/ Bubble
  BY DEF Commit, Edge, Posedge
<1>2. ~exception_nxt /\ ~wbk_v_nxt /\ ~csr_wbk_v_nxt /\ ~is_store
  BY <1>1, SquashedWritesNothing
<1>3. UNCHANGED <<ArchPc, rf_nxt, csr_nxt, ram>>
  BY <1>1, SquashedKeepsState
<1>4. core_mode_q' = core_mode_q
  <2>1. core_mode_q' = core_mode_nxt
    BY DEF Posedge, ExeEdge
  <2> QED
    BY <1>1, <1>2, <2>1, BubbleIsIdle DEF core_mode_nxt, ShadowReturn
<1> QED
  BY <1>3, <1>4 DEF Machine!isaVars

\* A store the reset interrupts has reached the memory as the machine's would
\* have, or not at all.
LEMMA InterruptedStore ==
  ASSUME CoreInv, reset_n
  PROVE  \/ ram_nxt = ram
         \/ /\ dec_instr_q \in Text[ArchPc] /\ ~Machine!Traps(dec_instr_q)
            /\ ram_nxt = Machine!MemAfter(dec_instr_q)
<1>1. CASE ~(adr_v_o /\ is_store)
  BY <1>1 DEF ram_nxt
<1>2. CASE adr_v_o /\ is_store
  <2>1. ~flush_v /\ ~exception_nxt
    BY <1>2 DEF adr_v_o, is_store, lsu_en
  <2>2. ~Bubble
    BY <1>2, BubbleIsIdle DEF CoreInv
  <2>3. Executing
    BY <2>1, <2>2 DEF CoreInv, Executing, OperandsInv
  <2>4. dec_instr_q \in Text[ArchPc]
    BY <2>2, <2>3, InExecute DEF Executing, StreamInv
  <2>5. ~Machine!Traps(dec_instr_q)
    BY <2>1, <2>3, TrapAgrees
  <2> QED
    BY <2>1, <2>3, <2>4, <2>5, StoreCommits
<1> QED
  BY <1>1, <1>2

\* The reset is that of the machine, wherever in the pipeline it falls.
LEMMA ResetMaps ==
  ASSUME CoreInv, AssertReset
  PROVE  Machine!Reset
<1>1. ArchPc' = ResetAdr
  BY DEF AssertReset, ArchPc
<1>2. rf_nxt' = RfResetValue
  BY DEF AssertReset, ExeReset, BanksReset, rf_nxt
<1>3. csr_nxt' = CsrResetValue
  <2>1. ~csr_wbk_v_q' /\ ~exception_q' /\ csr' = CsrResetValue
    BY DEF AssertReset, ExeReset, BanksReset
  <2> QED
    BY <2>1 DEF csr_nxt, csr_write_v, CsrResetValue
<1>4. core_mode_q' = 3
  BY DEF AssertReset, ExeReset
<1>5. ram' \in {ram} \union {Machine!MemAfter(i) : i \in {j \in Text[ArchPc] : ~Machine!Traps(j)}}
  BY InterruptedStore DEF AssertReset, BanksReset
<1> QED
  BY <1>1, <1>2, <1>3, <1>4, <1>5, SharedNames
  DEF Machine!Reset, Machine!RfResetValue, RfResetValue, Machine!CsrResetValue, CsrResetValue

\* Nothing moves when the reset rises.
LEMMA ReleaseStutters ==
  ASSUME CoreInv, ReleaseReset
  PROVE  UNCHANGED Machine!isaVars
<1>1. ArchPc' = ArchPc
  BY DEF CoreInv, PipelineInv, ResetDrains, ReleaseReset, ArchPc, ifVars
<1>2. rf_nxt' = rf_nxt /\ csr_nxt' = csr_nxt /\ ram' = ram /\ core_mode_q' = core_mode_q
  BY DEF ReleaseReset, wbkVars, trapVars, rf_nxt, csr_nxt, csr_write_v, TrapValue
<1> QED
  BY <1>1, <1>2 DEF Machine!isaVars

\* For every program that keeps out of the windows, the core implements the
\* sequential machine: every behaviour of the pipeline, resets at any instant
\* included, is one of a machine that executes one whole instruction at a time.
THEOREM CoreImplementsIsa == Spec /\ KeepsDistances => ImplementsIsa
<1>1. CoreInv /\ [Next]_vars /\ [Edge => ~InWindow]_vars => [Machine!IsaNext]_(Machine!isaVars)
  <2> SUFFICES ASSUME CoreInv, [Next]_vars, [Edge => ~InWindow]_vars
               PROVE  Machine!IsaNext \/ UNCHANGED Machine!isaVars
    OBVIOUS
  <2>1. CASE UNCHANGED vars
    BY <2>1 DEF vars, ifVars, decVars, wbkVars, trapVars, Machine!isaVars, ArchPc, Bubble, rf_nxt,
       csr_nxt, csr_write_v, TrapValue
  <2>2. CASE Posedge /\ vars' # vars
    <3>1. ~InWindow
      BY <2>2 DEF Edge, Posedge
    <3>2. CASE Commit
      BY <2>2, <3>1, <3>2, CommitExecutes DEF Machine!IsaNext
    <3>3. CASE ~Commit
      BY <2>2, <3>1, <3>3, SquashedStutters DEF InWindow
    <3> QED
      BY <3>2, <3>3
  <2>3. CASE AssertReset
    BY <2>3, ResetMaps DEF Machine!IsaNext
  <2>4. CASE ReleaseReset
    BY <2>4, ReleaseStutters
  <2> QED
    BY <2>1, <2>2, <2>3, <2>4 DEF Next
<1> QED
  BY <1>1, InitMaps, TypesHold, PipelineConsistent, StreamInOrder, OperandsKept, PTL
  DEF ImplementsIsa, KeepsDistances, Spec, CoreInv, Machine!IsaSpec
=============================================================================
