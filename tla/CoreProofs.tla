----------------------------- MODULE CoreProofs -----------------------------
(***************************************************************************)
(* Theorems about the core, for every width of word, every instruction set *)
(* the decoder accepts and every program.                                  *)
(***************************************************************************)
EXTENDS CoreIsa, DatapathProofs

(***************************************************************************)
(* The wires of a state of the right type.                                 *)
(***************************************************************************)

\* The fields of an instruction word that reach an address or a data bus.
LEMMA PortTypes ==
  ASSUME NEW i \in Instr
  PROVE  /\ i.rd \in Regs /\ i.rs1 \in Regs /\ i.rs2 \in Regs
         /\ immediat_o(i) \in Word
         /\ wbk_csr_adr_o(i) \in CsrAdr
<1>1. WellFormed(i)
  BY InstrAssumption
<1>2. i.rs1 \in Word /\ 0 \in Word
  BY <1>1, RegsAssumption, WordIsExtended DEF WellFormed
<1>3. "mstatus" \in CsrAdr
  BY DEF CsrAdr, CsrFlops
<1> QED
  BY <1>1, <1>2, <1>3 DEF WellFormed, immediat_o, wbk_csr_adr_o

\* The results execute drives on its output buses.
LEMMA ExeTypes ==
  ASSUME TypeOK
  PROVE  /\ bu_pc_res \in Word
         /\ mem_adr \in Word
         /\ alu_res_data \in Word
         /\ wbk_data_nxt \in Word
         /\ csr_data_nxt \in Word
<1>1. dec_instr_q \in Instr /\ dec_pc_q \in Word
      /\ dec_rs1_data_q \in Extended /\ dec_rs2_data_q \in Extended
      /\ ram \in [Line -> Word]
  BY DEF TypeOK, DecTypeOK, StoreTypeOK
<1>2. immediat_o(dec_instr_q) \in Word
  BY <1>1, PortTypes
<1>3. Low(dec_rs1_data_q) \in Word /\ Low(dec_rs2_data_q) \in Word
  BY <1>1, LowType
<1>4. alu_res_data \in Word /\ shifter_res_data \in Word
  BY <1>1, AluType, ShifterType DEF alu_res_data, shifter_res_data
<1>5. bu_pc_res \in Word /\ bu_data_o(dec_pc_q) \in Word
  BY <1>1, <1>2, BuTypes DEF bu_pc_res
<1>6. mem_adr \in Word
  BY <1>1, <1>2, LsuAdrType DEF mem_adr
<1>7. lsu_res_data \in Word
  <2>1. load_data_i \in Word
    BY <1>1, <1>6, LineOfWord DEF load_data_i
  <2> QED
    BY <1>6, <2>1, LsuDataType DEF lsu_res_data
<1>8. wbk_data_nxt \in Word
  <2>1. \A c : /\ Mask(c, alu_res_data) \in Word
               /\ Mask(c, Low(dec_rs2_data_q)) \in Word
               /\ Mask(c, shifter_res_data) \in Word
               /\ Mask(c, bu_data_o(dec_pc_q)) \in Word
               /\ Mask(c, lsu_res_data) \in Word
    BY <1>3, <1>4, <1>5, <1>7, MaskType
  <2> QED
    BY <2>1, GateTypes, Or3Type DEF wbk_data_nxt
<1>9. csr_data_nxt \in Word
  <2>1. MstatusMret(Low(dec_rs2_data_q)) \in Word
    BY <1>3, MstatusAssumption
  <2>2. \A c : /\ Mask(c, alu_res_data) \in Word
               /\ Mask(c, Low(dec_rs1_data_q)) \in Word
               /\ Mask(c, MstatusMret(Low(dec_rs2_data_q))) \in Word
    BY <1>3, <1>4, <2>1, MaskType
  <2> QED
    BY <2>2, Or3Type DEF csr_data_nxt
<1> QED
  BY <1>4, <1>5, <1>6, <1>8, <1>9

\* What execute records of a trap, and where it redirects the fetch.
LEMMA TrapTypes ==
  ASSUME TypeOK
  PROVE  /\ cause_nxt \in Word
         /\ mtval_nxt \in Word
         /\ pc_data_nxt \in Word
         /\ core_mode_nxt \in 0 .. 3
<1>1. /\ dec_pc_q \in Word /\ bu_pc_res \in Word /\ mem_adr \in Word
      /\ csr["mtvec"] \in Word /\ csr["mepc"] \in Word
  BY ExeTypes DEF TypeOK, DecTypeOK, StoreTypeOK, CsrFlops
<1>2. {2, 3, 4, 6, 11} \subseteq Word
  BY Widths DEF Word
<1>3. cause_nxt \in Word
  <2>1. \A c, v : v \in {2, 3, 4, 6, 11} => Mask(c, v) \in Word
    BY <1>2, MaskType
  <2> QED
    BY <2>1, Or3Type DEF cause_nxt
<1>4. mtval_nxt \in Word
  <2>1. \A c : Mask(c, bu_pc_res) \in Word /\ Mask(c, dec_pc_q) \in Word
               /\ Mask(c, mem_adr) \in Word
    BY <1>1, MaskType
  <2> QED
    BY <2>1, Or3Type DEF mtval_nxt
<1>5. pc_data_nxt \in Word
  <2>1. \A c : Mask(c, bu_pc_res) \in Word /\ Mask(c, csr["mtvec"]) \in Word
               /\ Mask(c, csr["mepc"]) \in Word
    BY <1>1, MaskType
  <2> QED
    BY <2>1, Or3Type DEF pc_data_nxt
<1>6. core_mode_nxt \in 0 .. 3
  <2>1. Mpp(Low(dec_rs2_data_q)) \in 0 .. 3
    BY LowType, MstatusAssumption DEF TypeOK, DecTypeOK
  <2>2. core_mode_q \in 0 .. 3
    BY DEF TypeOK, TrapTypeOK
  <2> QED
    BY <2>1, <2>2 DEF core_mode_nxt
<1> QED
  BY <1>3, <1>4, <1>5, <1>6

\* The operands decode hands to execute.
LEMMA DecTypes ==
  ASSUME TypeOK
  PROVE  rs1_data_nxt \in Extended /\ rs2_data_nxt \in Extended
<1>1. /\ if_instr_q \in Instr /\ if_pc_q \in Word
      /\ rf \in [Regs -> Word] /\ csr \in [CsrFlops -> Word]
      /\ wbk_data_q \in Word /\ wbk_data_nxt \in Word /\ csr_data_nxt \in Word
  BY ExeTypes DEF TypeOK, IfTypeOK, WbkTypeOK, StoreTypeOK
<1>2. /\ if_instr_q.rs1 \in Regs /\ if_instr_q.rs2 \in Regs
      /\ immediat_o(if_instr_q) \in Word
  BY <1>1, PortTypes
<1>3. \A r \in Regs : reg_data(r) \in Word
  BY <1>1 DEF reg_data
<1>4. csr_operand \in Word
  BY <1>1, WordIsExtended DEF csr_operand, csr_data_i
<1>5. rs1_data \in Word /\ rs2_data \in Word
  <2>1. \A c : /\ Mask(c, reg_data(if_instr_q.rs1)) \in Word
               /\ Mask(c, reg_data(if_instr_q.rs2)) \in Word
               /\ Mask(c, immediat_o(if_instr_q)) \in Word
               /\ Mask(c, if_pc_q) \in Word
               /\ Mask(c, csr_operand) \in Word
    BY <1>1, <1>2, <1>3, <1>4, MaskType
  <2> QED
    BY <2>1, Or3Type DEF rs1_data, rs2_data
<1>6. \A w \in Word : \A u : w + SignBit(w, u) \in Extended
                         /\ (WORD - 1 - w) + SignBit(w, u) \in Extended
  BY Widths DEF SignBit, Word, Extended
<1>7. rs1_data_nxt \in Extended
  <2>1. \A w \in Word : \A u : SignBit(w, u) \in Int /\ w \in Int /\ WORD - 1 - w \in Int
    BY Widths DEF SignBit, Word
  <2> QED
    BY <1>5, <1>6, <2>1 DEF rs1_data_nxt
<1>8. rs2_data_nxt \in Extended
  <2> DEFINE e == rs2_data + SignBit(rs2_data, unsign_extension_o(if_instr_q))
  <2>1. e \in Extended
    BY <1>5, <1>6
  <2>2. (2 * WORD - e) % (2 * WORD) \in Extended
    <3>1. 2 * WORD - e \in Int /\ 2 * WORD \in Nat /\ 2 * WORD > 0
      BY <2>1, Widths DEF Extended
    <3> QED
      BY <3>1, ModRange DEF Extended
  <2> QED
    BY <2>1, <2>2 DEF rs2_data_nxt
<1> QED
  BY <1>7, <1>8

\* What the register file, the csr bank and the memory hold one edge later.
LEMMA BanksTypes ==
  ASSUME TypeOK
  PROVE  /\ rf_nxt \in [Regs -> Word]
         /\ csr_nxt \in [CsrFlops -> Word]
         /\ ram_nxt \in [Line -> Word]
<1>1. /\ rf \in [Regs -> Word] /\ csr \in [CsrFlops -> Word] /\ ram \in [Line -> Word]
      /\ wbk_data_q \in Word /\ csr_data_q \in Word
      /\ mepc_q \in Word /\ cause_q \in Word /\ mtval_q \in Word
      /\ dec_rs2_data_q \in Extended
  BY DEF TypeOK, DecTypeOK, WbkTypeOK, TrapTypeOK, StoreTypeOK
<1>2. rf_nxt \in [Regs -> Word]
  BY <1>1 DEF rf_nxt
<1>3. csr_nxt \in [CsrFlops -> Word]
  <2>1. DOMAIN TrapValue = {"mepc", "mcause", "mtval"}
        /\ \A c \in DOMAIN TrapValue : TrapValue[c] \in Word
    BY <1>1 DEF TrapValue
  <2>2. \A c \in DOMAIN TrapValue : BitOr(csr_data_q, TrapValue[c]) \in Word
    BY <1>1, <2>1, GateTypes
  <2> QED
    BY <1>1, <2>2, MstatusAssumption DEF csr_nxt
<1>4. ram_nxt \in [Line -> Word]
  <2>1. mem_adr \in Word /\ Low(dec_rs2_data_q) \in Word
    BY <1>1, ExeTypes, LowType
  <2>2. mem_adr - (mem_adr % 4) \in Line
    BY <2>1, LineOfWord
  <2>3. StoreMerge(ram[mem_adr - (mem_adr % 4)], mem_adr, access_size_o(dec_instr_q),
                   Low(dec_rs2_data_q)) \in Word
    BY <1>1, <2>1, <2>2, StoreMergeType
  <2> QED
    BY <1>1, <2>2, <2>3 DEF ram_nxt
<1> QED
  BY <1>2, <1>3, <1>4

(***************************************************************************)
(* Types.                                                                  *)
(***************************************************************************)

\* Every flop starts at a value of its type.
LEMMA TypesInit ==
  ASSUME Init
  PROVE  TypeOK
<1>1. ZeroInstr \in Instr /\ 0 \in Word /\ 0 \in Extended /\ 0 \in Regs /\ "other" \in CsrAdr
  BY InstrAssumption, WordIsExtended, RegsAssumption DEF CsrAdr
<1>2. RfResetValue \in [Regs -> Word] /\ CsrResetValue \in [CsrFlops -> Word]
  BY <1>1, MstatusAssumption DEF RfResetValue, CsrResetValue
<1>3. IfTypeOK /\ DecTypeOK
  BY <1>1 DEF Init, IfTypeOK, DecTypeOK
<1>4. WbkTypeOK
  BY <1>1 DEF Init, WbkTypeOK
<1>5. TrapTypeOK
  BY <1>1 DEF Init, TrapTypeOK
<1>6. StoreTypeOK
  BY <1>2, RamAssumption DEF Init, StoreTypeOK
<1>7. reset_n \in BOOLEAN
  BY DEF Init
<1> QED
  BY <1>3, <1>4, <1>5, <1>6, <1>7 DEF TypeOK

\* Each event of the core, an edge or a reset, keeps every flop within its type.
LEMMA TypesNext ==
  ASSUME TypeOK, [Next]_vars
  PROVE  TypeOK'
<1>1. CASE Posedge
  <2>1. IfTypeOK'
    <3>1. pc_fetched_nxt \in Word
      <4>1. (if_pc_q + 4) % WORD \in Word
        BY WrapType DEF TypeOK, IfTypeOK, Word
      <4> QED
        BY <4>1, ResetAssumption DEF pc_fetched_nxt, TypeOK, WbkTypeOK
    <3> QED
      BY <1>1, <3>1, TextAssumption DEF Posedge, IfetchEdge, IfTypeOK, TypeOK
  <2>2. DecTypeOK'
    <3>1. rd_v_nxt \in BOOLEAN /\ illegal_inst_q_nxt \in BOOLEAN
      BY DEF rd_v_nxt, illegal_inst_q_nxt
    <3> QED
      BY <1>1, <3>1, DecTypes DEF Posedge, DecEdge, DecTypeOK, TypeOK, IfTypeOK
  <2>3. WbkTypeOK'
    <3>1. dec_instr_q.rd \in Regs /\ wbk_csr_adr_o(dec_instr_q) \in CsrAdr
      BY PortTypes DEF TypeOK, DecTypeOK
    <3>2. /\ wbk_v_nxt \in BOOLEAN /\ csr_wbk_v_nxt \in BOOLEAN
          /\ branch_v_nxt \in BOOLEAN /\ exception_nxt \in BOOLEAN
      BY DEF wbk_v_nxt, csr_wbk_v_nxt, branch_v_nxt, exception_nxt
    <3> QED
      BY <1>1, <3>1, <3>2, ExeTypes, TrapTypes DEF Posedge, ExeEdge, WbkTypeOK, TypeOK
  <2>4. TrapTypeOK'
    BY <1>1, TrapTypes DEF Posedge, ExeEdge, TrapTypeOK, TypeOK, DecTypeOK
  <2>5. StoreTypeOK'
    BY <1>1, BanksTypes DEF Posedge, BanksEdge, StoreTypeOK
  <2> QED
    BY <1>1, <2>1, <2>2, <2>3, <2>4, <2>5 DEF Posedge, TypeOK
<1>2. CASE AssertReset
  <2>1. ZeroInstr \in Instr /\ 0 \in Word /\ 0 \in Extended /\ 0 \in Regs /\ "other" \in CsrAdr
    BY InstrAssumption, WordIsExtended, RegsAssumption DEF CsrAdr
  <2>2. IfTypeOK' /\ DecTypeOK'
    BY <1>2, <2>1 DEF AssertReset, IfetchReset, DecReset, IfTypeOK, DecTypeOK
  <2>3. WbkTypeOK'
    <3>1. exception_dly1_q' \in BOOLEAN
      BY <1>2 DEF AssertReset, ExeReset, TypeOK, WbkTypeOK
    <3> QED
      BY <1>2, <2>1, <3>1 DEF AssertReset, ExeReset, WbkTypeOK
  <2>4. TrapTypeOK'
    BY <1>2, <2>1 DEF AssertReset, ExeReset, TrapTypeOK
  <2>5. StoreTypeOK'
    <3>1. RfResetValue \in [Regs -> Word] /\ CsrResetValue \in [CsrFlops -> Word]
      BY <2>1, MstatusAssumption DEF RfResetValue, CsrResetValue
    <3> QED
      BY <1>2, <3>1, BanksTypes DEF AssertReset, BanksReset, StoreTypeOK, TypeOK
  <2> QED
    BY <1>2, <2>2, <2>3, <2>4, <2>5 DEF AssertReset, TypeOK
<1>3. CASE ReleaseReset
  BY <1>3 DEF ReleaseReset, ifVars, decVars, wbkVars, trapVars, TypeOK, IfTypeOK, DecTypeOK,
              WbkTypeOK, TrapTypeOK, StoreTypeOK
<1>4. CASE UNCHANGED vars
  BY <1>4 DEF vars, ifVars, decVars, wbkVars, trapVars, TypeOK, IfTypeOK, DecTypeOK,
              WbkTypeOK, TrapTypeOK, StoreTypeOK
<1> QED
  BY <1>1, <1>2, <1>3, <1>4 DEF Next

\* Every flop of the core keeps the width it is declared with: no carry,
\* extension or lane of the datapath leaves its bus.
THEOREM TypesHold == Spec => []TypeOK
<1>1. Init => TypeOK
  BY TypesInit
<1>2. TypeOK /\ [Next]_vars => TypeOK'
  BY TypesNext
<1> QED
  BY <1>1, <1>2, PTL DEF Spec

(***************************************************************************)
(* Pipeline control.                                                       *)
(***************************************************************************)

\* The all-zero word does nothing in any unit.
LEMMA ZeroInstrIsIdle ==
  /\ unit_o(ZeroInstr) = {}
  /\ ~ebreak_o(ZeroInstr) /\ ~ecall_o(ZeroInstr)
  /\ ~mret_o(ZeroInstr) /\ ~sret_o(ZeroInstr)
  /\ ~wbk_v_o(ZeroInstr) /\ ~csr_wbk_o(ZeroInstr)
BY DEF ZeroInstr, unit_o, ebreak_o, ecall_o, mret_o, sret_o, wbk_v_o, csr_wbk_o, LoadNames,
       CsrNames, CsrImmediate, ALU, SFT, BU, LSU

\* The fence is the one legal word of its opcode.
LEMMA FenceName ==
  ASSUME NEW i, WellFormed(i), i.name # "illegal"
  PROVE  i.opc = "FENCE" <=> i.name = "fence"
BY DEF WellFormed, Opcodes, NamesOf, LoadNames, Branches, CsrNames, CsrImmediate

\* Outside the branch unit there is no target, so no misaligned one; outside
\* the load-store unit, and without a size, no misaligned address.
LEMMA IdleUnits ==
  /\ ~bu_en => ~branch_v /\ bu_pc_res = 0 /\ ~pc_missaligned
  /\ ~lsu_en => mem_adr = 0 /\ ~adr_missaligned /\ ~is_store
  /\ access_size_o(dec_instr_q) = 0 => ~adr_missaligned
<1>1. ~bu_en => ~branch_v /\ bu_pc_res = 0 /\ ~pc_missaligned
  BY DEF branch_v, bu_branch_v, bu_pc_res, bu_pc_nxt, pc_missaligned, bu_pc_missaligned_o
<1>2. ~lsu_en => mem_adr = 0 /\ ~adr_missaligned /\ ~is_store
  BY DEF mem_adr, lsu_adr, adr_missaligned, lsu_adr_missaligned_o, is_store
<1>3. access_size_o(dec_instr_q) = 0 => ~adr_missaligned
  BY DEF adr_missaligned, lsu_adr_missaligned_o
<1> QED
  BY <1>1, <1>2, <1>3

\* A bubble neither redirects nor writes.
LEMMA BubbleIsIdle ==
  ASSUME PipelineInv, Bubble
  PROVE  /\ ~exception_nxt /\ ~branch_v_nxt /\ ~wbk_v_nxt /\ ~csr_wbk_v_nxt /\ ~is_store
         /\ core_mode_nxt = core_mode_q
<1>1. ~bu_en /\ ~lsu_en
  BY ZeroInstrIsIdle DEF Bubble, bu_en, lsu_en, unit
<1>2. ~dec_wbk_v_q
  BY ZeroInstrIsIdle DEF PipelineInv, FlagsAreDecoded, Bubble
<1>3. ~exception_nxt /\ ~branch_v_nxt /\ ~wbk_v_nxt /\ ~csr_wbk_v_nxt /\ ~is_store
  BY <1>1, <1>2, IdleUnits, ZeroInstrIsIdle
  DEF Bubble, exception_nxt, branch_v_nxt, wbk_v_nxt, csr_wbk_v_nxt, ld_adr_missaligned,
      st_adr_missaligned
<1> QED
  BY <1>3, ZeroInstrIsIdle DEF Bubble, core_mode_nxt

\* Nothing is in flight before the first edge.
LEMMA PipelineInit == Init => PipelineInv
BY DEF Init, PipelineInv, ResetDrains, RedirectsOnce, FlagsAreDecoded, Bubble

\* An edge and a reset at any instant keep the control consistent.
LEMMA PipelineNext ==
  ASSUME PipelineInv, [Next]_vars
  PROVE  PipelineInv'
<1>1. CASE Posedge
  <2>1. ResetDrains'
    BY <1>1 DEF Posedge, IfetchEdge, DecEdge, ResetDrains
  <2>2. RedirectsOnce'
    <3>1. /\ branch_v_q' = branch_v_nxt /\ branch_v_dly1_q' = branch_v_q
          /\ exception_q' = exception_nxt /\ exception_dly1_q' = exception_q
      BY <1>1 DEF Posedge, ExeEdge
    <3>2. /\ branch_v_nxt => ~flush_v /\ ~exception_nxt
          /\ exception_nxt => ~flush_v
      BY DEF branch_v_nxt, exception_nxt
    <3> QED
      BY <3>1, <3>2 DEF PipelineInv, RedirectsOnce, flush_v
  <2>3. FlagsAreDecoded'
    BY <1>1 DEF Posedge, DecEdge, FlagsAreDecoded, illegal_inst_q_nxt, rd_v_nxt
  <2> QED
    BY <2>1, <2>2, <2>3 DEF PipelineInv
<1>2. CASE AssertReset
  BY <1>2 DEF AssertReset, IfetchReset, DecReset, ExeReset, PipelineInv, ResetDrains,
              RedirectsOnce, FlagsAreDecoded, Bubble
<1>3. CASE ReleaseReset
  BY <1>3 DEF ReleaseReset, ifVars, decVars, wbkVars, PipelineInv, ResetDrains,
              RedirectsOnce, FlagsAreDecoded, Bubble
<1>4. CASE UNCHANGED vars
  BY <1>4 DEF vars, ifVars, decVars, wbkVars, PipelineInv, ResetDrains, RedirectsOnce,
              FlagsAreDecoded, Bubble
<1> QED
  BY <1>1, <1>2, <1>3, <1>4 DEF Next

\* The control of the pipeline is consistent at every instant: the stages leave
\* the reset together, with nothing in flight, and at most one redirection is
\* under way, wherever the reset falls.
THEOREM PipelineConsistent == Spec => []PipelineInv
<1>1. Init => PipelineInv
  BY PipelineInit
<1>2. PipelineInv /\ [Next]_vars => PipelineInv'
  BY PipelineNext
<1> QED
  BY <1>1, <1>2, PTL DEF Spec

\* A squashed branch shadow is never forwarded: the trap is the only event
\* whose flush leaves a phantom result on the forward path.
THEOREM BranchShadowIsNeverForwarded == Spec => []BranchShadowForwardsNothing
<1> DEFINE Inv == branch_v_dly1_q => ~dec_wbk_v_q
<1>1. Init => Inv
  BY DEF Init
<1>2. Inv /\ [Next]_vars => Inv'
  BY DEF Next, Posedge, ExeEdge, DecEdge, rd_v_nxt, AssertReset, ExeReset, ReleaseReset,
         vars, decVars, wbkVars
<1>3. Inv => BranchShadowForwardsNothing
  BY DEF BranchShadowForwardsNothing, exe_ff_match
<1> QED
  BY <1>1, <1>2, <1>3, PTL DEF Spec

(***************************************************************************)
(* Traps.                                                                  *)
(***************************************************************************)

\* The line of the decoder a word matches tells its opcode.
LEMMA NameTellsOpcode ==
  ASSUME NEW i, WellFormed(i)
  PROVE  /\ i.name \in {"add", "sub", "slt", "sltu", "and", "or", "xor", "sll", "srl", "sra"}
              => i.opc = "R"
         /\ i.name \in {"addi", "slti", "sltiu", "andi", "ori", "xori", "slli", "srli", "srai"}
              => i.opc = "I"
         /\ i.name \in LoadNames => i.opc = "L"
         /\ i.name \in {"sw", "sh", "sb"} => i.opc = "S"
         /\ i.name \in Branches => i.opc = "B"
         /\ i.name = "lui" => i.opc = "U"
         /\ i.name = "auipc" => i.opc = "AUIPC"
         /\ i.name = "jal" => i.opc = "JAL"
         /\ i.name = "jalr" => i.opc = "JALR"
         /\ i.name \in CsrNames \union {"ecall", "ebreak", "mret", "sret"} => i.opc = "P"
<1> USE DEF LoadNames, CsrNames, CsrImmediate, Branches
<1>1. i.opc \in Opcodes /\ i.name \in NamesOf(i.opc)
  BY DEF WellFormed
<1>2. CASE i.opc \in {"L", "S", "P"}
  <2>1. NamesOf("L") = LoadNames \union {"ld", "illegal"}
    BY DEF NamesOf
  <2>2. NamesOf("S") = {"sw", "sh", "sb", "sd", "illegal"}
    BY DEF NamesOf
  <2>3. NamesOf("P")
          = CsrNames \union {"ecall", "ebreak", "mret", "sret", "nop", "illegal"}
    BY DEF NamesOf
  <2> QED
    BY <1>1, <1>2, <2>1, <2>2, <2>3
<1>3. CASE i.opc \in {"R", "I"}
  <2>1. NamesOf("R") = {"add", "sub", "sll", "slt", "sltu", "xor", "srl", "sra", "or", "and",
          "mul", "mulh", "mulhsu", "mulhu", "div", "divu", "rem", "remu", "illegal"}
    BY DEF NamesOf
  <2>2. NamesOf("I") = {"addi", "slti", "sltiu", "xori", "ori", "andi", "slli", "srli",
          "srai", "illegal"}
    BY DEF NamesOf
  <2> QED
    BY <1>1, <1>3, <2>1, <2>2
<1>4. CASE i.opc \in {"B", "U", "AUIPC", "JAL", "JALR", "FENCE", "other"}
  <2>1. NamesOf("B") = Branches \union {"illegal"} /\ NamesOf("FENCE") = {"fence", "illegal"}
    BY DEF NamesOf
  <2>2. /\ NamesOf("U") = {"lui"} /\ NamesOf("AUIPC") = {"auipc"}
        /\ NamesOf("JAL") = {"jal"} /\ NamesOf("JALR") = {"jalr"}
        /\ NamesOf("other") = {"illegal"}
    BY DEF NamesOf
  <2> QED
    BY <1>1, <1>4, <2>1, <2>2
<1> QED
  BY <1>1, <1>2, <1>3, <1>4 DEF Opcodes

\* The decoder enables one unit at most.
LEMMA OneUnit ==
  ASSUME NEW i, WellFormed(i), NEW u \in unit_o(i), NEW v \in unit_o(i)
  PROVE  u = v
<1>1. LSU \in unit_o(i) => i.opc \in {"L", "S"}
  BY NameTellsOpcode DEF unit_o, LSU, BU, SFT, ALU
<1>2. BU \in unit_o(i) => i.opc \in {"B", "JAL", "JALR"}
  BY DEF unit_o, LSU, BU, SFT, ALU
<1>3. SFT \in unit_o(i) => i.opc \in {"R", "I"} /\ i.name \in Shifts
  BY DEF unit_o, LSU, BU, SFT, ALU
<1>4. ALU \in unit_o(i) => \/ i.opc \in {"R", "I"} /\ i.name \notin Shifts
                           \/ i.opc \in {"U", "AUIPC", "P"}
  BY NameTellsOpcode DEF unit_o, LSU, BU, SFT, ALU
<1>5. unit_o(i) \subseteq {ALU, SFT, BU, LSU}
  BY DEF unit_o
<1> QED
  BY <1>1, <1>2, <1>3, <1>4, <1>5

\* What each reason to trap says of the instruction in execute.
LEMMA ReasonTellsName ==
  ASSUME TypeOK, PipelineInv
  PROVE  /\ pc_missaligned => bu_en /\ dec_instr_q.name # "illegal"
         /\ dec_illegal_inst_q => dec_instr_q.name = "illegal"
         /\ adr_missaligned => /\ lsu_en
                               /\ dec_instr_q.name \in LoadNames \union {"sw", "sh", "sb"}
<1>1. dec_illegal_inst_q => dec_instr_q.name = "illegal"
  BY DEF PipelineInv, FlagsAreDecoded, illegal_inst_o
<1>2. pc_missaligned => bu_en /\ branch_v
  BY IdleUnits DEF pc_missaligned, bu_pc_missaligned_o, bu_pc_res, bu_pc_nxt, branch_v
<1>3. ASSUME bu_en, branch_v PROVE dec_instr_q.name # "illegal"
  <2>1. dec_instr_q.opc \in {"B", "JAL", "JALR"}
    BY <1>3 DEF bu_en, unit, unit_o, ALU, SFT, BU, LSU
  <2>2. operation # {}
    BY <1>3 DEF branch_v, bu_branch_v
  <2> QED
    BY <2>1, <2>2 DEF operation, operation_o, LoadNames
<1>4. adr_missaligned => lsu_en /\ access_size_o(dec_instr_q) # 0
  BY IdleUnits
<1>5. access_size_o(dec_instr_q) # 0
        => dec_instr_q.name \in LoadNames \union {"sw", "sh", "sb"}
  BY DEF access_size_o, LoadNames
<1> QED
  BY <1>1, <1>2, <1>3, <1>4, <1>5

\* The units and the reasons to trap are one-hot.
LEMMA OneHotHolds == ASSUME TypeOK, PipelineInv PROVE OneHot
<1>1. WellFormed(dec_instr_q)
  BY InstrAssumption DEF TypeOK, DecTypeOK
<1>2. \A u, v \in unit : u = v
  BY <1>1, OneUnit DEF unit
<1>3. bu_en => ~lsu_en
  BY <1>2 DEF bu_en, lsu_en, BU, LSU
<1>4. bu_en => dec_instr_q.opc # "P"
  BY DEF bu_en, unit, unit_o, ALU, SFT, BU, LSU
<1>5. /\ ebreak_o(dec_instr_q) => dec_instr_q.name = "ebreak" /\ dec_instr_q.opc = "P"
      /\ ecall_o(dec_instr_q) => dec_instr_q.name = "ecall" /\ dec_instr_q.opc = "P"
  BY <1>1, NameTellsOpcode DEF ebreak_o, ecall_o
<1>6. ld_adr_missaligned \/ st_adr_missaligned
        => /\ lsu_en
           /\ dec_instr_q.name \notin {"illegal", "ebreak", "ecall"}
  BY ReasonTellsName DEF ld_adr_missaligned, st_adr_missaligned, LoadNames
<1>7. ~(ld_adr_missaligned /\ st_adr_missaligned)
  BY DEF ld_adr_missaligned, st_adr_missaligned
<1>8. pc_missaligned => /\ ~lsu_en
                        /\ dec_instr_q.opc # "P"
                        /\ dec_instr_q.name # "illegal"
  BY <1>3, <1>4, ReasonTellsName
<1>9. dec_illegal_inst_q => dec_instr_q.name = "illegal"
  BY ReasonTellsName
<1>10. \A s, t \in TrapReasons : s = t
  BY <1>5, <1>6, <1>7, <1>8, <1>9 DEF TrapReasons
<1> QED
  BY <1>2, <1>10 DEF OneHot

\* No instruction sets two units, and none has two reasons to trap: the ORs of
\* exe.sv select one result, one cause and one value, whatever the priorities.
THEOREM SelectionsAreOneHot == Spec => []OneHot
BY TypesHold, PipelineConsistent, OneHotHolds, PTL

\* An instruction that traps leaves the csr data bus at zero.
LEMMA TrapsDriveNothing ==
  ASSUME TypeOK, PipelineInv, exception_nxt
  PROVE  csr_data_nxt = 0 /\ ~csr_wbk_v_nxt
<1>1. WellFormed(dec_instr_q)
  BY InstrAssumption DEF TypeOK, DecTypeOK
<1>2. dec_instr_q.name \notin CsrNames \union {"mret"}
  <2>1. CASE pc_missaligned
    <3>1. dec_instr_q.opc # "P"
      BY <2>1, ReasonTellsName DEF bu_en, unit, unit_o, ALU, SFT, BU, LSU
    <3> QED
      BY <1>1, <3>1, NameTellsOpcode
  <2>2. CASE dec_illegal_inst_q
    BY <2>2, ReasonTellsName DEF CsrNames, CsrImmediate
  <2>3. CASE ebreak_o(dec_instr_q) \/ ecall_o(dec_instr_q)
    BY <2>3 DEF ebreak_o, ecall_o, CsrNames, CsrImmediate
  <2>4. CASE adr_missaligned
    BY <2>4, ReasonTellsName DEF LoadNames, CsrNames, CsrImmediate
  <2> QED
    BY <2>1, <2>2, <2>3, <2>4 DEF exception_nxt, ld_adr_missaligned, st_adr_missaligned
<1>3. ~csrrw_o(dec_instr_q) /\ ~mret_o(dec_instr_q)
  BY <1>2 DEF csrrw_o, mret_o, CsrNames, CsrImmediate
<1>4. alu_res_data = 0
  <2>1. CASE ~alu_en
    BY <2>1 DEF alu_res_data, alu_data_o
  <2>2. CASE alu_en
    <3>1. dec_instr_q.opc \in {"R", "I", "U", "AUIPC"}
      BY <1>2, <2>2 DEF alu_en, unit, unit_o, ALU, SFT, BU, LSU
    <3>2. dec_illegal_inst_q
      <4>1. ~bu_en /\ ~adr_missaligned
        BY <1>1, <2>2, OneUnit, ReasonTellsName DEF alu_en, bu_en, lsu_en, unit, ALU, BU, LSU
      <4>2. ~ebreak_o(dec_instr_q) /\ ~ecall_o(dec_instr_q)
        BY <1>1, <3>1, NameTellsOpcode DEF ebreak_o, ecall_o
      <4> QED
        BY <4>1, <4>2, ReasonTellsName
        DEF exception_nxt, ld_adr_missaligned, st_adr_missaligned
    <3>3. operation = {}
      BY <3>1, <3>2, ReasonTellsName DEF operation, operation_o, LoadNames
    <3> QED
      BY <3>3 DEF alu_res_data, alu_data_o
  <2> QED
    BY <2>1, <2>2
<1>5. csr_data_nxt = 0
  BY <1>3, <1>4, GateTypes, WordIsExtended DEF csr_data_nxt, Mask, Or3
<1> QED
  BY <1>5 DEF csr_wbk_v_nxt

\* When the csr bank records a trap, the csr data bus it ORs with the trap
\* values is zero, and no csr write competes with the trap.
THEOREM TrapBusStaysQuiet == Spec => []TrapBusIsQuiet
<1>1. Init => TrapBusIsQuiet
  BY DEF Init, TrapBusIsQuiet
<1>2. TypeOK /\ PipelineInv /\ TrapBusIsQuiet /\ [Next]_vars => TrapBusIsQuiet'
  <2> SUFFICES ASSUME TypeOK, PipelineInv, TrapBusIsQuiet, [Next]_vars PROVE TrapBusIsQuiet'
    OBVIOUS
  <2>1. CASE Posedge
    BY <2>1, TrapsDriveNothing DEF Posedge, ExeEdge, TrapBusIsQuiet
  <2>2. CASE AssertReset
    BY <2>2 DEF AssertReset, ExeReset, TrapBusIsQuiet
  <2>3. CASE ReleaseReset
    BY <2>3 DEF ReleaseReset, wbkVars, TrapBusIsQuiet
  <2>4. CASE UNCHANGED vars
    BY <2>4 DEF vars, wbkVars, TrapBusIsQuiet
  <2> QED
    BY <2>1, <2>2, <2>3, <2>4 DEF Next
<1> QED
  BY <1>1, <1>2, TypesHold, PipelineConsistent, PTL DEF Spec

(***************************************************************************)
(* Squashed instructions.                                                  *)
(***************************************************************************)

\* An edge that completes nothing has nothing to write.
LEMMA SquashedWritesNothing ==
  ASSUME TypeOK, PipelineInv, flush_v \/ Bubble
  PROVE  ~exception_nxt /\ ~branch_v_nxt /\ ~wbk_v_nxt /\ ~csr_wbk_v_nxt /\ ~is_store
<1>1. CASE flush_v
  BY <1>1 DEF exception_nxt, branch_v_nxt, wbk_v_nxt, csr_wbk_v_nxt, is_store, lsu_en
<1>2. CASE Bubble
  BY <1>2, BubbleIsIdle
<1> QED
  BY <1>1, <1>2

\* Such an edge only moves the architectural address through the pipeline:
\* from the redirection to the fetch, then from the fetch to decode.
LEMMA SquashedKeepsPc ==
  ASSUME TypeOK, PipelineInv, flush_v \/ Bubble, Posedge
  PROVE  ArchPc' = ArchPc
<1>1. /\ branch_v_q' = FALSE /\ exception_q' = FALSE
      /\ branch_v_dly1_q' = branch_v_q /\ exception_dly1_q' = exception_q
  BY SquashedWritesNothing DEF Posedge, ExeEdge, branch_v_nxt, exception_nxt
<1>2. /\ reset_n /\ reset_n' /\ if_reset_n_q'
      /\ if_pc_q' = pc_fetched_nxt /\ dec_instr_q' = if_instr_q /\ dec_pc_q' = if_pc_q
      /\ dec_illegal_inst_q' = illegal_inst_q_nxt
  BY DEF Posedge, IfetchEdge, DecEdge
<1>3. CASE ~if_reset_n_q
  <2>1. /\ if_instr_q = ZeroInstr /\ ~branch_v_q /\ ~exception_q /\ ~dec_reset_n_q
    BY <1>3 DEF PipelineInv, ResetDrains
  <2>2. Bubble'
    BY <1>2, <2>1 DEF Bubble, illegal_inst_q_nxt
  <2>3. if_pc_q' = ResetAdr
    BY <1>2, <1>3 DEF pc_fetched_nxt, end_reset_valid
  <2> QED
    BY <1>1, <1>2, <1>3, <2>1, <2>2, <2>3 DEF ArchPc
<1>4. CASE if_reset_n_q /\ (branch_v_q \/ exception_q)
  <2>1. if_pc_q' = pc_data_q
    BY <1>2, <1>4 DEF pc_fetched_nxt, end_reset_valid
  <2> QED
    BY <1>1, <1>2, <1>4, <2>1 DEF ArchPc
<1>5. CASE if_reset_n_q /\ ~branch_v_q /\ ~exception_q
  <2>1. dec_reset_n_q
    BY <1>5 DEF PipelineInv, ResetDrains
  <2>2. ~Bubble'
    <3>1. if_instr_q = ZeroInstr => illegal_inst_o(if_instr_q)
      BY DEF ZeroInstr, illegal_inst_o
    <3> QED
      BY <1>2, <2>1, <3>1 DEF Bubble, illegal_inst_q_nxt
  <2>3. ArchPc = if_pc_q
    BY <1>2, <1>5 DEF ArchPc, flush_v
  <2> QED
    BY <1>1, <1>2, <1>5, <2>2, <2>3 DEF ArchPc
<1> QED
  BY <1>3, <1>4, <1>5

\* Nor does it change a register, a csr or a memory word.
LEMMA SquashedKeepsState ==
  ASSUME TypeOK, PipelineInv, flush_v \/ Bubble, Posedge
  PROVE  UNCHANGED <<ArchPc, rf_nxt, csr_nxt, ram>>
<1>1. ~exception_nxt /\ ~wbk_v_nxt /\ ~csr_wbk_v_nxt /\ ~is_store
  BY SquashedWritesNothing
<1>2. ArchPc' = ArchPc
  BY SquashedKeepsPc
<1>3. rf_nxt' = rf_nxt
  BY <1>1 DEF Posedge, ExeEdge, BanksEdge, rf_nxt
<1>4. csr_nxt' = csr_nxt
  <2>1. ~csr_wbk_v_q' /\ ~exception_q' /\ csr' = csr_nxt
    BY <1>1 DEF Posedge, ExeEdge, BanksEdge
  <2>2. csr_nxt' = [c \in CsrFlops |-> csr'[c]]
    BY <2>1 DEF csr_nxt, csr_write_v
  <2> QED
    BY <2>1, <2>2, BanksTypes
<1>5. ram' = ram
  BY <1>1 DEF Posedge, BanksEdge, ram_nxt
<1> QED
  BY <1>2, <1>3, <1>4, <1>5

\* Whatever is in flight, an instruction in the shadow of a redirection, or a
\* cycle of the start-up, changes no register, csr or memory word and does not
\* divert the program, for every program and every interleaving of resets.
THEOREM SquashedLeaveNothing == Spec => SquashLeavesNothing
<1>1. TypeOK /\ PipelineInv /\ [Next]_vars
        => [Edge /\ ~Commit => UNCHANGED <<ArchPc, rf_nxt, csr_nxt, ram>>]_vars
  BY SquashedKeepsState DEF Next, AssertReset, ReleaseReset, Edge, Commit
<1> QED
  BY <1>1, TypesHold, PipelineConsistent, PTL DEF SquashLeavesNothing, Spec

-----------------------------------------------------------------------------
(***************************************************************************)
(* Decode gives execute the operands of program order, for every program   *)
(* and every width of word, outside the windows of CoreIsa.                *)
(***************************************************************************)

(***************************************************************************)
(* Extension to XLEN+1 bits.                                               *)
(***************************************************************************)

\* The vocabulary Isa shares with the core.
LEMMA SharedWords ==
  /\ Machine!HALF = HALF /\ Machine!WORD = WORD /\ Machine!Word = Word
  /\ \A w : Machine!Msb(w) = Msb(w)
<1>1. Machine!HALF = HALF
  BY DEF Machine!HALF, HALF
<1>2. Machine!WORD = WORD
  BY <1>1 DEF Machine!WORD, WORD
<1> QED
  BY <1>1, <1>2 DEF Machine!Word, Word, Machine!Msb, Msb

\* The extra bit decode adds makes the operand the signed, or the unsigned,
\* value of the word on XLEN+1 bits.
LEMMA SignBitExtends ==
  ASSUME NEW i, NEW w \in Word
  PROVE  /\ Extend(i, w) = w + SignBit(w, unsign_extension_o(i))
         /\ Extend(i, w) \in Extended
         /\ Low(Extend(i, w)) = w
<1>1. w \in Nat /\ w < WORD /\ WORD \in Nat /\ WORD > 0
  BY Widths DEF Word
<1>2. CASE SignBit(w, unsign_extension_o(i)) = 0
  <2>1. Extend(i, w) = w % (2 * WORD)
    BY <1>1, <1>2, SharedWords DEF Extend, SignBit, Machine!Signed
  <2>2. w % (2 * WORD) = w /\ w % WORD = w
    BY <1>1
  <2> QED
    BY <1>1, <1>2, <2>1, <2>2 DEF Extended, Low
<1>3. CASE SignBit(w, unsign_extension_o(i)) = WORD
  <2>1. Extend(i, w) = (w - WORD) % (2 * WORD)
    BY <1>1, <1>3, SharedWords DEF Extend, SignBit, Machine!Signed
  <2>2. (w - WORD) % (2 * WORD) = w + WORD /\ (w + WORD) % WORD = w
    BY <1>1
  <2> QED
    BY <1>1, <1>3, <2>1, <2>2 DEF Extended, Low
<1> QED
  BY <1>2, <1>3 DEF SignBit

\* Decode's other formats: the complement of a csr mask, which only the low
\* bits of are used, and the two's complement of a subtraction.
LEMMA ClearComplements ==
  ASSUME NEW w \in Word, NEW u
  PROVE  Low(SignBit(w, u) + (WORD - 1 - w)) = WORD - 1 - w
<1>1. w \in Nat /\ w < WORD /\ WORD \in Nat /\ WORD > 0
  BY Widths DEF Word
<1>2. (WORD - 1 - w) % WORD = WORD - 1 - w /\ (WORD + (WORD - 1 - w)) % WORD = WORD - 1 - w
  BY <1>1
<1>3. 0 + (WORD - 1 - w) = WORD - 1 - w
  BY <1>1
<1> QED
  BY <1>2, <1>3 DEF SignBit, Low

LEMMA Complements ==
  ASSUME NEW e \in Extended
  PROVE  (2 * WORD - e) % (2 * WORD) = (-e) % (2 * WORD)
BY Widths DEF Extended

(***************************************************************************)
(* Operand selection.                                                      *)
(***************************************************************************)

\* The multiplexers of decode select one source at most.
LEMMA OneSource ==
  ASSUME NEW i, WellFormed(i)
  PROVE  /\ rs1_is_immediat_o(i) => ~auipc_o(i) /\ ~rs1_v_o(i) /\ immediat_o(i) = i.rs1
         /\ auipc_o(i) => ~rs1_v_o(i)
         /\ rs2_is_csr_o(i) => ~rs2_is_immediat_o(i) /\ ~rs2_v_o(i)
         /\ rs2_is_immediat_o(i) => ~rs2_v_o(i) /\ immediat_o(i) = i.imm
<1>1. rs1_is_immediat_o(i) => i.opc = "P" /\ i.name \notin {"auipc", "csrrw", "csrrs", "csrrc", "fence"}
  BY NameTellsOpcode DEF rs1_is_immediat_o, CsrNames, CsrImmediate
<1>2. auipc_o(i) => i.opc = "AUIPC" /\ i.name \notin {"csrrw", "csrrs", "csrrc", "fence"}
  BY NameTellsOpcode DEF auipc_o
<1>3. rs2_is_csr_o(i) => i.opc = "P"
  BY NameTellsOpcode DEF rs2_is_csr_o
<1>4. rs2_is_immediat_o(i) => i.opc \in {"U", "AUIPC", "JALR", "I", "L"} /\ i.name \notin CsrImmediate
  BY NameTellsOpcode DEF rs2_is_immediat_o, CsrNames
<1> QED
  BY <1>1, <1>2, <1>3, <1>4
  DEF rs1_is_immediat_o, auipc_o, rs2_is_csr_o, rs2_is_immediat_o, rs1_v_o, rs2_v_o, immediat_o

\* An OR of three words of which two are masked off is the third.
LEMMA OneTerm ==
  ASSUME NEW a \in Word, NEW b \in Word, NEW c \in Word
  PROVE  /\ Or3(a, 0, 0) = a
         /\ Or3(0, b, 0) = b
         /\ Or3(0, 0, c) = c
         /\ Or3(0, 0, 0) = 0
BY GateTypes, WordIsExtended DEF Or3

(***************************************************************************)
(* Forwards.                                                               *)
(***************************************************************************)

\* The architectural registers one edge later: those of this edge, and the
\* result of the instruction in execute.
LEMMA RegistersNext ==
  ASSUME TypeOK, Posedge, NEW r \in Regs
  PROVE  rf_nxt'[r] = IF wbk_v_nxt /\ dec_instr_q.rd # 0 /\ dec_instr_q.rd = r
                      THEN wbk_data_nxt ELSE rf_nxt[r]
<1>1. rf_nxt \in [Regs -> Word]
  BY BanksTypes
<1>2. /\ rf' = rf_nxt /\ wbk_v_q' = wbk_v_nxt
      /\ wbk_adr_q' = dec_instr_q.rd /\ wbk_data_q' = wbk_data_nxt
  BY DEF Posedge, BanksEdge, ExeEdge
<1>3. rf_nxt' = IF wbk_v_nxt /\ dec_instr_q.rd # 0
                THEN [rf_nxt EXCEPT ![dec_instr_q.rd] = wbk_data_nxt] ELSE rf_nxt
  BY <1>2 DEF rf_nxt
<1> QED
  BY <1>1, <1>3

\* The same for a csr, when no trap is under way.
LEMMA CsrsNext ==
  ASSUME TypeOK, Posedge, ~exception_nxt, NEW c \in CsrFlops
  PROVE  csr_nxt'[c] = IF csr_wbk_v_nxt /\ wbk_csr_adr_o(dec_instr_q) = c
                       THEN IF c = "mstatus" THEN MSTATUS_M ELSE csr_data_nxt
                       ELSE csr_nxt[c]
<1>1. /\ csr' = csr_nxt /\ csr_wbk_v_q' = csr_wbk_v_nxt /\ exception_q' = FALSE
      /\ csr_adr_q' = wbk_csr_adr_o(dec_instr_q) /\ csr_data_q' = csr_data_nxt
  BY DEF Posedge, BanksEdge, ExeEdge, exception_nxt
<1> QED
  BY <1>1 DEF csr_nxt, csr_write_v

\* The instruction decode prepares will execute: no redirection is under way,
\* and the one in execute does not start one.
LEMMA WillExecute ==
  ASSUME Posedge, ~flush_v'
  PROVE  ~branch_v_q /\ ~exception_q /\ ~branch_v_nxt /\ ~exception_nxt
BY DEF flush_v, Posedge, ExeEdge

\* A register read in decode has the value of program order, wherever in the
\* pipeline its newest value is.
LEMMA RegisterForwarded ==
  ASSUME TypeOK, Posedge, ~flush_v', NEW r \in Regs, r # 0,
         ~(flush_v /\ exe_ff_match(r))
  PROVE  reg_data(r) = rf_nxt'[r]
<1>1. ~branch_v_q /\ ~exception_nxt
  BY WillExecute
<1>2. rf \in [Regs -> Word]
  BY DEF TypeOK, StoreTypeOK
<1>3. CASE exe_ff_match(r)
  BY <1>1, <1>3, RegistersNext DEF exe_ff_match, reg_data, wbk_v_nxt
<1>4. CASE ~exe_ff_match(r)
  <2>1. rf_nxt'[r] = rf_nxt[r]
    BY <1>1, <1>4, RegistersNext DEF exe_ff_match, wbk_v_nxt
  <2>2. rf_nxt[r] = IF r = wbk_adr_q /\ wbk_v_q THEN wbk_data_q ELSE rf[r]
    BY <1>2 DEF rf_nxt
  <2> QED
    BY <1>1, <1>4, <2>1, <2>2 DEF reg_data, rf_ff_match
<1> QED
  BY <1>3, <1>4

\* A csr read in decode has the value of program order, when neither the write
\* in execute nor the one behind it loses its way.
LEMMA CsrForwarded ==
  ASSUME TypeOK, Posedge, ~flush_v', rs2_is_csr_o(if_instr_q),
         ~PhantomCsr, ~LateCsr, ~RawCsr
  PROVE  csr_operand = IF wbk_csr_adr_o(if_instr_q) \in CsrFlops
                       THEN csr_nxt'[wbk_csr_adr_o(if_instr_q)] ELSE 0
<1> DEFINE c == wbk_csr_adr_o(if_instr_q)
<1>1. ~branch_v_q /\ ~exception_q /\ ~exception_nxt
  BY WillExecute
<1>2. CASE exe_ff_csr_adr_match
  <2>1. c \in CsrFlops /\ c # "mstatus"
    BY <1>2 DEF RawCsr
  <2>2. csr_wbk_v_nxt /\ wbk_csr_adr_o(dec_instr_q) = c
    BY <1>1, <1>2 DEF PhantomCsr, csr_wbk_v_nxt, exe_ff_csr_adr_match
  <2> QED
    BY <1>1, <1>2, <2>1, <2>2, CsrsNext DEF csr_operand
<1>3. CASE ~exe_ff_csr_adr_match
  <2>1. csr_operand = IF c \in CsrFlops THEN csr[c] ELSE 0
    BY <1>3 DEF csr_operand, csr_data_i
  <2>2. ~csr_write_v(c)
    BY <1>3 DEF LateCsr, csr_write_v
  <2>3. c \in CsrFlops => csr_nxt[c] = csr[c]
    BY <1>1, <2>2 DEF csr_nxt
  <2>4. c \in CsrFlops => csr_nxt'[c] = csr_nxt[c]
    BY <1>1, <1>3, CsrsNext DEF exe_ff_csr_adr_match, csr_wbk_v_nxt
  <2> QED
    BY <2>1, <2>3, <2>4
<1> QED
  BY <1>2, <1>3

(***************************************************************************)
(* Operands.                                                               *)
(***************************************************************************)
LEMMA SourceTypes ==
  ASSUME TypeOK
  PROVE  /\ WellFormed(if_instr_q) /\ immediat_o(if_instr_q) \in Word /\ if_pc_q \in Word
         /\ \A r \in Regs : reg_data(r) \in Word
         /\ csr_operand \in Word
<1>1. /\ if_instr_q \in Instr /\ if_pc_q \in Word
      /\ rf \in [Regs -> Word] /\ csr \in [CsrFlops -> Word]
      /\ wbk_data_q \in Word /\ wbk_data_nxt \in Word /\ csr_data_nxt \in Word
  BY ExeTypes DEF TypeOK, IfTypeOK, WbkTypeOK, StoreTypeOK
<1>2. \A r \in Regs : reg_data(r) \in Word
  BY <1>1 DEF reg_data
<1>3. csr_operand \in Word
  BY <1>1, WordIsExtended DEF csr_operand, csr_data_i
<1> QED
  BY <1>1, <1>2, <1>3, PortTypes, InstrAssumption

\* The first source decode selects is that of the sequential machine.
LEMMA FirstSource ==
  ASSUME TypeOK, Posedge, ~flush_v', ~PhantomRd
  PROVE  rs1_data \in Word /\ rs1_data = ArchSource1(dec_instr_q)'
<1> DEFINE i == if_instr_q
<1>1. dec_instr_q' = i /\ dec_pc_q' = if_pc_q
  BY DEF Posedge, DecEdge
<1>2. /\ WellFormed(i) /\ immediat_o(i) \in Word /\ if_pc_q \in Word /\ i.rs1 \in Regs
      /\ reg_data(i.rs1) \in Word
  BY SourceTypes DEF WellFormed
<1>3. rs1_v_o(i) => reg_data(i.rs1) = rf_nxt'[i.rs1]
  BY <1>2, RegisterForwarded DEF PhantomRd, rs1_v_o
<1>4. ArchSource1(dec_instr_q)' = CASE rs1_is_immediat_o(i) -> i.rs1
                                    [] auipc_o(i)           -> if_pc_q
                                    [] rs1_v_o(i)           -> rf_nxt'[i.rs1]
                                    [] OTHER                -> 0
  BY <1>1 DEF ArchSource1
<1>5. CASE rs1_is_immediat_o(i)
  BY <1>2, <1>4, <1>5, OneSource, OneTerm DEF rs1_data, Mask
<1>6. CASE ~rs1_is_immediat_o(i) /\ auipc_o(i)
  BY <1>2, <1>4, <1>6, OneSource, OneTerm DEF rs1_data, Mask
<1>7. CASE ~rs1_is_immediat_o(i) /\ ~auipc_o(i) /\ rs1_v_o(i)
  BY <1>2, <1>3, <1>4, <1>7, OneTerm DEF rs1_data, Mask
<1>8. CASE ~rs1_is_immediat_o(i) /\ ~auipc_o(i) /\ ~rs1_v_o(i)
  BY <1>4, <1>8, OneTerm, WordIsExtended DEF rs1_data, Mask
<1> QED
  BY <1>5, <1>6, <1>7, <1>8

\* So is the second.
LEMMA SecondSource ==
  ASSUME TypeOK, Posedge, ~flush_v', ~PhantomRd, ~PhantomCsr, ~LateCsr, ~RawCsr
  PROVE  rs2_data \in Word /\ rs2_data = ArchSource2(dec_instr_q)'
<1> DEFINE i == if_instr_q
           c == wbk_csr_adr_o(i)
<1>1. dec_instr_q' = i
  BY DEF Posedge, DecEdge
<1>2. /\ WellFormed(i) /\ immediat_o(i) \in Word /\ i.rs2 \in Regs
      /\ reg_data(i.rs2) \in Word /\ csr_operand \in Word
  BY SourceTypes DEF WellFormed
<1>3. rs2_v_o(i) => reg_data(i.rs2) = rf_nxt'[i.rs2]
  BY <1>2, RegisterForwarded DEF PhantomRd, rs2_v_o
<1>4. rs2_is_csr_o(i) => csr_operand = IF c \in CsrFlops THEN csr_nxt'[c] ELSE 0
  BY CsrForwarded
<1>5. ArchSource2(dec_instr_q)' = CASE rs2_is_csr_o(i)      -> IF c \in CsrFlops
                                                               THEN csr_nxt'[c] ELSE 0
                                    [] rs2_is_immediat_o(i) -> i.imm
                                    [] rs2_v_o(i)           -> rf_nxt'[i.rs2]
                                    [] OTHER                -> 0
  BY <1>1 DEF ArchSource2
<1>6. CASE rs2_is_csr_o(i)
  BY <1>2, <1>4, <1>5, <1>6, OneSource, OneTerm DEF rs2_data, Mask
<1>7. CASE ~rs2_is_csr_o(i) /\ rs2_is_immediat_o(i)
  BY <1>2, <1>5, <1>7, OneSource, OneTerm DEF rs2_data, Mask
<1>8. CASE ~rs2_is_csr_o(i) /\ ~rs2_is_immediat_o(i) /\ rs2_v_o(i)
  BY <1>2, <1>3, <1>5, <1>8, OneTerm DEF rs2_data, Mask
<1>9. CASE ~rs2_is_csr_o(i) /\ ~rs2_is_immediat_o(i) /\ ~rs2_v_o(i)
  BY <1>5, <1>9, OneTerm, WordIsExtended DEF rs2_data, Mask
<1> QED
  BY <1>6, <1>7, <1>8, <1>9

\* Outside the windows, an edge hands execute the operands of program order.
LEMMA OperandsHandedOver ==
  ASSUME TypeOK, Posedge, ~flush_v', ~(PhantomRd \/ PhantomCsr \/ LateCsr \/ RawCsr)
  PROVE  OperandsArchitectural'
<1> DEFINE i == if_instr_q
           a == ArchSource1(dec_instr_q)'
           b == ArchSource2(dec_instr_q)'
           u == unsign_extension_o(i)
<1>1. /\ dec_instr_q' = i
      /\ dec_rs1_data_q' = rs1_data_nxt /\ dec_rs2_data_q' = rs2_data_nxt
  BY DEF Posedge, DecEdge
<1>2. a \in Word /\ rs1_data = a /\ b \in Word /\ rs2_data = b
  BY FirstSource, SecondSource
<1>3. OperandsArchitectural'
        = /\ IF csr_clear_o(i) THEN Low(rs1_data_nxt) = WORD - 1 - a
                               ELSE rs1_data_nxt = Extend(i, a)
          /\ rs2_data_nxt = IF rs2_ca2_v_o(i) THEN (-Extend(i, b)) % (2 * WORD)
                                              ELSE Extend(i, b)
  BY <1>1 DEF OperandsArchitectural
<1> HIDE DEF a, b
<1>4. IF csr_clear_o(i) THEN Low(rs1_data_nxt) = WORD - 1 - a ELSE rs1_data_nxt = Extend(i, a)
  <2>1. rs1_data_nxt = SignBit(a, u) + IF csr_clear_o(i) THEN WORD - 1 - a ELSE a
    BY <1>2 DEF rs1_data_nxt
  <2>2. Extend(i, a) = a + SignBit(a, u) /\ a \in Int /\ SignBit(a, u) \in Int
    BY <1>2, SignBitExtends, Widths DEF Word, SignBit
  <2> QED
    BY <1>2, <2>1, <2>2, ClearComplements
<1>5. rs2_data_nxt = IF rs2_ca2_v_o(i) THEN (-Extend(i, b)) % (2 * WORD) ELSE Extend(i, b)
  <2>1. Extend(i, b) = b + SignBit(b, u) /\ Extend(i, b) \in Extended
    BY <1>2, SignBitExtends
  <2>2. rs2_data_nxt = IF rs2_ca2_v_o(i) THEN (2 * WORD - Extend(i, b)) % (2 * WORD)
                                         ELSE Extend(i, b)
    BY <1>2, <2>1 DEF rs2_data_nxt
  <2> QED
    BY <2>1, <2>2, Complements
<1> QED
  BY <1>3, <1>4, <1>5

\* For every program, whatever is in flight, an instruction that will execute
\* is given the register and csr values of program order, except in the four
\* windows in which the forwards of dec.sv are wrong.
THEOREM OperandsAreInOrder == Spec => OperandsInOrder
<1> DEFINE Window == PhantomRd \/ PhantomCsr \/ LateCsr \/ RawCsr
<1>1. TypeOK /\ [Next]_vars
        => [Edge /\ ~Window => (~flush_v /\ ~Bubble => OperandsArchitectural)']_vars
  <2> SUFFICES ASSUME TypeOK, Posedge, ~Window, ~flush_v'
               PROVE  OperandsArchitectural'
    BY DEF Next, AssertReset, ReleaseReset, Edge
  <2> QED
    BY OperandsHandedOver
<1> QED
  BY <1>1, TypesHold, PTL DEF OperandsInOrder, Spec
=============================================================================
