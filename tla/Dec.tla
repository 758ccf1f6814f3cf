-------------------------------- MODULE Dec --------------------------------
(***************************************************************************)
(* The decode stage (dec.sv): reads the register file and the csr bank,    *)
(* replaces what they return by the results still in the pipeline (the     *)
(* forwards), formats both operands and hands them to execute.             *)
(***************************************************************************)
EXTENDS Exe

\* Mutant: the shadow of a branch keeps its write back.
rd_v_nxt_Unmasked == wbk_v_o(if_instr_q)

rd_v_nxt == wbk_v_o(if_instr_q) /\ ~branch_v_q

(***************************************************************************)
(* Forwards.  exe_ff takes the result of the instruction now in execute,   *)
(* rf_ff the one now writing the register file.  Only a branch masks them, *)
(* an exception does not; csrs have an exe_ff and no rf_ff.                *)
(***************************************************************************)
exe_ff_match(adr) == adr = dec_instr_q.rd /\ dec_wbk_v_q /\ ~branch_v_q

rf_ff_match(adr) == adr = wbk_adr_q /\ wbk_v_q /\ ~exe_ff_match(adr) /\ ~branch_v_q

exe_ff_csr_adr_match ==
  /\ wbk_csr_adr_o(if_instr_q) = wbk_csr_adr_o(dec_instr_q)
  /\ csr_wbk_o(dec_instr_q)
  /\ ~branch_v_q

\* Mutant: the older of two results wins.
reg_data_OldestFirst(adr) ==
  IF adr = wbk_adr_q /\ wbk_v_q /\ ~branch_v_q THEN wbk_data_q
  ELSE IF exe_ff_match(adr) THEN wbk_data_nxt
  ELSE rf[adr]

reg_data(adr) ==
  IF exe_ff_match(adr) THEN wbk_data_nxt
  ELSE IF rf_ff_match(adr) THEN wbk_data_q
  ELSE rf[adr]

\* csr.sv reads zero from every address it does not implement.
csr_data_i == LET adr == wbk_csr_adr_o(if_instr_q)
              IN  IF adr \in CsrFlops THEN csr[adr] ELSE 0

csr_operand == IF exe_ff_csr_adr_match THEN csr_data_nxt ELSE csr_data_i

(***************************************************************************)
(* Operands.                                                               *)
(***************************************************************************)
rs1_data == Or3(Mask(rs1_v_o(if_instr_q), reg_data(if_instr_q.rs1)),
                Mask(rs1_is_immediat_o(if_instr_q), immediat_o(if_instr_q)),
                Mask(auipc_o(if_instr_q), if_pc_q))

rs2_data == Or3(Mask(rs2_v_o(if_instr_q), reg_data(if_instr_q.rs2)),
                Mask(rs2_is_immediat_o(if_instr_q), immediat_o(if_instr_q)),
                Mask(rs2_is_csr_o(if_instr_q), csr_operand))

\* Mutant: an unsigned operand is sign-extended.
SignBit_AlwaysSigned(w, unsign) == IF Msb(w) THEN WORD ELSE 0

\* The extra bit is the sign of the value read, before any complement.
SignBit(w, unsign) == IF ~unsign /\ Msb(w) THEN WORD ELSE 0

rs1_data_nxt ==
  LET w == rs1_data
  IN  SignBit(w, unsign_extension_o(if_instr_q))
        + IF csr_clear_o(if_instr_q) THEN WORD - 1 - w ELSE w

\* Mutant: the complement of zero carries out of XLEN+1 bits.
rs2_data_nxt_CarryOut ==
  LET w        == rs2_data
      extended == w + SignBit(w, unsign_extension_o(if_instr_q))
  IN  IF rs2_ca2_v_o(if_instr_q) THEN 2 * WORD - extended ELSE extended

\* Two's complement on XLEN+1 bits.
rs2_data_nxt ==
  LET w        == rs2_data
      extended == w + SignBit(w, unsign_extension_o(if_instr_q))
  IN  IF rs2_ca2_v_o(if_instr_q) THEN (2 * WORD - extended) % (2 * WORD) ELSE extended

\* Without the mask, the zero word ifetch holds in reset would trap.
illegal_inst_q_nxt == illegal_inst_o(if_instr_q) /\ dec_reset_n_q

(***************************************************************************)
(* Flops.                                                                  *)
(***************************************************************************)
DecEdge ==
  /\ dec_reset_n_q'      = reset_n
  /\ dec_instr_q'        = if_instr_q
  /\ dec_pc_q'           = if_pc_q
  /\ dec_wbk_v_q'        = rd_v_nxt
  /\ dec_rs1_data_q'     = rs1_data_nxt
  /\ dec_rs2_data_q'     = rs2_data_nxt
  /\ dec_illegal_inst_q' = illegal_inst_q_nxt

DecReset ==
  /\ dec_reset_n_q' = FALSE
  /\ dec_instr_q' = ZeroInstr
  /\ dec_pc_q' = 0
  /\ dec_wbk_v_q' = FALSE
  /\ dec_rs1_data_q' = 0
  /\ dec_rs2_data_q' = 0
  /\ dec_illegal_inst_q' = FALSE
=============================================================================
