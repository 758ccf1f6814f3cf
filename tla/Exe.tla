-------------------------------- MODULE Exe --------------------------------
(***************************************************************************)
(* The execute stage (exe.sv): the wires it computes from the flops of     *)
(* decode, and what its own flops take at a rising edge of the clock.      *)
(***************************************************************************)
EXTENDS Registers

(***************************************************************************)
(* A redirection (taken branch, mret, sret, trap) squashes the two younger *)
(* instructions: the stage sees them in the two cycles after the one that  *)
(* redirected, when the flag is in *_q and then in *_dly1_q.               *)
(***************************************************************************)
\* Mutant: a trap squashes one instruction only.
flush_v_OneAfterTrap == branch_v_q \/ branch_v_dly1_q \/ exception_q

flush_v == branch_v_q \/ branch_v_dly1_q \/ exception_q \/ exception_dly1_q

unit      == unit_o(dec_instr_q)
operation == operation_o(dec_instr_q)

alu_en     == ALU \in unit
shifter_en == SFT \in unit
bu_en      == BU \in unit
\* Mutant: a squashed access reaches the memory.
lsu_en_Unflushed == LSU \in unit
lsu_en     == LSU \in unit /\ ~flush_v
is_store   == lsu_en /\ ST \in operation

(***************************************************************************)
(* Results of the units.                                                   *)
(***************************************************************************)
alu_res_data == alu_data_o(alu_en, operation, dec_rs1_data_q, dec_rs2_data_q)

shifter_res_data == shifter_data_o(shifter_en, operation, dec_rs1_data_q, dec_rs2_data_q)

branch_v == bu_branch_v(bu_en, operation, dec_rs1_data_q, dec_rs2_data_q,
                        unsign_extension_o(dec_instr_q))

bu_pc_res == bu_pc_nxt(bu_en, operation, dec_rs1_data_q, dec_rs2_data_q,
                       unsign_extension_o(dec_instr_q), immediat_o(dec_instr_q), dec_pc_q)

mem_adr == lsu_adr(lsu_en, dec_rs1_data_q, immediat_o(dec_instr_q))

load_data_i == ram[mem_adr - (mem_adr % 4)]

lsu_res_data == lsu_data_o(mem_adr, access_size_o(dec_instr_q),
                           unsign_extension_o(dec_instr_q), load_data_i)

(***************************************************************************)
(* Traps.                                                                  *)
(***************************************************************************)
pc_missaligned     == bu_pc_missaligned_o(bu_pc_res)
adr_missaligned    == lsu_adr_missaligned_o(mem_adr, access_size_o(dec_instr_q))
ld_adr_missaligned == adr_missaligned /\ ~is_store
st_adr_missaligned == adr_missaligned /\ is_store

\* Mutant: a squashed instruction traps.
exception_nxt_Unflushed ==
  \/ dec_illegal_inst_q
  \/ ebreak_o(dec_instr_q)
  \/ ecall_o(dec_instr_q)
  \/ pc_missaligned
  \/ ld_adr_missaligned
  \/ st_adr_missaligned

exception_nxt ==
  /\ ~flush_v
  /\ \/ dec_illegal_inst_q
     \/ ebreak_o(dec_instr_q)
     \/ ecall_o(dec_instr_q)
     \/ pc_missaligned
     \/ ld_adr_missaligned
     \/ st_adr_missaligned

\* Each cause is masked only by the one before it, and the causes are ORed.
illegal_inst_nxt       == dec_illegal_inst_q /\ ~pc_missaligned
breakpoint_nxt         == ebreak_o(dec_instr_q) /\ ~illegal_inst_nxt
ld_adr_missaligned_nxt == ld_adr_missaligned /\ ~breakpoint_nxt
st_adr_missaligned_nxt == st_adr_missaligned /\ ~ld_adr_missaligned_nxt
env_call_m_mode_nxt    == ecall_o(dec_instr_q) /\ ~st_adr_missaligned_nxt

cause_nxt == Or3(Mask(illegal_inst_nxt, 2),
                 Mask(breakpoint_nxt, 3),
                 Or3(Mask(ld_adr_missaligned_nxt, 4),
                     Mask(st_adr_missaligned_nxt, 6),
                     Mask(env_call_m_mode_nxt, 11)))

mtval_nxt == Or3(Mask(pc_missaligned, bu_pc_res),
                 Mask(breakpoint_nxt, dec_pc_q),
                 Mask(adr_missaligned, mem_adr))

\* mret and sret change the mode even when they are squashed.
core_mode_nxt ==
  IF exception_nxt THEN 3
  ELSE IF mret_o(dec_instr_q) THEN Mpp(Low(dec_rs2_data_q))
  ELSE IF sret_o(dec_instr_q) THEN 1
  ELSE core_mode_q

(***************************************************************************)
(* Memory request, redirection and write back.                             *)
(***************************************************************************)
adr_v_o == lsu_en /\ ~exception_nxt

\* Mutant: a branch in the shadow of a branch branches.
branch_v_nxt_Unflushed ==
  /\ branch_v \/ mret_o(dec_instr_q) \/ sret_o(dec_instr_q)
  /\ ~exception_nxt

branch_v_nxt ==
  /\ branch_v \/ mret_o(dec_instr_q) \/ sret_o(dec_instr_q)
  /\ ~flush_v
  /\ ~exception_nxt

pc_data_nxt == Or3(Mask(~exception_nxt, bu_pc_res),
                   Mask(exception_nxt, csr["mtvec"]),
                   Mask(mret_o(dec_instr_q), csr["mepc"]))

wbk_v_nxt == dec_wbk_v_q /\ ~flush_v /\ ~exception_nxt

wbk_data_nxt ==
  BitOr(Or3(Mask(alu_en /\ ~csr_wbk_o(dec_instr_q), alu_res_data),
            Mask(csr_wbk_o(dec_instr_q), Low(dec_rs2_data_q)),
            Mask(shifter_en, shifter_res_data)),
        BitOr(Mask(bu_en, bu_data_o(dec_pc_q)),
              Mask(lsu_en, lsu_res_data)))

\* Mutant: a squashed csr instruction writes.
csr_wbk_v_nxt_Unflushed == csr_wbk_o(dec_instr_q) /\ ~exception_nxt

csr_wbk_v_nxt == csr_wbk_o(dec_instr_q) /\ ~flush_v /\ ~exception_nxt

\* Mutant: the mstatus term of mret is not masked.
csr_data_nxt_Unmasked ==
  Or3(Mask(~csrrw_o(dec_instr_q) /\ ~mret_o(dec_instr_q), alu_res_data),
      Mask(csrrw_o(dec_instr_q), Low(dec_rs1_data_q)),
      MstatusMret(Low(dec_rs2_data_q)))

csr_data_nxt == Or3(Mask(~csrrw_o(dec_instr_q) /\ ~mret_o(dec_instr_q), alu_res_data),
                    Mask(csrrw_o(dec_instr_q), Low(dec_rs1_data_q)),
                    Mask(mret_o(dec_instr_q), MstatusMret(Low(dec_rs2_data_q))))

(***************************************************************************)
(* Flops.                                                                  *)
(***************************************************************************)
ExeEdge ==
  /\ wbk_v_q'          = wbk_v_nxt
  /\ wbk_adr_q'        = dec_instr_q.rd
  /\ wbk_data_q'       = wbk_data_nxt
  /\ csr_wbk_v_q'      = csr_wbk_v_nxt
  /\ csr_adr_q'        = wbk_csr_adr_o(dec_instr_q)
  /\ csr_data_q'       = csr_data_nxt
  /\ branch_v_q'       = branch_v_nxt
  /\ branch_v_dly1_q'  = branch_v_q
  /\ exception_q'      = exception_nxt
  /\ exception_dly1_q' = exception_q
  /\ pc_data_q'        = pc_data_nxt
  /\ core_mode_q'      = core_mode_nxt
  /\ cause_q'          = cause_nxt
  /\ mtval_q'          = mtval_nxt
  /\ mepc_q'           = dec_pc_q

\* exception_dly1_q is missing from the reset branch: it keeps its value.
ExeReset ==
  /\ wbk_v_q' = FALSE
  /\ wbk_adr_q' = 0
  /\ wbk_data_q' = 0
  /\ csr_wbk_v_q' = FALSE
  /\ csr_adr_q' = "other"
  /\ csr_data_q' = 0
  /\ branch_v_q' = FALSE
  /\ branch_v_dly1_q' = FALSE
  /\ exception_q' = FALSE
  /\ pc_data_q' = 0
  /\ core_mode_q' = 3
  /\ cause_q' = 0
  /\ mtval_q' = 0
  /\ mepc_q' = 0
  /\ UNCHANGED exception_dly1_q
=============================================================================
