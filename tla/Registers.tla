----------------------------- MODULE Registers -----------------------------
(***************************************************************************)
(* Every flop of the core, with its value during reset and its type.       *)
(*                                                                         *)
(* The flops between decode and execute that only carry a decoder output   *)
(* (unit, operation, csr address, mret ...) are all functions of the       *)
(* instruction word decode saw, so that word is kept (dec_instr_q) and     *)
(* execute applies the decoder ports to it.  The flops decode masks or     *)
(* computes have a variable each.                                          *)
(***************************************************************************)
EXTENDS Datapath, Program

VARIABLES
  reset_n,
  \* ifetch
  if_reset_n_q, if_instr_q, if_pc_q,
  \* dec
  dec_reset_n_q, dec_instr_q, dec_pc_q, dec_wbk_v_q, dec_rs1_data_q, dec_rs2_data_q,
  dec_illegal_inst_q,
  \* exe: write back, csr write back, redirection
  wbk_v_q, wbk_adr_q, wbk_data_q, csr_wbk_v_q, csr_adr_q, csr_data_q,
  branch_v_q, branch_v_dly1_q, exception_q, exception_dly1_q, pc_data_q,
  \* exe: trap information
  core_mode_q, cause_q, mtval_q, mepc_q,
  \* register file, csr bank, memory
  rf, csr, ram

ifVars  == <<if_reset_n_q, if_instr_q, if_pc_q>>
decVars == <<dec_reset_n_q, dec_instr_q, dec_pc_q, dec_wbk_v_q, dec_rs1_data_q,
             dec_rs2_data_q, dec_illegal_inst_q>>
wbkVars == <<wbk_v_q, wbk_adr_q, wbk_data_q, csr_wbk_v_q, csr_adr_q, csr_data_q,
             branch_v_q, branch_v_dly1_q, exception_q, pc_data_q>>
trapVars == <<core_mode_q, cause_q, mtval_q, mepc_q>>
vars == <<reset_n, ifVars, decVars, wbkVars, exception_dly1_q, trapVars, rf, csr, ram>>

(***************************************************************************)
(* Types.                                                                  *)
(***************************************************************************)
IfTypeOK ==
  /\ if_reset_n_q \in BOOLEAN
  /\ if_instr_q \in Instr
  /\ if_pc_q \in Word

DecTypeOK ==
  /\ dec_reset_n_q \in BOOLEAN
  /\ dec_instr_q \in Instr
  /\ dec_pc_q \in Word
  /\ dec_wbk_v_q \in BOOLEAN
  /\ dec_rs1_data_q \in Extended
  /\ dec_rs2_data_q \in Extended
  /\ dec_illegal_inst_q \in BOOLEAN

WbkTypeOK ==
  /\ wbk_v_q \in BOOLEAN
  /\ wbk_adr_q \in Regs
  /\ wbk_data_q \in Word
  /\ csr_wbk_v_q \in BOOLEAN
  /\ csr_adr_q \in CsrAdr
  /\ csr_data_q \in Word
  /\ branch_v_q \in BOOLEAN
  /\ branch_v_dly1_q \in BOOLEAN
  /\ exception_q \in BOOLEAN
  /\ exception_dly1_q \in BOOLEAN
  /\ pc_data_q \in Word

TrapTypeOK ==
  /\ core_mode_q \in 0 .. 3
  /\ cause_q \in Word
  /\ mtval_q \in Word
  /\ mepc_q \in Word

StoreTypeOK ==
  /\ rf \in [Regs -> Word]
  /\ csr \in [CsrFlops -> Word]
  /\ ram \in [Line -> Word]

TypeOK ==
  /\ reset_n \in BOOLEAN
  /\ IfTypeOK
  /\ DecTypeOK
  /\ WbkTypeOK
  /\ TrapTypeOK
  /\ StoreTypeOK
=============================================================================
