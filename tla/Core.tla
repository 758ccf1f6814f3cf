-------------------------------- MODULE Core --------------------------------
(***************************************************************************)
(* The core (core.sv): the four stages share one clock and one             *)
(* asynchronous, active-low reset.  A rising edge moves every flop at      *)
(* once; the reset may fall and rise at any time between two edges.        *)
(*                                                                         *)
(*    ifetch --instr--> dec --operands--> exe --results--> rf, csr         *)
(*       ^               ^-----forwards----| |                             *)
(*       +------------redirection------------+                             *)
(***************************************************************************)
EXTENDS Ifetch, Dec, Banks

Init ==
  /\ reset_n = FALSE
  /\ if_reset_n_q = FALSE /\ if_instr_q = ZeroInstr /\ if_pc_q = 0
  /\ dec_reset_n_q = FALSE /\ dec_instr_q = ZeroInstr /\ dec_pc_q = 0
  /\ dec_wbk_v_q = FALSE /\ dec_illegal_inst_q = FALSE
  /\ dec_rs1_data_q = 0 /\ dec_rs2_data_q = 0
  /\ wbk_v_q = FALSE /\ wbk_adr_q = 0 /\ wbk_data_q = 0
  /\ csr_wbk_v_q = FALSE /\ csr_adr_q = "other" /\ csr_data_q = 0
  /\ branch_v_q = FALSE /\ branch_v_dly1_q = FALSE
  /\ exception_q = FALSE /\ exception_dly1_q \in BOOLEAN
  /\ pc_data_q = 0
  /\ core_mode_q = 3 /\ cause_q = 0 /\ mtval_q = 0 /\ mepc_q = 0
  /\ rf = RfResetValue
  /\ csr = CsrResetValue
  /\ ram \in RamInit

Posedge ==
  /\ reset_n
  /\ UNCHANGED reset_n
  /\ BanksEdge
  /\ ExeEdge
  /\ DecEdge
  /\ IfetchEdge

AssertReset ==
  /\ reset_n
  /\ reset_n' = FALSE
  /\ IfetchReset
  /\ DecReset
  /\ ExeReset
  /\ BanksReset

ReleaseReset ==
  /\ ~reset_n
  /\ reset_n' = TRUE
  /\ UNCHANGED <<ifVars, decVars, wbkVars, exception_dly1_q, trapVars, rf, csr, ram>>

Next == Posedge \/ AssertReset \/ ReleaseReset

Spec == Init /\ [][Next]_vars

\* The clock runs for ever; nothing is asked of the reset.
FairSpec == Spec /\ WF_vars(Posedge)
=============================================================================
