------------------------------- MODULE Ifetch -------------------------------
(***************************************************************************)
(* The fetch stage (ifetch.sv).  The instruction memory answers in the     *)
(* same cycle with one of the words Text allows at the address.            *)
(***************************************************************************)
EXTENDS Registers

end_reset_valid == reset_n /\ ~if_reset_n_q

\* Mutant: a redirection is seen one cycle late.
pc_fetched_nxt_Late ==
  IF end_reset_valid THEN ResetAdr
  ELSE IF branch_v_dly1_q \/ exception_dly1_q THEN pc_data_q
  ELSE (if_pc_q + 4) % WORD

pc_fetched_nxt ==
  IF end_reset_valid THEN ResetAdr
  ELSE IF branch_v_q \/ exception_q THEN pc_data_q
  ELSE (if_pc_q + 4) % WORD

IfetchEdge ==
  /\ if_reset_n_q' = reset_n
  /\ if_pc_q' = pc_fetched_nxt
  /\ if_instr_q' \in Text[pc_fetched_nxt]

IfetchReset ==
  /\ if_reset_n_q' = FALSE
  /\ if_instr_q' = ZeroInstr
  /\ if_pc_q' = 0
=============================================================================
