------------------------------- MODULE Banks -------------------------------
(***************************************************************************)
(* The storage written at the end of the pipeline: the register file       *)
(* (rf.sv), the csr bank (csr.sv) and the data memory (core_tb.cpp).       *)
(* rf_nxt and csr_nxt are the contents one edge later: what the            *)
(* instructions that have left execute have written.                       *)
(***************************************************************************)
EXTENDS Exe

\* x0 has no flop: a write to it is lost.
rf_nxt == IF wbk_v_q /\ wbk_adr_q # 0 THEN [rf EXCEPT ![wbk_adr_q] = wbk_data_q] ELSE rf

(***************************************************************************)
(* A csr instruction writes data_i to the csr it names, but mstatus only   *)
(* ever stores one constant.  A trap writes four csrs, three of them with  *)
(* the trap value ORed to whatever data_i carries.                         *)
(***************************************************************************)
csr_write_v(c) == csr_wbk_v_q /\ csr_adr_q = c

\* Mutant: mepc takes the address of the instruction behind the one that traps.
TrapValue_YoungerPc == [mepc |-> dec_pc_q, mcause |-> cause_q, mtval |-> mtval_q]

TrapValue == [mepc |-> mepc_q, mcause |-> cause_q, mtval |-> mtval_q]

csr_nxt ==
  [c \in CsrFlops |->
     IF c = "mstatus"
       THEN IF csr_write_v(c) \/ exception_q THEN MSTATUS_M ELSE csr[c]
     ELSE IF c \in DOMAIN TrapValue /\ exception_q THEN BitOr(csr_data_q, TrapValue[c])
     ELSE IF csr_write_v(c) THEN csr_data_q
     ELSE csr[c]]

\* A store reaches the memory in the cycle its instruction is in execute.
ram_nxt ==
  IF adr_v_o /\ is_store
  THEN LET line == mem_adr - (mem_adr % 4)
       IN  [ram EXCEPT ![line] = StoreMerge(@, mem_adr, access_size_o(dec_instr_q),
                                            Low(dec_rs2_data_q))]
  ELSE ram

BanksEdge  == rf' = rf_nxt /\ csr' = csr_nxt /\ ram' = ram_nxt

\* A store under way when the reset falls may already have reached the memory.
BanksReset == rf' = RfResetValue /\ csr' = CsrResetValue /\ ram' \in {ram, ram_nxt}
=============================================================================
