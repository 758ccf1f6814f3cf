------------------------------- MODULE Claims -------------------------------
(***************************************************************************)
(* What the documentation, the tests and the comments say of the core,     *)
(* stated as written.  The windows of CoreIsa are exactly where these      *)
(* statements fail: each one is refuted by a run of its own.               *)
(***************************************************************************)
EXTENDS CoreIsa

\* dec.rst, of an instruction in decode: "Once the data is sent to EXE it must
\* have collected the correct value for both source operands."
OperandsCollected ==
  [][Edge => LET i == dec_instr_q
             IN  (~flush_v /\ ~Bubble =>
                    /\ rs1_v_o(i) /\ ~csr_clear_o(i) => Low(dec_rs1_data_q) = rf_nxt[i.rs1]
                    /\ rs2_is_csr_o(i) /\ wbk_csr_adr_o(i) \in CsrFlops
                         => Low(dec_rs2_data_q) = csr_nxt[wbk_csr_adr_o(i)])']_vars

\* test_env_call_u_mode.s writes mtvec, traps in the next instruction and
\* expects the handler it wrote.
TrapsThroughWrittenVector ==
  [][Commit /\ exception_nxt => ArchPc' = csr_nxt["mtvec"]]_vars

\* exe.rst: the two instructions after a flush "must be flushed"; the mode
\* then only changes by an instruction that completes.
ModeChangesByCommit == [][Edge /\ ~Commit => UNCHANGED core_mode_q]_vars

\* README.md: "The core is a RV32I", whose lb extends the byte it loads.
SignedBytesLoaded ==
  [][Commit /\ OperandsArchitectural /\ dec_instr_q.name = "lb"
       => Machine!Exec(dec_instr_q)]_vars
=============================================================================
