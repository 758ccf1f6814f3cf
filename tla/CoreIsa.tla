------------------------------ MODULE CoreIsa ------------------------------
(***************************************************************************)
(* The core implements the sequential machine of Isa, as long as the       *)
(* program keeps away from the windows the hazard operators below name.    *)
(***************************************************************************)
EXTENDS Core

(***************************************************************************)
(* Refinement mapping.  The architectural state is that left by the        *)
(* instructions that have gone through execute: the banks with the         *)
(* pending write back applied, and the address of the oldest instruction   *)
(* that has not, wherever the pipeline holds it.                           *)
(***************************************************************************)

\* Execute holds no instruction: the pipeline is still filling after a reset.
Bubble == dec_instr_q = ZeroInstr /\ ~dec_illegal_inst_q

ArchPc ==
  IF ~reset_n \/ ~if_reset_n_q THEN ResetAdr
  ELSE IF branch_v_q \/ exception_q THEN pc_data_q
  ELSE IF branch_v_dly1_q \/ exception_dly1_q \/ Bubble THEN if_pc_q
  ELSE dec_pc_q

Machine == INSTANCE Isa WITH pc <- ArchPc, x <- rf_nxt, csrs <- csr_nxt, mem <- ram,
                             mode <- core_mode_q

\* Every behaviour of the core is a behaviour of the sequential machine running
\* a program that Text allows.
ImplementsIsa == Machine!IsaSpec

(***************************************************************************)
(* Steps that complete an instruction, and those that complete none.       *)
(***************************************************************************)
\* In every step but an edge the reset moves.
Edge   == reset_n /\ reset_n'
Commit == Edge /\ ~flush_v /\ ~Bubble

\* The step of the machine is that of the very word fetched: when Text allows
\* several at an address, no other of them may account for the result.
ExecutesFetched ==
  [][Commit => dec_instr_q \in Text[ArchPc] /\ Machine!Exec(dec_instr_q)]_vars

\* The value decode owes to execute: the architectural source, extended to
\* XLEN+1 bits as a signed or an unsigned number.
Extend(i, w) == (IF unsign_extension_o(i) THEN w ELSE Machine!Signed(w)) % (2 * WORD)

ArchSource1(i) ==
  CASE rs1_is_immediat_o(i) -> i.rs1
    [] auipc_o(i)           -> dec_pc_q
    [] rs1_v_o(i)           -> rf_nxt[i.rs1]
    [] OTHER                -> 0

ArchSource2(i) ==
  CASE rs2_is_csr_o(i)      -> IF wbk_csr_adr_o(i) \in CsrFlops
                               THEN csr_nxt[wbk_csr_adr_o(i)] ELSE 0
    [] rs2_is_immediat_o(i) -> i.imm
    [] rs2_v_o(i)           -> rf_nxt[i.rs2]
    [] OTHER                -> 0

\* Execute computes with the sources the sequential machine would read.
OperandsArchitectural ==
  LET i == dec_instr_q
      a == ArchSource1(i)
      b == Extend(i, ArchSource2(i))
  IN  /\ IF csr_clear_o(i) THEN Low(dec_rs1_data_q) = WORD - 1 - a
                           ELSE dec_rs1_data_q = Extend(i, a)
      /\ dec_rs2_data_q = IF rs2_ca2_v_o(i) THEN (-b) % (2 * WORD) ELSE b

\* What a program that keeps its distances can rely on: whoever is about to
\* complete has the operands of program order.
OperandsInv == ~flush_v /\ ~Bubble => OperandsArchitectural

(***************************************************************************)
(* The windows in which the forwards of decode are wrong.                  *)
(***************************************************************************)

\* The instruction in execute is squashed, and decode takes its result.
PhantomRd ==
  /\ flush_v
  /\ \/ rs1_v_o(if_instr_q) /\ exe_ff_match(if_instr_q.rs1)
     \/ rs2_v_o(if_instr_q) /\ exe_ff_match(if_instr_q.rs2)

PhantomCsr == flush_v /\ rs2_is_csr_o(if_instr_q) /\ exe_ff_csr_adr_match

\* The csr read is being written, two instructions ahead: no forward for it.
LateCsr ==
  /\ rs2_is_csr_o(if_instr_q)
  /\ ~exe_ff_csr_adr_match
  /\ csr_wbk_v_q /\ csr_adr_q = wbk_csr_adr_o(if_instr_q)

\* The csr forwarded will not keep the value written to it.
RawCsr ==
  /\ rs2_is_csr_o(if_instr_q)
  /\ exe_ff_csr_adr_match
  /\ wbk_csr_adr_o(if_instr_q) \notin CsrFlops \ {"mstatus"}

\* The trap vector or the return address is being written one instruction
\* ahead, and execute jumps through the csr flop.
LateVector ==
  \/ exception_nxt /\ csr_nxt["mtvec"] # csr["mtvec"]
  \/ mret_o(dec_instr_q) /\ csr_nxt["mepc"] # csr["mepc"]

\* A signed byte that is not the first of its word.
LateByte == dec_instr_q.name = "lb" /\ mem_adr % 4 # 0

\* A return that is squashed, and moves the mode nevertheless.
ShadowReturn == flush_v /\ (mret_o(dec_instr_q) \/ sret_o(dec_instr_q))

\* This edge goes through a window: decode prepares an instruction that will
\* execute, or execute completes one, or moves the mode for one it squashes.
InWindow ==
  \/ (PhantomRd \/ PhantomCsr \/ LateCsr \/ RawCsr) /\ ~flush_v'
  \/ (LateVector \/ LateByte) /\ Commit
  \/ ShadowReturn

(***************************************************************************)
(* Invariants of the pipeline control.                                     *)
(***************************************************************************)

\* The two copies of the reset agree, and until the first edge after it no
\* stage holds anything that could act.
ResetDrains ==
  /\ dec_reset_n_q = if_reset_n_q
  /\ if_reset_n_q => reset_n
  /\ ~if_reset_n_q =>
       /\ if_instr_q = ZeroInstr
       /\ Bubble
       /\ ~dec_wbk_v_q /\ ~wbk_v_q /\ ~csr_wbk_v_q
       /\ ~branch_v_q /\ ~branch_v_dly1_q /\ ~exception_q

\* At most one redirection is under way: a squashed instruction does not
\* redirect in its turn.
RedirectsOnce ==
  /\ ~(branch_v_q /\ exception_q)
  /\ ~(branch_v_dly1_q /\ exception_dly1_q)
  /\ branch_v_q \/ exception_q => ~branch_v_dly1_q /\ ~exception_dly1_q

\* The flags decode masks belong to the instruction beside them.
FlagsAreDecoded ==
  /\ dec_illegal_inst_q => illegal_inst_o(dec_instr_q)
  /\ dec_wbk_v_q => wbk_v_o(dec_instr_q)

\* The state of the control is consistent at every instant, a reset at any
\* point of a flush included (the flops of exe.sv, dec.sv and ifetch.sv).
PipelineInv == ResetDrains /\ RedirectsOnce /\ FlagsAreDecoded

\* While the pipeline is undisturbed fetch is one word ahead of decode, decode
\* hands over its flags unmasked, each stage holds a word of the program at the
\* address beside it, and x0 is zero.  Neither a redirection nor a reset at any
\* point lets a word part from its address (ifetch.sv, dec.sv, rf.sv).
StreamInv ==
  /\ ~flush_v /\ ~Bubble => if_pc_q = (dec_pc_q + 4) % WORD
  /\ ~flush_v => (dec_wbk_v_q <=> wbk_v_o(dec_instr_q))
  /\ ~Bubble => (dec_illegal_inst_q <=> illegal_inst_o(dec_instr_q))
  /\ if_reset_n_q => if_instr_q \in Text[if_pc_q]
  /\ ~Bubble => dec_instr_q \in Text[dec_pc_q]
  /\ rf[0] = 0

(***************************************************************************)
(* Programs that keep out of the windows.                                  *)
(***************************************************************************)

\* The program keeps the distances the forwards of dec.sv and the redirections
\* of exe.sv need, whatever the resets cut short.  With it the core implements
\* the sequential machine.
KeepsDistances == [][Edge => ~InWindow]_vars

(***************************************************************************)
(* Properties of every program.                                            *)
(***************************************************************************)

\* Whatever is in flight, an instruction that will execute is given the
\* register and csr values of program order, except in the windows above
\* (the multiplexers of dec.sv).
OperandsInOrder ==
  [][Edge /\ ~(PhantomRd \/ PhantomCsr \/ LateCsr \/ RawCsr)
       => (~flush_v /\ ~Bubble => OperandsArchitectural)']_vars

\* Given its operands, an instruction does in execute and write back what the
\* sequential machine does in one step, traps included.
CommitsInstruction ==
  [][Commit /\ OperandsArchitectural /\ ~LateVector /\ ~LateByte
       => Machine!Exec(dec_instr_q)]_vars

\* A squashed instruction leaves nothing behind: no register, csr, memory
\* word or redirection (the flush masks of exe.sv and dec.sv).
SquashLeavesNothing ==
  [][Edge /\ ~Commit => UNCHANGED <<ArchPc, rf_nxt, csr_nxt, ram>>]_vars

\* csr.sv ORs the trap values with the csr data bus: no instruction that traps
\* may drive the bus, or mepc, mcause and mtval would be corrupted.
TrapBusIsQuiet == exception_q => csr_data_q = 0 /\ ~csr_wbk_v_q

\* The shadow of a branch never feeds a forward: only a trap can (the mask of
\* rd_v_nxt in dec.sv answers in advance for the second cycle of the flush).
BranchShadowForwardsNothing ==
  branch_v_q \/ branch_v_dly1_q => \A r \in Regs : ~exe_ff_match(r)

\* The terms of the OR in exception_nxt that are true.
TrapReasons ==
  {t \in {"pc", "illegal", "ebreak", "load", "store", "ecall"} :
     \/ t = "pc"      /\ pc_missaligned
     \/ t = "illegal" /\ dec_illegal_inst_q
     \/ t = "ebreak"  /\ ebreak_o(dec_instr_q)
     \/ t = "load"    /\ ld_adr_missaligned
     \/ t = "store"   /\ st_adr_missaligned
     \/ t = "ecall"   /\ ecall_o(dec_instr_q)}

\* The AND-OR multiplexers select at most one term: one unit, one reason to
\* trap.
OneHot == /\ \A u, v \in unit : u = v
          /\ ~flush_v => \A s, t \in TrapReasons : s = t

\* Once the reset is released for good, instructions keep completing: no
\* sequence of branches and traps squashes for ever.
KeepsCommitting == <>[]reset_n => []<>(reset_n /\ ~flush_v /\ ~Bubble)
=============================================================================
