----------------------------- MODULE Testbench -----------------------------
(***************************************************************************)
(* The core under its testbench (core_tb.cpp, built with VALIDATION): one  *)
(* memory for instructions and data, the log of what instructions write,   *)
(* and the ways a test ends.                                               *)
(*                                                                         *)
(* sc_main looks at the core in the middle of each cycle, after a rising   *)
(* edge and before the next: an iteration of its loop checks the end of    *)
(* the test, serves the data access and then the fetch, writes a line of   *)
(* the log, and lets the next edge happen.                                 *)
(***************************************************************************)
EXTENDS CoreIsa, Loader

CONSTANTS
  CodeOf,      \* CodeOf[w]: the instruction a word of memory encodes
  CommandLine, \* the command lines a test may be run with
  Files,       \* the ELF files: their sections, in order
  MAX_CYCLES,  \* bound on the simulated time
  COUNTDOWN    \* cycles left after rvtest_code_end

ASSUME CodeAssumption == CodeOf \in [Word -> Instr] /\ CodeOf[0] = ZeroInstr
ASSUME FilesAssumption == \A sections \in Files : sections \in Seq(SectionType)
ASSUME BoundsAssumption == MAX_CYCLES \in Nat /\ MAX_CYCLES >= 2 /\ COUNTDOWN \in Nat

VARIABLES
  phase,            \* where sc_main is
  opts,             \* debug, riscof, stats and the files they open
  labels,           \* the addresses found among the symbols
  nb_cycles,        \* NB_CYCLES
  countdown, start_countdown,
  \* flops of core.sv under VALIDATION
  val_adr_v_q, val_adr_q, val_store_v_q, val_store_data_q,
  sim_log,          \* the last line of sim.log
  signature,        \* the signature file, empty until it is written
  ending            \* how the test ended, "none" while it runs

valVars   == <<val_adr_v_q, val_adr_q, val_store_v_q, val_store_data_q>>
benchVars == <<phase, opts, labels, nb_cycles, countdown, start_countdown, valVars,
               sim_log, signature, ending>>
allVars   == <<vars, benchVars>>

NoLine == [pc |-> 0, rd |-> 0, data |-> 0, adr |-> {}, stored |-> {}, csr |-> {}]
NoFile == <<>>

(***************************************************************************)
(* Memory: the store first, then the load, then the fetch.                 *)
(***************************************************************************)
pc_adr == pc_fetched_nxt

\* Mutant: the fetch is served before the store.
icache_instr_BeforeStore == IF pc_adr \in Line THEN CodeOf[ram[pc_adr]] ELSE ZeroInstr

icache_instr == IF pc_adr \in Line THEN CodeOf[ram_nxt[pc_adr]] ELSE ZeroInstr

ValEdge ==
  /\ val_adr_v_q'      = adr_v_o
  /\ val_adr_q'        = mem_adr
  /\ val_store_v_q'    = is_store
  /\ val_store_data_q' = Low(dec_rs2_data_q)

(***************************************************************************)
(* Log: a line when a write back, a csr write back or an access is valid.  *)
(* A field is the empty set where the file says "None"; mepc_q and the     *)
(* VALIDATION flop pc_q hold the same address.                             *)
(***************************************************************************)
\* Mutant: the line gives the address of the instruction now in execute.
log_line_YoungerPc ==
  IF ~(wbk_v_q \/ csr_wbk_v_q \/ val_adr_v_q) THEN NoLine
  ELSE [pc     |-> dec_pc_q,
        rd     |-> IF wbk_v_q THEN wbk_adr_q ELSE 0,
        data   |-> IF wbk_v_q /\ wbk_adr_q # 0 THEN wbk_data_q ELSE 0,
        adr    |-> IF val_adr_v_q THEN {val_adr_q} ELSE {},
        stored |-> IF val_store_v_q THEN {val_store_data_q} ELSE {},
        csr    |-> IF csr_wbk_v_q THEN {<<csr_adr_q, csr_data_q>>} ELSE {}]

log_line ==
  IF ~(wbk_v_q \/ csr_wbk_v_q \/ val_adr_v_q) THEN NoLine
  ELSE [pc     |-> mepc_q,
        rd     |-> IF wbk_v_q THEN wbk_adr_q ELSE 0,
        data   |-> IF wbk_v_q /\ wbk_adr_q # 0 THEN wbk_data_q ELSE 0,
        adr    |-> IF val_adr_v_q THEN {val_adr_q} ELSE {},
        stored |-> IF val_store_v_q THEN {val_store_data_q} ELSE {},
        csr    |-> IF csr_wbk_v_q THEN {<<csr_adr_q, csr_data_q>>} ELSE {}]

(***************************************************************************)
(* Ends.  The labels are compared with the address being fetched.          *)
(***************************************************************************)
riscof == Riscof(opts)

\* Mutant: the time is read once, before the loop.
nb_cycles_nxt_Frozen == nb_cycles

nb_cycles_nxt == nb_cycles + 1

\* Mutant: the countdown does not wait for the label.
countdown_nxt_Always == countdown - 1

countdown_nxt == IF start_countdown THEN countdown - 1 ELSE countdown

\* Mutant: the bound on the cycles is not tested.
ending_nxt_Unbounded ==
  IF ~riscof /\ pc_adr = labels["_bad"] THEN "bad"
  ELSE IF ~riscof /\ pc_adr = labels["_good"] THEN "good"
  ELSE IF ~riscof /\ pc_adr = labels["_exception_occur"] THEN "exception"
  ELSE IF riscof /\ countdown_nxt = 0 THEN "signature"
  ELSE "none"

ending_nxt ==
  IF nb_cycles > MAX_CYCLES THEN "overrun"
  ELSE IF ~riscof /\ pc_adr = labels["_bad"] THEN "bad"
  ELSE IF ~riscof /\ pc_adr = labels["_good"] THEN "good"
  ELSE IF ~riscof /\ pc_adr = labels["_exception_occur"] THEN "exception"
  ELSE IF riscof /\ countdown_nxt = 0 THEN "signature"
  ELSE "none"

start_countdown_nxt ==
  \/ start_countdown
  \/ /\ ending_nxt \notin {"overrun", "bad", "good", "exception"}
     /\ \/ riscof /\ pc_adr = labels["rvtest_code_end"]
        \/ pc_adr = labels["rvtest_end"]

\* What the process returns: the usage and an overrun count as a success.
ExitCode == [help |-> 0, unreadable |-> -3, overrun |-> 0, good |-> 0, bad |-> 1,
             exception |-> 2, signature |-> 0]

\* The words from begin_signature to end_signature, compared as signed ints;
\* with --debug each has its address.  Nothing is written to a failed stream.
SignatureWords ==
  LET begin == labels["begin_signature"]
      size  == Machine!Signed(labels["end_signature"]) - Machine!Signed(begin)
      at(k) == (begin + 4 * (k - 1)) % WORD
      word(k) == IF at(k) \in Line THEN ram[at(k)] ELSE 0
  IN  IF opts.named # 1 THEN <<>>
      ELSE [k \in 1 .. (IF size > 0 THEN (size + 3) \div 4 ELSE 0) |->
              IF opts.debug THEN <<at(k), word(k)>> ELSE <<word(k)>>]

(***************************************************************************)
(* Actions.                                                                *)
(***************************************************************************)
BenchInit ==
  /\ Init
  /\ phase = "arguments"
  /\ opts = NoOptions
  /\ labels \in UnsetLabels
  /\ nb_cycles = 0
  /\ countdown = COUNTDOWN /\ start_countdown = FALSE
  /\ val_adr_v_q = FALSE /\ val_adr_q = 0 /\ val_store_v_q = FALSE /\ val_store_data_q = 0
  /\ sim_log = NoLine
  /\ signature = NoFile
  /\ ending = "none"

End(how) == phase' = "exit" /\ ending' = how

ReadArguments ==
  /\ phase = "arguments"
  /\ \E argv \in CommandLine : opts' = Options(argv)
  /\ IF opts'.help THEN End("help") ELSE phase' = "load" /\ UNCHANGED ending
  /\ UNCHANGED <<vars, labels, nb_cycles, countdown, start_countdown, valVars, sim_log, signature>>

\* The reader finds the file and accepts it, or sc_main returns.
LoadElf ==
  /\ phase = "load"
  /\ \/ /\ \E sections \in Files :
             /\ ram' = LoadRam(ram, sections)
             /\ labels' = LoadLabels(labels, sections)
             /\ reset_adr(opts, labels') = ResetAdr
        /\ phase' = "reset"
        /\ UNCHANGED ending
     \/ End("unreadable") /\ UNCHANGED <<ram, labels>>
  /\ UNCHANGED <<reset_n, ifVars, decVars, wbkVars, exception_dly1_q, trapVars, rf, csr,
                 opts, nb_cycles, countdown, start_countdown, valVars, sim_log, signature>>

\* Three nanoseconds with the reset low, then half of one: the loop starts at 3.
EndReset ==
  /\ phase = "reset"
  /\ ReleaseReset
  /\ phase' = "run"
  /\ nb_cycles' = 3
  /\ UNCHANGED <<opts, labels, countdown, start_countdown, valVars, sim_log, signature, ending>>

\* One pass of the loop that does not end the test.
Iterate ==
  /\ phase = "run"
  /\ ending_nxt = "none"
  /\ countdown' = countdown_nxt
  /\ start_countdown' = start_countdown_nxt
  /\ if_instr_q' = icache_instr
  /\ Posedge
  /\ ValEdge
  /\ sim_log' = log_line
  /\ nb_cycles' = nb_cycles_nxt
  /\ UNCHANGED <<phase, opts, labels, signature, ending>>

\* One that does.  The three cycles the core still gets are not served by the
\* memory and not logged: nothing the test reports depends on them.
Finish ==
  /\ phase = "run"
  /\ ending_nxt # "none"
  /\ End(ending_nxt)
  /\ countdown' = countdown_nxt
  /\ start_countdown' = start_countdown_nxt
  /\ signature' = IF riscof THEN SignatureWords ELSE NoFile
  /\ UNCHANGED <<vars, opts, labels, nb_cycles, valVars, sim_log>>

BenchNext == ReadArguments \/ LoadElf \/ EndReset \/ Iterate \/ Finish

\* The simulation kernel runs the loop for as long as it lasts.
BenchSpec == BenchInit /\ [][BenchNext]_allVars /\ WF_allVars(BenchNext)

(***************************************************************************)
(* Properties.                                                             *)
(***************************************************************************)
BenchTypeOK ==
  /\ phase \in {"arguments", "load", "reset", "run", "exit"}
  /\ labels \in [LabelNames -> Word]
  /\ nb_cycles \in 0 .. MAX_CYCLES + 1
  /\ riscof => countdown \in 0 .. COUNTDOWN
  /\ ending \in DOMAIN ExitCode \union {"none"}
  /\ ending # "none" <=> phase = "exit"

\* One pass of the loop, with the edge at its end.
Cycle == phase = "run" /\ phase' = "run"

\* The instruction ahead stores to the word of the one in execute, which was
\* fetched before that store.
StaleFetch ==
  val_adr_v_q /\ val_store_v_q /\ Machine!LineOf(val_adr_q) = dec_pc_q

\* The word the memory holds at an address, and where the sequential machine
\* stands.
CodeAt(a) == IF a \in Line THEN CodeOf[ram[a]] ELSE ZeroInstr
NextCode  == CodeAt(ArchPc)

\* What completes is the word the memory holds at that moment, not the one it
\* held at the fetch: of the stores still in flight then, only that of the
\* instruction directly ahead is missed (the order of the accesses in the loop).
ExecutesMemory ==
  [][Cycle /\ Commit /\ OperandsArchitectural /\ ~LateVector /\ ~LateByte /\ ~StaleFetch
       => Machine!Exec(NextCode)]_allVars

\* A test runs what its memory holds.  From operands in program order, a cycle
\* completes the word the sequential machine would execute there, with all its
\* effects, or changes nothing the program can see; and it leaves operands in
\* program order for the next one, stores into the code included.  The windows
\* and the word just stored are what it excludes.
RunsItsMemory ==
  [][Cycle /\ OperandsInv /\ ~InWindow /\ ~(Commit /\ StaleFetch)
       => /\ IF Commit THEN Machine!Exec(NextCode)
                       ELSE UNCHANGED <<ArchPc, rf_nxt, csr_nxt, ram, core_mode_q>>
          /\ OperandsInv']_allVars

\* The line the log should have for an instruction: what the sequential
\* machine reads and writes.
ExpectedLine(i) ==
  IF Machine!Traps(i) \/ ~(Machine!HasResult(i) \/ Machine!CsrWritten(i) \/ Machine!Width(i) # 0)
  THEN NoLine
  ELSE [pc     |-> ArchPc,
        rd     |-> IF Machine!HasResult(i) THEN i.rd ELSE 0,
        data   |-> IF Machine!HasResult(i) THEN Machine!Result(i) ELSE 0,
        adr    |-> IF Machine!Width(i) # 0 THEN {Machine!DataAdr(i)} ELSE {},
        stored |-> IF i.name \in {"sb", "sh", "sw"} THEN {rf_nxt[i.rs2]} ELSE {},
        csr    |-> IF ~Machine!CsrWritten(i) THEN {}
                   ELSE {<<Machine!CsrName(i), Machine!CsrValue(i)>>}]

\* sd is logged as an access it does not make, mstatus with the value written
\* to it and not the one it takes.
LogsOtherwise ==
  \/ dec_instr_q.name = "sd"
  \/ csr_wbk_o(dec_instr_q) /\ wbk_csr_adr_o(dec_instr_q) = "mstatus"

\* The next line of the log is that of the instruction that completes, and there
\* is none for an instruction that is squashed or traps: the fields come from
\* flops of three modules, valid under three different conditions.
LogTellsCommit ==
  [][/\ Cycle
     /\ Commit => OperandsArchitectural /\ ~LateByte /\ ~LogsOtherwise
     => log_line' = IF Commit THEN ExpectedLine(dec_instr_q) ELSE NoLine]_allVars

\* Instructions that neither jump nor trap, whatever their operands: arithmetic,
\* shifts, fence and the csr instructions.
Straight(i) ==
  /\ i.opc \in {"R", "I", "U", "AUIPC", "FENCE", "P"}
  /\ i.name \notin {"illegal", "ecall", "ebreak", "mret", "sret"}

EndLabels == {labels["_bad"], labels["_good"], labels["_exception_occur"]}

\* One or two words before a label that ends the test, the program runs straight
\* on to it or to another such label; or it never stands there.  (sw/user/exit.s
\* puts its labels side by side behind empty words: a program that runs into
\* these traps at the first of them.)
KeepsOffLabels ==
  phase = "run" /\ ~riscof =>
    \A l \in EndLabels, n \in {4, 8} :
      ArchPc = (l - n) % WORD =>
        \A m \in {4, n} : (l - m) % WORD \in EndLabels \/ Straight(CodeAt((l - m) % WORD))

\* The test reports the label, in this step.
Verdict == phase # "exit" /\ ending' \in {"bad", "good", "exception"}

\* Whatever the program does, at a verdict it stands at the label or one or two
\* words ahead of it: no verdict is taken on an address fetched in the shadow of a
\* jump or a trap that has been taken, nor before the first instruction.
VerdictIsNear ==
  [][Verdict => \E n \in {0, 4, 8} : ArchPc = (pc_adr - n) % WORD]_allVars

\* A verdict holds for the program and not for the fetch only: either the program
\* stands at the label, or what the pipeline holds between takes it there.  Of a
\* program that turns away just before a label this is not true, nor where the
\* word that executes has just been stored to.
VerdictIsFinal ==
  [][Verdict /\ ~StaleFetch
       => \/ ArchPc = pc_adr
          \/ /\ ~branch_v_q /\ ~exception_q
             /\ Straight(if_instr_q)
             /\ \/ ArchPc = (pc_adr - 4) % WORD /\ (flush_v \/ Bubble)
                \/ ArchPc = (pc_adr - 8) % WORD /\ Straight(dec_instr_q)]_allVars

\* The signature is taken once the program is past its end label, every store
\* before it done.
SignatureAfterCodeEnd ==
  [][ending' = "signature" /\ phase # "exit" => ArchPc = labels["rvtest_code_end"]]_allVars

\* Every test ends, whatever its program does and whatever labels it lacks.
EveryTestEnds == <>(phase = "exit")
=============================================================================
