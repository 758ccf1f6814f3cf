---------------------------- MODULE BenchProofs ----------------------------
(***************************************************************************)
(* The core under its testbench: for every ELF file, every command line    *)
(* and every width of word, what completes is what the memory holds at     *)
(* that moment, and the log tells it.                                      *)
(***************************************************************************)
EXTENDS Testbench, CommitProofs

(***************************************************************************)
(* Files.                                                                  *)
(***************************************************************************)
LEMMA LatestIsOne ==
  ASSUME NEW S, Latest(S) # {}
  PROVE  The(Latest(S)) \in S
BY DEF Latest, The

LEMMA LoadRamType ==
  ASSUME NEW r \in [Line -> Word], NEW sections \in Seq(SectionType)
  PROVE  LoadRam(r, sections) \in [Line -> Word]
<1> DEFINE last(a) == Latest({k \in DOMAIN sections : Covers(sections[k], a)})
<1>1. ASSUME NEW a \in Line, last(a) # {}
      PROVE  sections[The(last(a))].data[Offset(sections[The(last(a))], a) \div 4 + 1] \in Word
  <2> DEFINE sec == sections[The(last(a))]
             j == Offset(sec, a)
  <2>1. The(last(a)) \in DOMAIN sections /\ Covers(sec, a)
    BY <1>1, LatestIsOne
  <2>2. sec \in SectionType
    BY <2>1
  <2> HIDE DEF sec
  <2>3. sec.adr \in Word /\ sec.data \in Seq(Word)
    BY <2>2 DEF SectionType
  <2>4. j \in Nat
    <3>1. a - sec.adr \in Int
      BY <2>3, Widths DEF Word, Line
    <3>2. (a - sec.adr) % WORD \in Word
      BY <3>1, WrapType
    <3> QED
      BY <3>2, WordIsExtended DEF Offset
  <2>5. j \div 4 < Len(sec.data)
    BY <2>1 DEF Covers
  <2> HIDE DEF j
  <2>6. j \div 4 \in Nat
    BY <2>4
  <2>7. j \div 4 + 1 \in 1 .. Len(sec.data)
    BY <2>3, <2>5, <2>6
  <2> QED
    BY <2>3, <2>7 DEF sec, j
<1> HIDE DEF last
<1>2. LoadRam(r, sections)
        = [a \in Line |-> IF last(a) = {} THEN r[a]
                          ELSE sections[The(last(a))].data
                                 [Offset(sections[The(last(a))], a) \div 4 + 1]]
  BY DEF LoadRam, last
<1> QED
  BY <1>1, <1>2

LEMMA LoadLabelsType ==
  ASSUME NEW l \in [LabelNames -> Word], NEW sections \in Seq(SectionType)
  PROVE  LoadLabels(l, sections) \in [LabelNames -> Word]
<1> DEFINE last(n) == Latest({k \in DOMAIN sections : Named(sections[k], n) # {}})
           value(n) == sections[The(last(n))].symbols[The(Named(sections[The(last(n))], n))].value
<1>1. ASSUME NEW n \in LabelNames, last(n) # {} PROVE value(n) \in Word
  <2> DEFINE sec == sections[The(last(n))]
  <2>1. The(last(n)) \in DOMAIN sections /\ Named(sec, n) # {}
    BY <1>1, LatestIsOne
  <2>2. sec \in SectionType
    BY <2>1
  <2> HIDE DEF sec
  <2>3. sec.symbols \in Seq(SymbolType)
    BY <2>2 DEF SectionType
  <2>4. The(Named(sec, n)) \in DOMAIN sec.symbols
    BY <2>1, LatestIsOne DEF Named
  <2>5. sec.symbols[The(Named(sec, n))] \in SymbolType
    BY <2>3, <2>4
  <2> QED
    BY <2>5 DEF sec, SymbolType
<1> HIDE DEF last, value
<1>2. LoadLabels(l, sections) = [n \in LabelNames |-> IF last(n) = {} THEN l[n] ELSE value(n)]
  BY DEF LoadLabels, last, value
<1> QED
  BY <1>1, <1>2

LEMMA UnsetLabelsType == UnsetLabels \subseteq [LabelNames -> Word]
<1>1. WORD - 1 \in Word
  BY Widths DEF Word
<1> QED
  BY <1>1, GarbageAssumption DEF UnsetLabels

(***************************************************************************)
(* The core.  LoadElf fills the memory while the core is in reset; every   *)
(* other step of the testbench is a step of the core or leaves it alone.   *)
(***************************************************************************)

\* Where the test stands: the core is in reset until the loop starts and out of
\* it from then on, and a countdown that runs has not reached zero.
LoopInv ==
  /\ phase \in {"arguments", "load", "reset"} =>
       ~reset_n /\ ~start_countdown /\ countdown = COUNTDOWN
  /\ phase = "run" => reset_n
  /\ riscof /\ phase = "run" /\ start_countdown => countdown > 0

LEMMA BenchSteps ==
  ASSUME [BenchNext]_allVars
  PROVE  \/ LoadElf
         \/ [Next]_vars
BY DEF BenchNext, ReadArguments, EndReset, Iterate, Finish, allVars, Next

\* The file goes to the memory and nowhere else.
LEMMA LoadKeepsCore ==
  ASSUME LoadElf
  PROVE  /\ ram' = ram \/ \E sections \in Files : ram' = LoadRam(ram, sections)
         /\ UNCHANGED <<reset_n, ifVars, decVars, wbkVars, exception_dly1_q, trapVars, rf, csr>>
BY DEF LoadElf

LEMMA CoreTypesKept ==
  ASSUME TypeOK, [BenchNext]_allVars
  PROVE  TypeOK'
<1>1. CASE LoadElf
  <2>1. ram' \in [Line -> Word]
    <3>1. ram \in [Line -> Word]
      BY DEF TypeOK, StoreTypeOK
    <3>2. \A sections \in Files : LoadRam(ram, sections) \in [Line -> Word]
      BY <3>1, FilesAssumption, LoadRamType
    <3> QED
      BY <1>1, <3>1, <3>2, LoadKeepsCore
  <2> QED
    BY <1>1, <2>1, LoadKeepsCore
    DEF TypeOK, IfTypeOK, DecTypeOK, WbkTypeOK, TrapTypeOK, StoreTypeOK,
        ifVars, decVars, wbkVars, trapVars
<1>2. CASE [Next]_vars
  BY <1>2, TypesNext
<1> QED
  BY <1>1, <1>2, BenchSteps

LEMMA CoreControlKept ==
  ASSUME TypeOK, PipelineInv, StreamInv, [BenchNext]_allVars
  PROVE  PipelineInv' /\ StreamInv'
<1>1. CASE LoadElf
  BY <1>1, LoadKeepsCore
  DEF PipelineInv, ResetDrains, RedirectsOnce, FlagsAreDecoded, StreamInv, flush_v, Bubble,
      ifVars, decVars, wbkVars
<1>2. CASE [Next]_vars
  BY <1>2, PipelineNext, StreamNext
<1> QED
  BY <1>1, <1>2, BenchSteps

\* The control of the pipeline and its stream of words are consistent under the
\* testbench too, whatever file it loads (core_tb.cpp, core.sv).
BenchControl == TypeOK /\ PipelineInv /\ StreamInv

THEOREM BenchKeepsControl == BenchSpec => []BenchControl
<1>1. BenchInit => BenchControl
  BY TypesInit, PipelineInit, StreamInit DEF BenchInit, BenchControl
<1>2. BenchControl /\ [BenchNext]_allVars => BenchControl'
  BY CoreTypesKept, CoreControlKept DEF BenchControl
<1> QED
  BY <1>1, <1>2, PTL DEF BenchSpec

(***************************************************************************)
(* Types of the testbench.                                                 *)
(***************************************************************************)
LEMMA EndingTypes ==
  /\ ending_nxt \in {"overrun", "bad", "good", "exception", "signature", "none"}
  /\ ending_nxt = "none" => ~(nb_cycles > MAX_CYCLES) /\ (riscof => countdown_nxt # 0)
  /\ DOMAIN ExitCode = {"help", "unreadable", "overrun", "good", "bad", "exception", "signature"}
<1>1. ending_nxt \in {"overrun", "bad", "good", "exception", "signature", "none"}
  BY DEF ending_nxt
<1>2. ending_nxt = "none" => ~(nb_cycles > MAX_CYCLES) /\ (riscof => countdown_nxt # 0)
  BY DEF ending_nxt
<1>3. DOMAIN ExitCode
        = {"help", "unreadable", "overrun", "good", "bad", "exception", "signature"}
  BY DEF ExitCode
<1> QED
  BY <1>1, <1>2, <1>3

BenchTypeInv == BenchTypeOK /\ LoopInv

LEMMA BenchTypesInit == BenchInit => BenchTypeInv
<1> SUFFICES ASSUME BenchInit PROVE BenchTypeInv
  OBVIOUS
<1>1. labels \in [LabelNames -> Word]
  BY UnsetLabelsType DEF BenchInit
<1>2. ending = "none" /\ phase = "arguments" /\ nb_cycles = 0 /\ countdown = COUNTDOWN
      /\ ~start_countdown /\ ~reset_n
  BY DEF BenchInit, Init
<1> QED
  BY <1>1, <1>2, BoundsAssumption DEF BenchTypeInv, BenchTypeOK, LoopInv

LEMMA BenchTypesNext ==
  ASSUME BenchTypeInv, [BenchNext]_allVars
  PROVE  BenchTypeInv'
<1> USE DEF BenchTypeInv, BenchTypeOK, LoopInv
<1>1. CASE ReadArguments
  <2>1. UNCHANGED <<reset_n, labels, nb_cycles, countdown, start_countdown>>
    BY <1>1 DEF ReadArguments, vars
  <2>2. \/ phase' = "exit" /\ ending' = "help"
        \/ phase' = "load" /\ ending' = ending
    BY <1>1 DEF ReadArguments, End
  <2>3. countdown = COUNTDOWN /\ ~start_countdown /\ ~reset_n /\ ending = "none"
    BY <1>1 DEF ReadArguments
  <2> QED
    BY <2>1, <2>2, <2>3, EndingTypes, BoundsAssumption DEF riscof
<1>2. CASE LoadElf
  <2>1. UNCHANGED <<reset_n, opts, nb_cycles, countdown, start_countdown>>
    BY <1>2 DEF LoadElf
  <2>2. labels' \in [LabelNames -> Word]
    BY <1>2, FilesAssumption, LoadLabelsType DEF LoadElf
  <2>3. \/ phase' = "reset" /\ ending' = ending
        \/ phase' = "exit" /\ ending' = "unreadable"
    BY <1>2 DEF LoadElf, End
  <2>4. countdown = COUNTDOWN /\ ~start_countdown /\ ~reset_n /\ ending = "none"
    BY <1>2 DEF LoadElf
  <2> QED
    BY <2>1, <2>2, <2>3, <2>4, EndingTypes, BoundsAssumption DEF riscof
<1>3. CASE EndReset
  BY <1>3, BoundsAssumption DEF EndReset, ReleaseReset, riscof
<1>4. CASE Iterate
  <2>1. UNCHANGED <<phase, opts, labels, ending>> /\ phase = "run"
        /\ countdown' = countdown_nxt /\ nb_cycles' = nb_cycles_nxt
        /\ start_countdown' = start_countdown_nxt /\ reset_n' = reset_n
    BY <1>4 DEF Iterate, Posedge
  <2>2. ~(nb_cycles > MAX_CYCLES) /\ (riscof => countdown_nxt # 0)
    BY <1>4, EndingTypes DEF Iterate
  <2>3. nb_cycles' \in 0 .. MAX_CYCLES + 1
    BY <2>1, <2>2, BoundsAssumption DEF nb_cycles_nxt
  <2>4. riscof => countdown_nxt \in 0 .. COUNTDOWN /\ countdown_nxt > 0
    BY <2>1, <2>2, BoundsAssumption DEF countdown_nxt
  <2> QED
    BY <2>1, <2>3, <2>4 DEF riscof
<1>5. CASE Finish
  <2>1. UNCHANGED <<opts, labels, nb_cycles>> /\ phase = "run" /\ phase' = "exit"
        /\ ending' = ending_nxt /\ ending_nxt # "none" /\ countdown' = countdown_nxt
    BY <1>5 DEF Finish, End
  <2>2. riscof => countdown_nxt \in 0 .. COUNTDOWN
    BY <2>1, BoundsAssumption DEF countdown_nxt
  <2> QED
    BY <2>1, <2>2, EndingTypes DEF riscof
<1>6. CASE UNCHANGED allVars
  BY <1>6 DEF allVars, benchVars, vars, riscof
<1> QED
  BY <1>1, <1>2, <1>3, <1>4, <1>5, <1>6 DEF BenchNext

LEMMA BenchTypeInvHolds == BenchSpec => []BenchTypeInv
<1>1. BenchTypeInv /\ [BenchNext]_allVars => BenchTypeInv'
  BY BenchTypesNext
<1> QED
  BY <1>1, BenchTypesInit, PTL DEF BenchSpec

LEMMA LoopHolds == BenchSpec => []LoopInv
<1>1. BenchTypeInv => LoopInv
  BY DEF BenchTypeInv
<1> QED
  BY <1>1, BenchTypeInvHolds, PTL

\* Whatever the file and the command line, the time stays below its bound, the
\* countdown of a compliance test does not run past zero, the labels are
\* addresses, and the test has an ending exactly when it is over (core_tb.cpp).
THEOREM BenchTypesHold == BenchSpec => []BenchTypeOK
<1>1. BenchTypeInv => BenchTypeOK
  BY DEF BenchTypeInv
<1> QED
  BY <1>1, BenchTypeInvHolds, PTL

(***************************************************************************)
(* The words of the memory.                                                *)
(***************************************************************************)
\* Fetch holds the word the memory holds at its address now, and execute too
\* unless the instruction directly ahead has just stored to it.
FetchInv ==
  /\ if_reset_n_q => if_instr_q = CodeAt(if_pc_q)
  /\ ~Bubble /\ ~StaleFetch => dec_instr_q = CodeAt(dec_pc_q)

\* One edge, under the memory of the testbench.
LEMMA FetchNext ==
  ASSUME BenchControl, FetchInv, Iterate
  PROVE  FetchInv'
<1>1. /\ if_instr_q' = icache_instr /\ if_pc_q' = pc_adr /\ ram' = ram_nxt
      /\ dec_instr_q' = if_instr_q /\ dec_pc_q' = if_pc_q
      /\ dec_illegal_inst_q' = illegal_inst_q_nxt
      /\ val_adr_v_q' = adr_v_o /\ val_adr_q' = mem_adr /\ val_store_v_q' = is_store
  BY DEF Iterate, Posedge, IfetchEdge, DecEdge, BanksEdge, ValEdge, pc_adr
<1>2. (if_instr_q = CodeAt(if_pc_q))'
  BY <1>1 DEF icache_instr, CodeAt
<1>3. CASE ~if_reset_n_q
  <2>1. Bubble'
    BY <1>1, <1>3 DEF BenchControl, PipelineInv, ResetDrains, Bubble, illegal_inst_q_nxt
  <2> QED
    BY <1>2, <2>1 DEF FetchInv
<1>4. CASE if_reset_n_q
  <2>1. dec_instr_q' = CodeAt(if_pc_q)
    BY <1>1, <1>4 DEF FetchInv
  <2>2. ASSUME ~StaleFetch', if_pc_q \in Line PROVE ram'[if_pc_q] = ram[if_pc_q]
    <3>1. ~(adr_v_o /\ is_store /\ mem_adr - (mem_adr % 4) = if_pc_q)
      BY <1>1, <2>2 DEF StaleFetch, Machine!LineOf
    <3>2. ram \in [Line -> Word]
      BY DEF BenchControl, TypeOK, StoreTypeOK
    <3> QED
      BY <1>1, <2>2, <3>1, <3>2 DEF ram_nxt
  <2>3. ~StaleFetch' => CodeAt(if_pc_q) = CodeAt(dec_pc_q)'
    BY <1>1, <2>2 DEF CodeAt
  <2> QED
    BY <1>2, <2>1, <2>3 DEF FetchInv
<1> QED
  BY <1>3, <1>4

LEMMA FetchHolds == BenchSpec => []FetchInv
<1>1. BenchInit => FetchInv
  BY DEF BenchInit, Init, FetchInv, Bubble
<1>2. BenchControl /\ LoopInv /\ FetchInv /\ [BenchNext]_allVars => FetchInv'
  <2> SUFFICES ASSUME BenchControl, LoopInv, FetchInv, [BenchNext]_allVars PROVE FetchInv'
    OBVIOUS
  <2>1. CASE Iterate
    BY <2>1, FetchNext
  <2>2. CASE LoadElf \/ EndReset
    <3>1. ~reset_n
      BY <2>2 DEF LoopInv, LoadElf, EndReset
    <3>2. ~if_reset_n_q /\ Bubble
      BY <3>1 DEF BenchControl, PipelineInv, ResetDrains
    <3>3. UNCHANGED <<if_reset_n_q, dec_instr_q, dec_illegal_inst_q>>
      BY <2>2 DEF LoadElf, EndReset, ReleaseReset, ifVars, decVars
    <3> QED
      BY <3>2, <3>3 DEF FetchInv, Bubble
  <2>3. CASE ReadArguments \/ Finish \/ UNCHANGED allVars
    <3>1. UNCHANGED <<vars, valVars>>
      BY <2>3 DEF ReadArguments, Finish, allVars, benchVars
    <3> QED
      BY <3>1 DEF vars, ifVars, decVars, valVars, FetchInv, CodeAt, Bubble, StaleFetch,
                  Machine!LineOf
  <2> QED
    BY <2>1, <2>2, <2>3 DEF BenchNext
<1> QED
  BY <1>1, <1>2, LoopHolds, BenchKeepsControl, PTL DEF BenchSpec

(***************************************************************************)
(* Instructions that complete.                                             *)
(***************************************************************************)
LEMMA CycleIsIterate ==
  ASSUME [BenchNext]_allVars, ~(UNCHANGED allVars), Cycle
  PROVE  Iterate /\ Posedge
BY DEF BenchNext, Cycle, ReadArguments, LoadElf, EndReset, Iterate, Finish, End

LEMMA CommitIsExecuting ==
  ASSUME BenchControl, Commit, OperandsArchitectural
  PROVE  Executing
BY DEF BenchControl, Commit, Edge, Executing

LEMMA CommittedCode ==
  ASSUME Executing, FetchInv, ~StaleFetch
  PROVE  NextCode = dec_instr_q
<1>1. ArchPc = dec_pc_q /\ ~Bubble
  BY InExecute DEF Executing
<1> QED
  BY <1>1 DEF FetchInv, NextCode, CodeAt

\* Under the testbench too, an instruction that will execute is given the register
\* and csr values of program order, except in the windows of decode.
THEOREM TestOperandsInOrder == BenchSpec => OperandsInOrder
<1>1. BenchControl /\ LoopInv /\ [BenchNext]_allVars
        => [Edge /\ ~(PhantomRd \/ PhantomCsr \/ LateCsr \/ RawCsr)
              => (~flush_v /\ ~Bubble => OperandsArchitectural)']_vars
  <2> SUFFICES ASSUME BenchControl, LoopInv, [BenchNext]_allVars, ~(UNCHANGED vars), Edge,
                      ~(PhantomRd \/ PhantomCsr \/ LateCsr \/ RawCsr), ~flush_v'
               PROVE  OperandsArchitectural'
    OBVIOUS
  <2>1. Posedge
    BY DEF LoopInv, BenchNext, ReadArguments, LoadElf, EndReset, ReleaseReset, Iterate, Finish,
           allVars, Edge
  <2> QED
    BY <2>1, OperandsHandedOver DEF BenchControl
<1> QED
  BY <1>1, LoopHolds, BenchKeepsControl, PTL DEF OperandsInOrder, BenchSpec

\* For every file, what completes is the word the memory holds at its address
\* at that moment, stores to the code included, unless the store directly ahead
\* wrote it (the order of the accesses in the loop of core_tb.cpp).
THEOREM MemoryIsExecuted == BenchSpec => ExecutesMemory
<1>1. BenchControl /\ FetchInv /\ [BenchNext]_allVars
        => [Cycle /\ Commit /\ OperandsArchitectural /\ ~LateVector /\ ~LateByte /\ ~StaleFetch
              => Machine!Exec(NextCode)]_allVars
  <2> SUFFICES ASSUME BenchControl, FetchInv, Posedge, Commit, OperandsArchitectural,
                      ~LateVector, ~LateByte, ~StaleFetch
               PROVE  Machine!Exec(NextCode)
    BY CycleIsIterate
  <2>1. Executing
    BY CommitIsExecuting
  <2>2. NextCode = dec_instr_q
    BY <2>1, CommittedCode
  <2> QED
    BY <2>1, <2>2, TrapCommits, RetireCommits DEF Machine!Exec
<1> QED
  BY <1>1, BenchKeepsControl, FetchHolds, PTL DEF ExecutesMemory, BenchSpec

\* What a cycle out of the windows does.
LEMMA CycleRuns ==
  ASSUME BenchControl, FetchInv, OperandsInv, Iterate, Posedge, ~InWindow, ~(Commit /\ StaleFetch)
  PROVE  /\ IF Commit THEN Machine!Exec(NextCode)
                      ELSE UNCHANGED <<ArchPc, rf_nxt, csr_nxt, ram, core_mode_q>>
         /\ OperandsInv'
<1>1. CoreInv
  BY DEF BenchControl, CoreInv
<1>2. OperandsInv'
  BY OperandsNext DEF BenchControl, Next
<1>3. CASE Commit
  <2>1. Machine!Exec(dec_instr_q)
    BY <1>1, <1>3, CommitExecutes
  <2>2. Executing
    BY <1>1, <1>3, CommitIsExecuting DEF CoreInv, OperandsInv, Commit
  <2>3. NextCode = dec_instr_q
    BY <1>3, <2>2, CommittedCode
  <2> QED
    BY <1>2, <1>3, <2>1, <2>3
<1>4. CASE ~Commit
  <2>1. UNCHANGED Machine!isaVars
    BY <1>1, <1>4, SquashedStutters DEF InWindow
  <2> QED
    BY <1>2, <1>4, <2>1 DEF Machine!isaVars
<1> QED
  BY <1>3, <1>4

\* From operands in program order, a test runs the program its memory holds, for
\* every file: the core, the order of the accesses in the loop of core_tb.cpp and
\* what program order asks of decode.
THEOREM TestsRunTheirMemory == BenchSpec => RunsItsMemory
<1>1. BenchControl /\ FetchInv /\ [BenchNext]_allVars
        => [Cycle /\ OperandsInv /\ ~InWindow /\ ~(Commit /\ StaleFetch)
              => /\ IF Commit THEN Machine!Exec(NextCode)
                              ELSE UNCHANGED <<ArchPc, rf_nxt, csr_nxt, ram, core_mode_q>>
                 /\ OperandsInv']_allVars
  BY CycleIsIterate, CycleRuns
<1> QED
  BY <1>1, FetchHolds, BenchKeepsControl, PTL DEF BenchSpec, RunsItsMemory

\* The distances of KeepsDistances, kept by a whole test, which also executes no
\* word that the store directly ahead of it writes.
TestKeepsDistances == [][Cycle => ~InWindow /\ ~(Commit /\ StaleFetch)]_allVars

\* From the start of such a test its operands are in program order.
LEMMA TestOperandsKept == BenchSpec /\ TestKeepsDistances => []OperandsInv
<1>1. BenchInit => OperandsInv
  BY OperandsInit DEF BenchInit
<1>2. BenchControl /\ LoopInv /\ FetchInv /\ OperandsInv /\ [BenchNext]_allVars
      /\ [Cycle => ~InWindow /\ ~(Commit /\ StaleFetch)]_allVars => OperandsInv'
  <2> SUFFICES ASSUME BenchControl, LoopInv, FetchInv, OperandsInv, [BenchNext]_allVars,
                      [Cycle => ~InWindow /\ ~(Commit /\ StaleFetch)]_allVars
               PROVE  OperandsInv'
    OBVIOUS
  <2>1. CASE LoadElf \/ EndReset
    <3>1. Bubble
      BY <2>1 DEF LoadElf, EndReset, LoopInv, BenchControl, PipelineInv, ResetDrains
    <3>2. Bubble'
      BY <2>1, <3>1 DEF LoadElf, EndReset, ReleaseReset, Bubble, decVars
    <3> QED
      BY <3>2 DEF OperandsInv
  <2>2. CASE Iterate
    <3>1. Cycle /\ Posedge
      BY <2>2 DEF Iterate, Cycle
    <3>2. CASE UNCHANGED allVars
      BY <2>2, <3>2, OperandsNext DEF allVars, BenchControl
    <3>3. CASE ~(UNCHANGED allVars)
      BY <2>2, <3>1, <3>3, CycleRuns
    <3> QED
      BY <3>2, <3>3
  <2>3. CASE ReadArguments \/ Finish \/ UNCHANGED allVars
    <3>1. UNCHANGED vars
      BY <2>3 DEF ReadArguments, Finish, allVars
    <3> QED
      BY <3>1, OperandsNext DEF BenchControl
  <2> QED
    BY <2>1, <2>2, <2>3 DEF BenchNext
<1> QED
  BY <1>1, <1>2, LoopHolds, FetchHolds, BenchKeepsControl, PTL DEF BenchSpec, TestKeepsDistances

\* A test that keeps its distances is the sequential machine with the memory of
\* the testbench, cycle by cycle and from the first one, for every file.
THEOREM TestsAreSequential ==
  BenchSpec /\ TestKeepsDistances =>
    [][Cycle => IF Commit THEN Machine!Exec(NextCode)
                          ELSE UNCHANGED <<ArchPc, rf_nxt, csr_nxt, ram, core_mode_q>>]_allVars
<1>1. BenchControl /\ FetchInv /\ OperandsInv /\ [BenchNext]_allVars
      /\ [Cycle => ~InWindow /\ ~(Commit /\ StaleFetch)]_allVars
        => [Cycle => IF Commit THEN Machine!Exec(NextCode)
                               ELSE UNCHANGED <<ArchPc, rf_nxt, csr_nxt, ram, core_mode_q>>]_allVars
  BY CycleIsIterate, CycleRuns
<1> QED
  BY <1>1, FetchHolds, TestOperandsKept, BenchKeepsControl, PTL DEF BenchSpec, TestKeepsDistances

(***************************************************************************)
(* The log.                                                                *)
(***************************************************************************)

\* The flops the next line is made of, as the wires they take.
LEMMA NextLine ==
  ASSUME Iterate
  PROVE  log_line' =
           IF ~(wbk_v_nxt \/ csr_wbk_v_nxt \/ adr_v_o) THEN NoLine
           ELSE [pc     |-> dec_pc_q,
                 rd     |-> IF wbk_v_nxt THEN dec_instr_q.rd ELSE 0,
                 data   |-> IF wbk_v_nxt /\ dec_instr_q.rd # 0 THEN wbk_data_nxt ELSE 0,
                 adr    |-> IF adr_v_o THEN {mem_adr} ELSE {},
                 stored |-> IF is_store THEN {Low(dec_rs2_data_q)} ELSE {},
                 csr    |-> IF csr_wbk_v_nxt THEN {<<wbk_csr_adr_o(dec_instr_q), csr_data_nxt>>}
                                             ELSE {}]
BY DEF Iterate, Posedge, ExeEdge, ValEdge, log_line, NoLine

\* A squashed instruction, a bubble and an instruction that traps log nothing.
LEMMA NothingToLog ==
  ASSUME BenchControl, Iterate, flush_v \/ Bubble \/ exception_nxt
  PROVE  log_line' = NoLine
<1>1. flush_v \/ Bubble => ~wbk_v_nxt /\ ~csr_wbk_v_nxt
  BY SquashedWritesNothing DEF BenchControl
<1>2. flush_v \/ Bubble => ~adr_v_o
  BY ZeroInstrIsIdle DEF adr_v_o, lsu_en, unit, Bubble
<1>3. exception_nxt => ~wbk_v_nxt /\ ~csr_wbk_v_nxt /\ ~adr_v_o
  BY DEF wbk_v_nxt, csr_wbk_v_nxt, adr_v_o
<1> QED
  BY <1>1, <1>2, <1>3, NextLine

\* An instruction that does not trap logs what the sequential machine reads and
\* writes.
LEMMA LineOfCommit ==
  ASSUME Executing, Iterate, ~exception_nxt, ~LateByte, ~LogsOtherwise,
         NEW i, i = dec_instr_q
  PROVE  log_line' = ExpectedLine(i)
<1>1. WellFormed(i) /\ ~flush_v /\ ArchPc = dec_pc_q /\ (dec_wbk_v_q <=> wbk_v_o(i))
  BY InExecute DEF Executing
<1>2. ~Machine!Traps(i) /\ i.name \notin {"illegal", "ecall", "ebreak", "sd"}
  BY TrapAgrees DEF Machine!Traps, LogsOtherwise
<1>3. wbk_v_nxt <=> Machine!HasResult(i)
  BY <1>1, <1>2, FenceName DEF wbk_v_nxt, Machine!HasResult, wbk_v_o, WellFormed, Opcodes
<1>4. Machine!HasResult(i) => wbk_data_nxt = Machine!Result(i) /\ i.rd # 0
  BY WriteBackAgrees DEF Machine!HasResult
<1>5. csr_wbk_v_nxt <=> Machine!CsrWritten(i)
  <2>1. csr_wbk_o(i) \/ Machine!CsrWritten(i) => i.name \in CsrNames \union {"mret"}
    BY DEF csr_wbk_o, Machine!CsrWritten, CsrNames, CsrImmediate
  <2> QED
    BY <1>1, <2>1, CsrOperands DEF csr_wbk_v_nxt
<1>6. Machine!CsrWritten(i) => /\ wbk_csr_adr_o(i) = Machine!CsrName(i)
                               /\ csr_data_nxt = Machine!CsrValue(i)
  <2> SUFFICES ASSUME Machine!CsrWritten(i)
               PROVE  wbk_csr_adr_o(i) = Machine!CsrName(i) /\ csr_data_nxt = Machine!CsrValue(i)
    OBVIOUS
  <2>1. i.name \in CsrNames \union {"mret"}
    BY DEF Machine!CsrWritten, CsrNames, CsrImmediate
  <2>2. wbk_csr_adr_o(i) = Machine!CsrName(i) /\ csr_wbk_o(i)
    BY <2>1, CsrOperands
  <2> QED
    BY <2>1, <2>2, CsrAgrees DEF LogsOtherwise
<1>7. i.opc = "S" <=> i.name \in {"sb", "sh", "sw"}
  BY <1>1, <1>2, NameTellsOpcode DEF WellFormed, NamesOf
<1>8. adr_v_o <=> Machine!Width(i) # 0
  BY <1>7, AccessAgrees DEF adr_v_o, Machine!Width, LoadNames
<1>9. Machine!Width(i) # 0 => mem_adr = Machine!DataAdr(i)
  BY <1>8, AccessAgrees DEF adr_v_o
<1>10. is_store <=> i.name \in {"sb", "sh", "sw"}
  BY <1>7, AccessAgrees
<1>11. is_store => Low(dec_rs2_data_q) = rf_nxt[i.rs2]
  <2>1. is_store => i.opc = "S" /\ ~rs2_ca2_v_o(i)
    BY <1>7, <1>10 DEF rs2_ca2_v_o
  <2> QED
    BY <2>1, Operands, SignBitExtends DEF X2
<1> QED
  BY <1>1, <1>2, <1>3, <1>4, <1>5, <1>6, <1>8, <1>9, <1>10, <1>11, NextLine DEF ExpectedLine

\* For every file and every instruction, the next line of the log is that of the
\* instruction that completes, and an instruction that is squashed or traps has
\* none (the VALIDATION flops of core.sv and the fields core_tb.cpp prints).
THEOREM LogIsOfCommits == BenchSpec => LogTellsCommit
<1>1. BenchControl /\ [BenchNext]_allVars
        => [/\ Cycle
            /\ Commit => OperandsArchitectural /\ ~LateByte /\ ~LogsOtherwise
            => log_line' = IF Commit THEN ExpectedLine(dec_instr_q) ELSE NoLine]_allVars
  <2> SUFFICES ASSUME BenchControl, Iterate, Posedge,
                      Commit => OperandsArchitectural /\ ~LateByte /\ ~LogsOtherwise
               PROVE  log_line' = IF Commit THEN ExpectedLine(dec_instr_q) ELSE NoLine
    BY CycleIsIterate
  <2>1. CASE ~Commit
    <3>1. flush_v \/ Bubble
      BY <2>1 DEF Commit, Edge, Posedge
    <3> QED
      BY <2>1, <3>1, NothingToLog
  <2>2. CASE Commit /\ exception_nxt
    <3>1. Machine!Traps(dec_instr_q)
      BY <2>2, CommitIsExecuting, TrapAgrees
    <3> QED
      BY <2>2, <3>1, NothingToLog DEF ExpectedLine
  <2>3. CASE Commit /\ ~exception_nxt
    BY <2>3, CommitIsExecuting, LineOfCommit
  <2> QED
    BY <2>1, <2>2, <2>3
<1> QED
  BY <1>1, BenchKeepsControl, PTL DEF LogTellsCommit, BenchSpec

(***************************************************************************)
(* Verdicts.                                                               *)
(***************************************************************************)

\* A straight instruction does what its name says: whatever the registers hold,
\* the sequential machine does not trap on it and goes on to the next word.
LEMMA StraightGoesOn ==
  ASSUME NEW i, WellFormed(i), Straight(i)
  PROVE  ~Machine!Traps(i) /\ Machine!NextPc(i) = (ArchPc + 4) % WORD
<1>1. i.name \notin {"illegal", "ecall", "ebreak", "mret", "sret", "jal", "jalr"} \union Branches
  BY DEF Straight, WellFormed, NamesOf, Branches, Shifts, LoadNames, CsrNames, CsrImmediate
<1>2. Machine!Width(i) = 0
  BY DEF Straight, WellFormed, NamesOf, Machine!Width, Branches, Shifts, LoadNames, CsrNames, CsrImmediate
<1>3. ~Machine!Taken(i)
  BY <1>1 DEF Machine!Taken, Branches
<1>4. ~Machine!Traps(i)
  BY <1>1, <1>2, <1>3 DEF Machine!Traps, Machine!MissalignedTarget, Machine!MissalignedData
<1>5. Machine!NextPc(i) = Machine!Plus(ArchPc, 4)
  BY <1>1, <1>3 DEF Machine!NextPc
<1> QED
  BY <1>4, <1>5, SharedNames

\* One and two words before an address.
LEMMA WordsBefore ==
  ASSUME NEW a \in Word, NEW b \in Word, a = (b + 4) % WORD
  PROVE  b = (a - 4) % WORD
<1>1. b \in Nat /\ b < WORD /\ WORD \in Nat /\ WORD > 11
  BY Widths DEF Word
<1>2. \E k \in Int : a - 4 = b + k * WORD
  <2>1. CASE b + 4 < WORD
    <3>1. a - 4 = b + 0 * WORD
      BY <1>1, <2>1
    <3> QED
      BY <3>1
  <2>2. CASE b + 4 >= WORD
    <3>1. (b + 4) % WORD = b + 4 - WORD
      BY <1>1, <2>2
    <3>2. a - 4 = b + (-1) * WORD
      BY <1>1, <3>1
    <3> QED
      BY <3>2
  <2> QED
    BY <1>1, <2>1, <2>2
<1>3. PICK k \in Int : a - 4 = b + k * WORD
  BY <1>2
<1>4. (b + k * WORD) % WORD = b % WORD
  BY <1>1, ModShift
<1>5. b % WORD = b
  BY <1>1
<1> QED
  BY <1>3, <1>4, <1>5

LEMMA TwoWordsBefore ==
  ASSUME NEW a \in Word, NEW b \in Word, NEW c \in Word,
         a = (b + 4) % WORD, b = (c + 4) % WORD
  PROVE  c = (a - 8) % WORD
<1>1. b \in Nat /\ c \in Nat /\ c < WORD /\ WORD \in Nat /\ WORD > 11 /\ a \in Int
  BY Widths DEF Word
<1>2. c = (b - 4) % WORD /\ b = (a - 4) % WORD
  BY WordsBefore
<1>3. \E k \in Int : a - 4 = b + k * WORD
  <2>1. a - 4 = WORD * ((a - 4) \div WORD) + ((a - 4) % WORD) /\ (a - 4) \div WORD \in Int
    BY <1>1
  <2>2. a - 4 = b + ((a - 4) \div WORD) * WORD
    BY <1>1, <1>2, <2>1
  <2> QED
    BY <2>1, <2>2
<1>4. PICK k \in Int : a - 4 = b + k * WORD
  BY <1>3
<1> DEFINE before == b - 4
<1>5. a - 8 = before + k * WORD /\ before \in Int /\ c = before % WORD
  BY <1>1, <1>2, <1>4
<1>6. WORD \in Nat /\ WORD > 0
  BY <1>1
<1> HIDE DEF before
<1>7. (before + k * WORD) % WORD = before % WORD
  BY <1>4, <1>5, <1>6, ModShift
<1> QED
  BY <1>5, <1>7

\* The fetch has stood at no label that ends the test: it would have ended there.
NotAtLabel ==
  phase = "run" /\ ~riscof => /\ if_reset_n_q => if_pc_q \notin EndLabels
                              /\ ~Bubble => dec_pc_q \notin EndLabels

LEMMA NotAtLabelHolds == BenchSpec => []NotAtLabel
<1>1. BenchInit => NotAtLabel
  BY DEF BenchInit, NotAtLabel
<1>2. BenchControl /\ LoopInv /\ NotAtLabel /\ [BenchNext]_allVars => NotAtLabel'
  <2> SUFFICES ASSUME BenchControl, LoopInv, NotAtLabel, [BenchNext]_allVars, phase' = "run"
               PROVE  NotAtLabel'
    BY DEF NotAtLabel
  <2>1. CASE Iterate
    <3>1. /\ phase = "run" /\ UNCHANGED <<labels, opts>> /\ ending_nxt = "none"
          /\ if_pc_q' = pc_adr /\ dec_pc_q' = if_pc_q /\ dec_instr_q' = if_instr_q
          /\ dec_illegal_inst_q' = illegal_inst_q_nxt
      BY <2>1 DEF Iterate, Posedge, IfetchEdge, DecEdge, pc_adr
    <3>2. EndLabels' = EndLabels /\ riscof' = riscof
      BY <3>1 DEF EndLabels, riscof
    <3>3. ~riscof => pc_adr \notin EndLabels
      BY <3>1 DEF ending_nxt, EndLabels
    <3>4. ~if_reset_n_q => Bubble'
      BY <3>1 DEF BenchControl, PipelineInv, ResetDrains, Bubble, illegal_inst_q_nxt
    <3> QED
      BY <3>1, <3>2, <3>3, <3>4 DEF NotAtLabel
  <2>2. CASE EndReset
    <3>1. ~if_reset_n_q /\ Bubble
      BY <2>2 DEF EndReset, LoopInv, BenchControl, PipelineInv, ResetDrains
    <3>2. ~if_reset_n_q' /\ Bubble'
      BY <2>2, <3>1 DEF EndReset, ReleaseReset, ifVars, decVars, Bubble
    <3> QED
      BY <3>2 DEF NotAtLabel
  <2>3. CASE UNCHANGED allVars
    BY <2>3 DEF allVars, vars, benchVars, ifVars, decVars, NotAtLabel, EndLabels, riscof, Bubble
  <2>4. CASE ReadArguments \/ LoadElf \/ Finish
    BY <2>4 DEF ReadArguments, LoadElf, Finish, End
  <2> QED
    BY <2>1, <2>2, <2>3, <2>4 DEF BenchNext
<1> QED
  BY <1>1, <1>2, LoopHolds, BenchKeepsControl, PTL DEF BenchSpec

\* A verdict is taken in the loop, out of the reset, on a label.
LEMMA VerdictStep ==
  ASSUME LoopInv, BenchTypeOK, [BenchNext]_allVars, ~(UNCHANGED allVars), Verdict
  PROVE  phase = "run" /\ reset_n /\ ~riscof /\ pc_adr \in EndLabels
<1>1. ending = "none"
  BY DEF BenchTypeOK, Verdict
<1>2. Finish
  BY <1>1 DEF BenchNext, ReadArguments, LoadElf, EndReset, Iterate, End, Verdict
<1>3. phase = "run" /\ ending_nxt \in {"bad", "good", "exception"}
  BY <1>2 DEF Finish, End, Verdict
<1> QED
  BY <1>3 DEF LoopInv, ending_nxt, EndLabels

\* Where the program stands while an address is fetched.
LEMMA FetchIsNear ==
  ASSUME BenchControl, reset_n
  PROVE  /\ pc_adr \in Word
         /\ \/ ArchPc = pc_adr
            \/ /\ if_reset_n_q /\ ~branch_v_q /\ ~exception_q
               /\ if_pc_q = (pc_adr - 4) % WORD
               /\ \/ ArchPc = if_pc_q /\ (flush_v \/ Bubble)
                  \/ ArchPc = dec_pc_q /\ ~flush_v /\ ~Bubble /\ dec_pc_q = (pc_adr - 8) % WORD
<1>1. if_pc_q \in Word /\ dec_pc_q \in Word /\ pc_data_q \in Word /\ ResetAdr \in Word
  BY ResetAssumption DEF BenchControl, TypeOK, IfTypeOK, DecTypeOK, WbkTypeOK
<1>2. (if_pc_q + 4) % WORD \in Word
  BY <1>1, WrapType, WordIsExtended
<1>3. pc_adr \in Word
  BY <1>1, <1>2 DEF pc_adr, pc_fetched_nxt
<1>4. CASE ~if_reset_n_q \/ branch_v_q \/ exception_q
  BY <1>3, <1>4 DEF pc_adr, pc_fetched_nxt, end_reset_valid, ArchPc
<1>5. CASE if_reset_n_q /\ ~branch_v_q /\ ~exception_q
  <2>1. pc_adr = (if_pc_q + 4) % WORD
    BY <1>5 DEF pc_adr, pc_fetched_nxt, end_reset_valid
  <2>2. if_pc_q = (pc_adr - 4) % WORD
    BY <1>1, <1>3, <2>1, WordsBefore
  <2>3. CASE flush_v \/ Bubble
    <3>1. ArchPc = if_pc_q
      BY <1>5, <2>3 DEF ArchPc, flush_v
    <3> QED
      BY <1>3, <1>5, <2>2, <2>3, <3>1
  <2>4. CASE ~flush_v /\ ~Bubble
    <3>1. ArchPc = dec_pc_q
      BY <1>5, <2>4 DEF ArchPc, flush_v
    <3>2. if_pc_q = (dec_pc_q + 4) % WORD
      BY <2>4 DEF BenchControl, StreamInv
    <3>3. dec_pc_q = (pc_adr - 8) % WORD
      BY <1>1, <1>3, <2>1, <3>2, TwoWordsBefore
    <3> QED
      BY <1>3, <1>5, <2>2, <2>4, <3>1, <3>3
  <2> QED
    BY <2>3, <2>4
<1> QED
  BY <1>4, <1>5

\* For every file and every program, a verdict is taken where the program stands
\* at the label or one or two words ahead of it, although core_tb.cpp compares
\* the label with the address being fetched.
THEOREM VerdictsAreNear == BenchSpec => VerdictIsNear
<1>1. BenchControl /\ LoopInv /\ BenchTypeOK /\ [BenchNext]_allVars
        => [Verdict => \E n \in {0, 4, 8} : ArchPc = (pc_adr - n) % WORD]_allVars
  <2> SUFFICES ASSUME BenchControl, LoopInv, BenchTypeOK, [BenchNext]_allVars,
                      ~(UNCHANGED allVars), Verdict
               PROVE  \E n \in {0, 4, 8} : ArchPc = (pc_adr - n) % WORD
    OBVIOUS
  <2>1. reset_n
    BY VerdictStep
  <2>2. pc_adr = (pc_adr - 0) % WORD
    <3>1. pc_adr \in Nat /\ pc_adr < WORD /\ WORD \in Nat
      BY <2>1, FetchIsNear, Widths DEF Word
    <3> QED
      BY <3>1
  <2>3. ArchPc \in {pc_adr, (pc_adr - 4) % WORD, (pc_adr - 8) % WORD}
    BY <2>1, FetchIsNear
  <2> QED
    BY <2>2, <2>3
<1> QED
  BY <1>1, LoopHolds, BenchTypesHold, BenchKeepsControl, PTL DEF BenchSpec, VerdictIsNear

\* Where the test ends at a label, the program has arrived there or is taken there
\* by what the pipeline holds: for every file and every program that does not turn
\* away in the two words in front of a label.
THEOREM VerdictsAreFinal == BenchSpec /\ []KeepsOffLabels => VerdictIsFinal
<1> DEFINE Final == \/ ArchPc = pc_adr
                    \/ /\ ~branch_v_q /\ ~exception_q
                       /\ Straight(if_instr_q)
                       /\ \/ ArchPc = (pc_adr - 4) % WORD /\ (flush_v \/ Bubble)
                          \/ ArchPc = (pc_adr - 8) % WORD /\ Straight(dec_instr_q)
<1>1. BenchControl /\ LoopInv /\ BenchTypeOK /\ FetchInv /\ NotAtLabel /\ KeepsOffLabels
      /\ [BenchNext]_allVars
        => [Verdict /\ ~StaleFetch => Final]_allVars
  <2> SUFFICES ASSUME BenchControl, LoopInv, BenchTypeOK, FetchInv, NotAtLabel, KeepsOffLabels,
                      [BenchNext]_allVars, ~(UNCHANGED allVars), Verdict, ~StaleFetch,
                      ArchPc # pc_adr
               PROVE  Final
    OBVIOUS
  <2>1. phase = "run" /\ reset_n /\ ~riscof /\ pc_adr \in EndLabels
    BY VerdictStep
  <2>2. if_reset_n_q /\ ~branch_v_q /\ ~exception_q /\ if_pc_q = (pc_adr - 4) % WORD
    BY <2>1, FetchIsNear
  <2>3. if_pc_q \notin EndLabels /\ if_instr_q = CodeAt(if_pc_q)
    BY <2>1, <2>2 DEF NotAtLabel, FetchInv
  <2>4. \A n \in {4, 8} : ArchPc = (pc_adr - n) % WORD =>
          \A m \in {4, n} : (pc_adr - m) % WORD \in EndLabels \/ Straight(CodeAt((pc_adr - m) % WORD))
    BY <2>1 DEF KeepsOffLabels
  <2>5. CASE ArchPc = if_pc_q /\ (flush_v \/ Bubble)
    BY <2>2, <2>3, <2>4, <2>5
  <2>6. CASE ArchPc = dec_pc_q /\ ~flush_v /\ ~Bubble /\ dec_pc_q = (pc_adr - 8) % WORD
    <3>1. dec_pc_q \notin EndLabels /\ dec_instr_q = CodeAt(dec_pc_q)
      BY <2>1, <2>6 DEF NotAtLabel, FetchInv
    <3> QED
      BY <2>2, <2>3, <2>4, <2>6, <3>1
  <2> QED
    BY <2>1, <2>5, <2>6, FetchIsNear
<1> QED
  BY <1>1, LoopHolds, FetchHolds, BenchTypesHold, NotAtLabelHolds, BenchKeepsControl, PTL
  DEF BenchSpec, VerdictIsFinal
=============================================================================
