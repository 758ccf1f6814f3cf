------------------------------- MODULE Loader -------------------------------
(***************************************************************************)
(* What the testbench (core_tb.cpp) prepares before it clocks the core:    *)
(* the options of its command line, the memory filled from the sections of *)
(* an ELF file, and the addresses it looks up among the symbols.           *)
(*                                                                         *)
(* A section is its address, the words seen through the unsigned int       *)
(* pointer to its data (none when it has no data; when its size is not a   *)
(* multiple of four, the last one holds bytes from behind the buffer), and *)
(* its symbols when it is a symbol table.                                  *)
(***************************************************************************)
EXTENDS KlawPkg, Sequences, SequencesExt

\* The symbols and sections of a file, as the reader returns them.
SymbolType  == [name : STRING, value : Word]
SectionType == [adr : Word, data : Seq(Word), symbols : Seq(SymbolType)]

CONSTANT Garbage   \* what an int that nothing has written may hold

ASSUME GarbageAssumption == Garbage \subseteq Word /\ Garbage # {}

(***************************************************************************)
(* Command line, from argv[1].  The word behind --riscof names the         *)
(* signature file, and is still compared with the options below it.        *)
(* opens counts the opens of the one statistics stream, named those of the *)
(* signature: a second open fails the stream, and what it is given is lost.*)
(***************************************************************************)
NoOptions == [help |-> FALSE, wants_name |-> FALSE, named |-> 0, debug |-> FALSE,
              stats |-> FALSE, opens |-> 0]

ParseArg(o, arg) ==
  IF o.help THEN o
  ELSE LET name == o.wants_name
           opened == (IF name THEN 1 ELSE 0) + (IF arg = "--stats" THEN 1 ELSE 0)
       IN  [help       |-> ~name /\ arg = "--help",
            wants_name |-> ~name /\ arg = "--riscof",
            named      |-> o.named + IF name THEN 1 ELSE 0,
            debug      |-> o.debug \/ arg = "--debug",
            stats      |-> o.stats \/ arg = "--stats",
            opens      |-> o.opens + opened]

\* Too few words, --help, or --riscof without a name: the usage, and the end.
Options(argv) ==
  LET o == FoldLeft(ParseArg, NoOptions, Tail(argv))
  IN  IF argv = <<>> THEN [NoOptions EXCEPT !.help = TRUE]
      ELSE [o EXCEPT !.help = @ \/ o.wants_name]

Riscof(o) == o.named > 0

(***************************************************************************)
(* The memory is a map from int to int, zero where nothing was written.    *)
(* The sections are written to it in order, so a word is that of the last  *)
(* one that covers it; a section at address zero is left out.              *)
(***************************************************************************)
\* Mutant: what is written first stays.
Latest_First(S) == {k \in S : \A l \in S : k <= l}

\* The last of a set of positions: what is left when each overwrites those
\* before it.  The result is a set, empty when there is none.
Latest(S) == {k \in S : \A l \in S : l <= k}

\* The element of a set of one.
The(S) == CHOOSE e \in S : TRUE

Offset(sec, a) == (a - sec.adr) % WORD
Covers(sec, a) ==
  sec.adr # 0 /\ Offset(sec, a) % 4 = 0 /\ Offset(sec, a) \div 4 < Len(sec.data)

LoadRam(r, sections) ==
  [a \in DOMAIN r |->
     LET last == Latest({k \in DOMAIN sections : Covers(sections[k], a)})
         sec  == sections[The(last)]
     IN  IF last = {} THEN r[a] ELSE sec.data[Offset(sec, a) \div 4 + 1]]

(***************************************************************************)
(* Symbols: the last one of a name wins.  Only the rvtest_ addresses have  *)
(* an initial value.                                                       *)
(***************************************************************************)
Initialized == {"rvtest_code_end", "rvtest_entry_point", "rvtest_end"}
LabelNames == Initialized \union
  {"_reset", "_bad", "_good", "_exception_occur", "begin_signature", "end_signature"}

UnsetLabels ==
  {[n \in LabelNames |-> IF n \in Initialized THEN WORD - 1 ELSE g[n]]
     : g \in [LabelNames \ Initialized -> Garbage]}

Named(sec, n) == Latest({j \in DOMAIN sec.symbols : sec.symbols[j].name = n})

LoadLabels(unset, sections) ==
  [n \in DOMAIN unset |->
     LET last == Latest({k \in DOMAIN sections : Named(sections[k], n) # {}})
         sec  == sections[The(last)]
     IN  IF last = {} THEN unset[n] ELSE sec.symbols[The(Named(sec, n))].value]

reset_adr(o, labels) == IF Riscof(o) THEN labels["rvtest_entry_point"] ELSE labels["_reset"]
=============================================================================
