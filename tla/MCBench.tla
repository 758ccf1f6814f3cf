------------------------------ MODULE MCBench ------------------------------
(***************************************************************************)
(* Tests run from their ELF file.  The program starts at 4 and picks a     *)
(* word at every step: it may store to its own code one, two or three      *)
(* words ahead, set the trap vector, trap, and reach a label by a jump, by *)
(* running into it, or never.  The labels are side by side behind empty    *)
(* words, as in sw/user/exit.s (which has eight; the fetch looks two words *)
(* ahead, four are enough).  For a program that is to run into a label,    *)
(* these words do nothing instead.                                         *)
(***************************************************************************)
EXTENDS Testbench, MCBase

Code == <<Lui(1, 1), Lui(1, 52), I("addi", 1, 1, 2), I("addi", 2, 1, 4),
          S("sw", 0, 1, 12), S("sw", 0, 1, 16), S("sb", 0, 1, 20),
          C("csrrw", 2, "mtvec", 1), P("ecall"), B("beq", 1, 2, 28), L("lw", 2, 0, 16),
          Jal(0, 0), Jal(0, 20), Jal(2, 28), Jal(0, 228), Jalr(0, 1, 248),
          C("csrrw", 2, "mcause", 0)>>
MCCodeOf == [w \in MCWord |-> IF w \in DOMAIN Code THEN Code[w] ELSE ZeroInstr]
MCInstr == {ZeroInstr} \union {Code[k] : k \in DOMAIN Code}
MCText == [a \in MCWord |-> MCInstr]
Number == [i \in MCInstr |-> IF i = ZeroInstr THEN 0 ELSE CHOOSE k \in DOMAIN Code : Code[k] = i]

Wait == Jal(0, 0)
Pass == I("addi", 2, 1, 4)

\* The words from 4 to 20, the four before the labels at 40, 44 and 48, and the
\* handler at 52.
Heads ==
  {<<Number[a], Number[b], Number[c], Number[d], Number[e]>> :
     a \in {Lui(1, 1), Lui(1, 52)},
     b \in {S("sw", 0, 1, 12), S("sw", 0, 1, 16), S("sb", 0, 1, 20), C("csrrw", 2, "mtvec", 1)},
     c \in {Pass, I("addi", 1, 1, 2), P("ecall"), B("beq", 1, 2, 28)},
     d \in {Pass, L("lw", 2, 0, 16), ZeroInstr},
     e \in {Jal(0, 20), Jal(2, 28), Pass, P("ecall"), Wait}}
Empty == <<0, 0, 0, 0>>
Straightway == [k \in 1..4 |-> Number[Pass]]
Rest == LET wait == Number[Wait]
        IN  <<wait, wait, wait, Number[C("csrrw", 2, "mcause", 0)], Number[Pass], Number[Jalr(0, 1, 248)]>>

Section(adr, data, symbols) == [adr |-> adr, data |-> data, symbols |-> symbols]
TextSection(p) == Section(4, p, <<>>)

Symbol(name, value) == [name |-> name, value |-> value]
Entry == <<Symbol("_reset", 4), Symbol("rvtest_entry_point", 4)>>
Ends  == <<Symbol("_bad", 32), Symbol("_bad", 40), Symbol("_good", 44),
           Symbol("_exception_occur", 48), Symbol("rvtest_code_end", 40),
           Symbol("begin_signature", 12), Symbol("end_signature", 18)>>

\* The sections of a file: one without an address, the text, sometimes one
\* that overlaps it, and the symbols, which may say nothing of the ends: those
\* labels are 0, and the program runs into them from the last words there are.
MCFiles ==
  {<<Section(0, <<7>>, <<>>), TextSection(h \o Empty \o Rest), Section(0, <<>>, Entry \o Ends)>> : h \in Heads}
  \union
  {<<TextSection(h \o Straightway \o Rest), Section(0, <<>>, Entry \o Ends)>> :
     h \in {g \in Heads : g[5] = Number[Pass]}}
  \union
  {<<TextSection(h \o Empty \o Rest), Section(20, <<Number[Jal(0, 228)], 0>>, Entry),
     Section(248, <<Number[Pass], Number[Pass]>>, <<>>)>> : h \in {g \in Heads : g[5] = Number[Wait]}}

MCCommandLine ==
  {<<"a.out", "--stats">>, <<"my.elf", "--riscof", "--debug">>, <<"my.elf", "--riscof">>,
   <<"a.out", "--help", "--riscof", "sig">>, <<>>}

MCBenchRam == {[a \in MCLine |-> 0]}
MCGarbage == {0}
=============================================================================
