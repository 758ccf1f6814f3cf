------------------------------ MODULE MCWords ------------------------------
(***************************************************************************)
(* Every line of the decoder, one at a time, and values, on words of       *)
(* two-bit bytes.  The word at 72 says which of three programs runs.       *)
(*                                                                         *)
(* At 160: loads and stores of every size at every offset, then a load of  *)
(* the whole word.  A misaligned access traps to address 0.                *)
(*                                                                         *)
(* At 32: the values around the sign bit, the carry and the wrap, in       *)
(* pairs, through the comparisons, the adder and the stages of the         *)
(* shifter, with the operands forwarded from execute and from write back.  *)
(* A taken branch loads another second operand.                            *)
(*                                                                         *)
(* At 96: two words load values, the third is any instruction.             *)
(*                                                                         *)
(* Any other word waits.                                                   *)
(***************************************************************************)
EXTENDS MCBase

Boundary == {0, 127, 128, 255}
Amounts  == {1, 2, 4, 6}

Tested ==
  {R(n, 2, 1, 2) : n \in NamesOf("R")} \union {I(n, 2, 1, 2) : n \in NamesOf("I")}
  \union {L(n, 2, 1, 1) : n \in NamesOf("L")} \union {L("lw", 2, 0, 8), L("lh", 2, 1, 0)}
  \union {S(n, 1, 2, 0) : n \in NamesOf("S")} \union {B(n, 1, 2, 12) : n \in NamesOf("B")}
  \union {Jal(2, 12), Jal(2, 6), Jalr(2, 1, 0), Lui(2, 8), Auipc(2, 8)}
  \union {C(n, 2, c, 1) : n \in CsrNames, c \in {"mscratch", "mstatus", "marchid"}}
  \union {P(n) : n \in {"ecall", "ebreak", "mret", "sret", "nop", "illegal"}}
  \union {Word0("FENCE", "fence"), ZeroInstr, [P("mret") EXCEPT !.rd = 2]}

MCText ==
  [a \in MCWord |->
     CASE a = 4   -> {L("lw", 1, 0, 72)}
       [] a = 8   -> {Jalr(0, 1, 0)}
       [] a = 160 -> {Lui(1, w) : w \in 64 .. 67}
       [] a = 164 -> {Lui(2, 27), Lui(2, 228)}
       [] a = 168 -> {L(n, 2, 1, 0) : n \in LoadNames}
                       \union {S(n, 1, 2, 0) : n \in {"sb", "sh", "sw"}}
       [] a = 172 -> {L("lw", 2, 0, 64)}
       [] a = 32  -> {Lui(1, w) : w \in Boundary}
       [] a = 36  -> {Lui(2, w) : w \in Boundary \union Amounts}
       [] a = 40  -> {B(n, 1, 2, 252) : n \in Branches}
                       \union {R(n, 1, 1, 2) : n \in {"add", "sub", "slt", "sltu", "sll", "srl", "sra"}}
       [] a = 96  -> {Lui(1, 8), Lui(1, 9), Lui(1, 3)}
       [] a = 100 -> {I("addi", 2, 1, 254), I("addi", 2, 1, 0)}
       [] a = 104 -> Tested
       [] a % 4 = 0 -> {Jal(0, 0)}
       [] OTHER  -> {ZeroInstr}]
MCInstr == UNION {MCText[a] : a \in DOMAIN MCText}
MCWordsRam ==
  {[a \in MCLine |-> CASE a = 64 -> p[2] [] a = 72 -> p[1] [] OTHER -> 0] :
     p \in {<<160, 108>>, <<160, 147>>, <<32, 0>>, <<96, 0>>}}
=============================================================================
