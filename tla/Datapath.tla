------------------------------ MODULE Datapath ------------------------------
(***************************************************************************)
(* The combinational units exe.sv instantiates: the adder and gates of     *)
(* alu.sv, the stages of shifter.sv, the branch unit of bu.sv and the      *)
(* load-store unit of lsu.sv.                                              *)
(* cmd is the operation vector, as the set of its one bits; the operands   *)
(* are XLEN+1 bits wide, the extra bit being the sign (or zero) extension  *)
(* decode added.                                                           *)
(***************************************************************************)
EXTENDS Decoder

\* The XLEN+1 bit adder alu and bu share; its top bit is the borrow of a
\* comparison when decode negated the second operand.
addition_res(a, b) == (a + b) % (2 * WORD)
Low(e)    == e % WORD
Borrow(e) == e >= WORD

alu_data_o(en, cmd, a, b) ==
  IF ~en THEN 0
  ELSE CASE ADD \in cmd -> Low(addition_res(a, b))
         [] SLT \in cmd -> IF Borrow(addition_res(a, b)) THEN 1 ELSE 0
         [] AND \in cmd -> BitAnd(Low(a), Low(b))
         [] OR  \in cmd -> BitOr(Low(a), Low(b))
         [] XOR \in cmd -> BitXor(Low(a), Low(b))
         [] OTHER -> 0

(***************************************************************************)
(* Shifter.  Each stage shifts by its distance when its bit of the amount  *)
(* is set, and the next one takes what it leaves.  The distances are 16 to *)
(* 1; a shorter word does without the first stages.                        *)
(***************************************************************************)
SHIFTS == LET Stage(d) == IF d < XLEN THEN d ELSE 0
          IN  <<Stage(16), Stage(8), Stage(4), Stage(2), Stage(1)>>

stage_v(b, d) == d > 0 /\ (b \div d) % 2 = 1

l_stage(w, b, d, sign_extension) ==
  IF ~stage_v(b, d) THEN w
  ELSE (w * 2 ^ d + (IF sign_extension THEN 2 ^ d - 1 ELSE 0)) % WORD

r_stage(w, b, d, sign_extension) ==
  IF ~stage_v(b, d) THEN w
  ELSE ((w \div 2 ^ d) + (IF sign_extension THEN WORD - (WORD \div 2 ^ d) ELSE 0)) % WORD

l_shift1(a, b, s) ==
  LET l_shift16 == l_stage(a, b, SHIFTS[1], s)
      l_shift8  == l_stage(l_shift16, b, SHIFTS[2], s)
      l_shift4  == l_stage(l_shift8, b, SHIFTS[3], s)
      l_shift2  == l_stage(l_shift4, b, SHIFTS[4], s)
  IN  l_stage(l_shift2, b, SHIFTS[5], s)

r_shift1(a, b, s) ==
  LET r_shift16 == r_stage(a, b, SHIFTS[1], s)
      r_shift8  == r_stage(r_shift16, b, SHIFTS[2], s)
      r_shift4  == r_stage(r_shift8, b, SHIFTS[3], s)
      r_shift2  == r_stage(r_shift4, b, SHIFTS[4], s)
  IN  r_stage(r_shift2, b, SHIFTS[5], s)

shifter_data_o(en, cmd, a, b) ==
  LET sign_extension == Msb(Low(a)) /\ SRA \in cmd
  IN  IF ~en THEN 0
      ELSE IF SLL \in cmd THEN l_shift1(Low(a), Low(b), sign_extension)
      ELSE IF cmd \cap {SRL, SRA} # {} THEN r_shift1(Low(a), Low(b), sign_extension)
      ELSE 0

(***************************************************************************)
(* Branch unit.                                                            *)
(***************************************************************************)
bu_branch_v(en, cmd, a, b, unsign) ==
  /\ en
  /\ \/ BEQ \in cmd /\ a = b
     \/ BNE \in cmd /\ a # b
     \/ BLT \in cmd /\ Borrow(addition_res(a, b))
     \/ BGE \in cmd /\ (~Borrow(addition_res(a, b)) \/ (unsign /\ a = b))
     \/ JAL \in cmd
     \/ JALR \in cmd

\* Bit 0 of a jalr target is kept: an odd target is a misaligned one.
bu_pc_nxt(en, cmd, a, b, unsign, imm, pc) ==
  IF ~bu_branch_v(en, cmd, a, b, unsign) THEN 0
  ELSE IF JALR \in cmd THEN (Low(a) + imm) % WORD
  ELSE (pc + imm) % WORD

\* Mutant: a jump links to itself.
bu_data_o_OwnAddress(pc) == pc

bu_data_o(pc) == (pc + 4) % WORD

bu_pc_missaligned_o(target) == target % 4 # 0

(***************************************************************************)
(* Load-store unit.  The memory answers with the aligned word around adr.  *)
(***************************************************************************)
lsu_adr(en, a, imm) == IF en THEN (Low(a) + imm) % WORD ELSE 0

\* Mutant: only a word has to be aligned.
lsu_adr_missaligned_o_WordsOnly(adr, size) == size = 4 /\ adr % 4 # 0

lsu_adr_missaligned_o(adr, size) ==
  \/ size = 4 /\ adr % 4 # 0
  \/ size = 2 /\ adr % 2 # 0

ByteOf(w, k) ==
  CASE k = 0 -> w % BYTE
    [] k = 1 -> (w \div BYTE) % BYTE
    [] k = 2 -> (w \div HALF) % BYTE
    [] k = 3 -> w \div (HALF * BYTE)
HalfOf(w, k) == IF k = 0 THEN w % HALF ELSE w \div HALF

\* A byte is extended with bit 7 of the word read, whichever byte it is; a
\* half-word with its own sign bit.
lsu_data_o(adr, size, unsign, w) ==
  CASE size = 1 ->
         ByteOf(w, adr % 4)
           + IF ~unsign /\ ByteOf(w, 0) >= BYTE \div 2 THEN WORD - BYTE ELSE 0
    [] size = 2 /\ adr % 4 \in {0, 2} ->
         HalfOf(w, adr % 4)
           + IF ~unsign /\ HalfOf(w, adr % 4) >= HALF \div 2 THEN WORD - HALF ELSE 0
    [] size = 4 -> w
    [] OTHER -> 0

(***************************************************************************)
(* The memory model of the testbench: the lanes a store replaces.          *)
(***************************************************************************)
\* Replace the byte at position k, which counts scale values below it.
PutByte(w, k, scale, data) == w + (ByteOf(data, 0) - ByteOf(w, k)) * scale

StoreMerge(w, adr, size, data) ==
  CASE size = 1 /\ adr % 4 = 0 -> PutByte(w, 0, 1, data)
    [] size = 1 /\ adr % 4 = 1 -> PutByte(w, 1, BYTE, data)
    [] size = 1 /\ adr % 4 = 2 -> PutByte(w, 2, HALF, data)
    [] size = 1 /\ adr % 4 = 3 -> PutByte(w, 3, HALF * BYTE, data)
    [] size = 2 /\ adr % 4 = 0 -> HalfOf(w, 2) * HALF + HalfOf(data, 0)
    [] size = 2 /\ adr % 4 \in {2, 3} -> HalfOf(data, 0) * HALF + HalfOf(w, 0)
    [] size = 4 -> data
    [] OTHER -> w
=============================================================================
