------------------------------- MODULE KlawPkg -------------------------------
(***************************************************************************)
(* The parameters and encodings shared by every stage of the core          *)
(* (riscv_pkg.sv).                                                         *)
(*                                                                         *)
(* A word has XLEN bits and is made of four bytes of BYTE values each:     *)
(* 32 and 256 is the core of the source, 4 and 2 a core with the same      *)
(* lanes, carries and sign bits that TLC can enumerate.  Words are         *)
(* naturals below WORD; the operands that decode hands to execute carry    *)
(* one more bit (logic [XLEN:0]).                                          *)
(***************************************************************************)
EXTENDS Integers

CONSTANTS
  XLEN,             \* number of bits of a word
  BYTE,             \* number of values of a byte
  Regs,             \* addresses of the general registers, 0 is x0
  BitAnd(_, _),     \* the bitwise gates are parameters: control never
  BitOr(_, _),      \* looks inside them
  BitXor(_, _)

HALF == BYTE * BYTE
WORD == HALF * HALF
Word     == 0 .. WORD - 1
Extended == 0 .. 2 * WORD - 1

\* Sign bit of a word (bit XLEN-1).
Msb(w) == w >= WORD \div 2

ASSUME ByteAssumption == BYTE \in Nat /\ BYTE >= 2 /\ BYTE % 2 = 0
ASSUME XlenAssumption == XLEN \in {4, 8, 16, 32} /\ WORD = 2 ^ XLEN
ASSUME RegsAssumption == Regs \subseteq Word /\ 0 \in Regs

\* The gates are closed on words.  Zero is neutral for OR: the write-back and
\* csr multiplexers of the source are ORs of masked terms.  The word of ones is
\* neutral for AND: a csrrc that clears no bit reads through the AND gate.
ASSUME GateAssumption ==
  \A a, b \in Word :
    /\ BitAnd(a, b) \in Word
    /\ BitOr(a, b)  \in Word
    /\ BitXor(a, b) \in Word
    /\ BitOr(0, b) = b
    /\ BitOr(a, 0) = a
    /\ BitAnd(WORD - 1, b) = b

\* The AND-OR multiplexers of the source: {XLEN{c}} & v, and the OR of terms.
Mask(c, v)   == IF c THEN v ELSE 0
Or3(a, b, c) == BitOr(a, BitOr(b, c))

(***************************************************************************)
(* Bit positions of the one-hot operation and unit vectors.                *)
(***************************************************************************)
ADD == 0
AND == 1
OR  == 2
XOR == 3
SLT == 4

ALU == 0
SFT == 1
BU  == 2
LSU == 3

SLL == 0
SRL == 1
SRA == 2

BEQ  == 0
BNE  == 1
BLT  == 2
BGE  == 3
JAL  == 4
JALR == 5

ST == 0
LD == 1

(***************************************************************************)
(* Machine-mode csr addresses.  CsrFlops are those csr.sv stores in a      *)
(* flop; marchid and mimpid are wired to zero and every other address      *)
(* reads as zero.                                                          *)
(***************************************************************************)
CsrFlops == {"mhartid", "mvendorid", "mstatus", "misa", "mie", "mtvec",
             "mstatush", "mepc", "mcause", "mtval", "mip", "mscratch"}
CsrAdr   == CsrFlops \union {"marchid", "mimpid", "other"}

CONSTANTS
  MSTATUS_M,       \* the only value csr.sv ever stores in mstatus after reset
  MISA_RESET,      \* reset value of misa
  Mpp(_),          \* bits 12:11 of an mstatus value
  MstatusMret(_)   \* the mstatus value mret computes from the old one

ASSUME MstatusAssumption ==
  /\ MSTATUS_M \in Word
  /\ MISA_RESET \in Word
  /\ \A w \in Word : Mpp(w) \in 0 .. 3 /\ MstatusMret(w) \in Word

==============================================================================
