------------------------------- MODULE MCBase -------------------------------
(***************************************************************************)
(* The small cores TLC runs: XLEN is 4 (four bytes of one bit) or 8 (of    *)
(* two bits), and the registers are x0 to x2.  The lanes, the sign bits,   *)
(* the carries and the wrap-around of the pc are those of the 32-bit core; *)
(* every trap cause still fits a word.  The gates are tables, computed     *)
(* once.                                                                   *)
(***************************************************************************)
EXTENDS Claims

MCBYTE == 2 ^ (XLEN \div 4)
MCRegs == {0, 1, 2}

MCWord == 0 .. 2 ^ XLEN - 1
LOCAL Bit(w, k) == (w \div 2 ^ k) % 2

\* One step per bit: f[k] is the gate applied to the bits from k up.
LOCAL Gate(g(_, _), a, b) ==
  LET f[k \in 0 .. XLEN] == IF k = XLEN THEN 0 ELSE g(Bit(a, k), Bit(b, k)) + 2 * f[k + 1]
  IN  f[0]

AndTable == [a \in MCWord |-> [b \in MCWord |-> LET g(p, q) == p * q         IN Gate(g, a, b)]]
OrTable  == [a \in MCWord |-> [b \in MCWord |-> LET g(p, q) == p + q - p * q IN Gate(g, a, b)]]
XorTable == [a \in MCWord |-> [b \in MCWord |-> LET g(p, q) == (p + q) % 2   IN Gate(g, a, b)]]

MCBitAnd(a, b) == AndTable[a][b]
MCBitOr(a, b)  == OrTable[a][b]
MCBitXor(a, b) == XorTable[a][b]

\* mpp in the two low bits, so the constant mstatus is 3.
MCMSTATUS_M == 3
MCMISA_RESET == 8
MCMpp(w) == w % 4
MCMstatusMret(w) == w - (w % 4) + 3

(***************************************************************************)
(* Instruction words.                                                      *)
(***************************************************************************)
Word0(opc, name) == [ZeroInstr EXCEPT !.opc = opc, !.name = name]
R(name, rd, rs1, rs2) == [Word0("R", name) EXCEPT !.rd = rd, !.rs1 = rs1, !.rs2 = rs2]
I(name, rd, rs1, imm) == [Word0("I", name) EXCEPT !.rd = rd, !.rs1 = rs1, !.imm = imm]
L(name, rd, rs1, imm) == [Word0("L", name) EXCEPT !.rd = rd, !.rs1 = rs1, !.imm = imm]
S(name, rs1, rs2, imm) == [Word0("S", name) EXCEPT !.rs1 = rs1, !.rs2 = rs2, !.imm = imm]
B(name, rs1, rs2, imm) == [Word0("B", name) EXCEPT !.rs1 = rs1, !.rs2 = rs2, !.imm = imm]
Lui(rd, imm)   == [Word0("U", "lui") EXCEPT !.rd = rd, !.imm = imm]
Auipc(rd, imm) == [Word0("AUIPC", "auipc") EXCEPT !.rd = rd, !.imm = imm]
Jal(rd, imm)   == [Word0("JAL", "jal") EXCEPT !.rd = rd, !.imm = imm]
Jalr(rd, rs1, imm) == [Word0("JALR", "jalr") EXCEPT !.rd = rd, !.rs1 = rs1, !.imm = imm]
C(name, rd, adr, rs1) == [Word0("P", name) EXCEPT !.rd = rd, !.csr = adr, !.rs1 = rs1]
P(name) == Word0("P", name)

\* Programs: the same words at every aligned address, nothing elsewhere.
Everywhere(instrs) == [a \in MCWord |-> IF a % 4 = 0 THEN instrs ELSE {ZeroInstr}]

MCLine == {a \in MCWord : a % 4 = 0}
MCRamInit == {[a \in MCLine |-> 0]}
=============================================================================
