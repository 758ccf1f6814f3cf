------------------------------ MODULE MCClaims ------------------------------
(***************************************************************************)
(* Small programs for the statements of Claims, one per statement.         *)
(***************************************************************************)
EXTENDS MCBase

Count == I("addi", 1, 1, 8)

\* Csr reads at every distance of a csr write, and a trap.
OperandsText == Everywhere({Count, C("csrrwi", 0, "mepc", 1), C("csrrs", 2, "mepc", 0), P("ecall")})

\* mtvec is written by the instruction before a trap.
VectorText == Everywhere({Count, C("csrrw", 0, "mtvec", 1), P("ecall")})

\* mret in the shadow of a branch.
ModeText == Everywhere({Count, B("beq", 0, 0, 8), P("mret")})

\* The loaded byte is the second of its word.
ByteText == Everywhere({I("addi", 1, 1, 7), S("sw", 0, 1, 8), L("lb", 2, 0, 9)})

MCInstr ==
  UNION {OperandsText[a] \union VectorText[a] \union ModeText[a] \union ByteText[a] : a \in MCWord}
=============================================================================
