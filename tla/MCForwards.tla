----------------------------- MODULE MCForwards -----------------------------
(***************************************************************************)
(* Register, memory and branch dependences at every distance, in programs  *)
(* that keep the conventions of sw/kernel: the first words of the trap     *)
(* handler (address 0) read no register that is being written, a csr is    *)
(* read or jumped through well after it is written, and mret is not in the *)
(* shadow of a branch.                                                     *)
(***************************************************************************)
EXTENDS MCBase

MCText ==
  [a \in MCWord |->
     CASE a = 0  -> {Lui(1, 8), Auipc(1, 4)}
       [] a = 4  -> {R("sub", 2, 1, 2), I("addi", 2, 1, 4)}
       [] a = 8  -> {B("bge", 1, 2, 8), P("ecall"), P("mret"), Jalr(2, 1, 0), L("lw", 2, 1, 0)}
       [] a = 12 -> {C("csrrw", 2, "mepc", 1), C("csrrc", 2, "mcause", 1), S("sb", 1, 2, 0),
                     B("blt", 1, 2, 8)}
       [] OTHER  -> {ZeroInstr}]
MCInstr == UNION {MCText[a] : a \in DOMAIN MCText}
=============================================================================
