------------------------------ MODULE MCTraps ------------------------------
(***************************************************************************)
(* Traps, trap returns and csr accesses at every distance: any of these    *)
(* words at any aligned address, with the trap vector at address 0 and a   *)
(* return address the program writes.                                      *)
(***************************************************************************)
EXTENDS MCBase

MCInstr == {ZeroInstr, I("addi", 1, 1, 8), C("csrrw", 2, "mepc", 1), P("ecall"), P("mret")}
MCText == Everywhere(MCInstr)
=============================================================================
