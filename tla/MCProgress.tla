----------------------------- MODULE MCProgress -----------------------------
(***************************************************************************)
(* Nothing but redirections, while the program moves the trap vector:      *)
(* traps (an illegal word, a jump to a misaligned address), trap returns   *)
(* and jumps at any aligned address.  Only the jump at 0 links, so that    *)
(* the vector takes two values.                                            *)
(***************************************************************************)
EXTENDS MCBase

Redirecting == {ZeroInstr, P("mret"), Jalr(0, 0, 6)}
MCText ==
  [a \in MCWord |->
     CASE a = 0  -> Redirecting \union {Jal(1, 8)}
       [] a = 4  -> Redirecting \union {C("csrrs", 0, "mtvec", 1)}
       [] a = 8  -> Redirecting \union {Jal(0, 8), C("csrrs", 0, "mtvec", 1)}
       [] a = 12 -> Redirecting \union {Jal(0, 8)}
       [] OTHER  -> {ZeroInstr}]
MCInstr == UNION {MCText[a] : a \in DOMAIN MCText}
=============================================================================
