----------------------------- MODULE MCBytecode -----------------------------
(***************************************************************************)
(* Two registers of four bits and conditions of two bits.  With a condition*)
(* at bit 2 there are two bits below it, so that what a branch adds can    *)
(* carry into the condition: register 6 and immediate 15 jump twice.       *)
(***************************************************************************)
EXTENDS Bytecode

Ins(op, dst, src, imm, cond) == [op |-> op, dst |-> dst, src |-> src, imm |-> imm, cond |-> cond]

Plains ==
    {Ins("INT", 0, 0, 0, 0), Ins("INT", 1, 0, 0, 0), Ins("OTHER", 0, 0, 0, 0),
     Ins("NOP", 0, 0, 0, 0), Ins("IMUL_RCP", 0, 0, 3, 0), Ins("IMUL_RCP", 0, 0, 4, 0),
     Ins("ISWAP_R", 0, 1, 0, 0), Ins("ISWAP_R", 0, 0, 0, 0)}

AllInstrs ==
    Plains \cup {Ins("CBRANCH", r, 0, x, 0) : r \in {0, 1}, x \in {2, 15}}
=============================================================================
