---------------------------- MODULE MCNativeCode ----------------------------
(***************************************************************************)
(* Programs of four instructions on two registers; code of one or three    *)
(* units, so that the short, the long and the longest branch all occur.    *)
(***************************************************************************)
EXTENDS NativeCode

Ins(op, dst, src, imm, cond) == [op |-> op, dst |-> dst, src |-> src, imm |-> imm, cond |-> cond]

AllInstrs ==
    {Ins("INT", 1, 0, 0, 0), Ins("OTHER", 0, 0, 0, 0), Ins("NOP", 0, 0, 0, 0),
     Ins("IMUL_RCP", 0, 0, 3, 0), Ins("IMUL_RCP", 0, 0, 4, 0),
     Ins("ISWAP_R", 0, 1, 0, 0), Ins("ISWAP_R", 0, 0, 0, 0),
     Ins("CBRANCH", 0, 0, 15, 0), Ins("CBRANCH", 1, 0, 15, 0)}
=============================================================================
