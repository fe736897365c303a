-------------------------- MODULE InstructionMeaning --------------------------
(***************************************************************************)
(* What each instruction of a program does, as BytecodeMachine compiles    *)
(* and executes it: the specification the native code of every compiler    *)
(* has to implement.  Where a branch leads is the subject of Bytecode and  *)
(* NativeCode; here jump says whether the last branch jumps.               *)
(***************************************************************************)
EXTENDS MachineWords

CONSTANTS
    Programs,   \* sequences of instructions
    Registers,  \* the contents of r0-r7 a program may start with
    Groups      \* the contents of the groups f, e and a

VARIABLES
    prog,
    v2,      \* RANDOMX_FLAG_V2
    pc,      \* instructions executed
    nreg     \* the machine: registers, scratchpad cells written, rounding mode

meaningVars == <<prog, v2, pc, nreg>>

Isn == prog[pc + 1]

Start(r, g) ==
    [r |-> r, f |-> g.f, e |-> g.e, a |-> g.a, written |-> <<>>, mode |-> 0, jump |-> FALSE]

Init ==
    /\ prog \in Programs
    /\ v2 \in BOOLEAN
    /\ pc = 0
    /\ \E r \in Registers, g \in Groups : nreg = Start(r, g)

-----------------------------------------------------------------------------

Cell(c) == IF c \in DOMAIN nreg.written THEN nreg.written[c] ELSE Content(c)
Load64(c) == Cell(c) + Half * Cell(c + 1)

\* getScratchpadAddress: the index register plus the immediate, in a level.
Address(x, mask) == And(Word(x + SignExtend(Isn.imm)), mask)
LevelMask == IF Isn.modMem # 0 THEN ScratchpadL1Mask ELSE ScratchpadL2Mask
\* src = dst stands for an absolute address in L3.
LoadAddress ==
    IF Isn.src # Isn.dst THEN Address(nreg.r[Isn.src], LevelMask)
                         ELSE Address(0, ScratchpadL3Mask)
MemoryOperand == Load64(LoadAddress)
\* src = dst stands for the immediate.
RegisterOperand == IF Isn.src # Isn.dst THEN nreg.r[Isn.src] ELSE SignExtend(Isn.imm)
RotateOperand == IF Isn.src # Isn.dst THEN nreg.r[Isn.src] ELSE Isn.imm

\* rx_cvt_packed_int_vec_f128 of the two halves of a word of L1 or L2.
FloatOperand ==
    LET c == Address(nreg.r[Isn.src], LevelMask)
    IN  <<Convert(SignExtend(Cell(c))), Convert(SignExtend(Cell(c + 1)))>>
\* maskRegisterExponentMantissa
Divisor == [k \in 1 .. 2 |-> Or(And(FloatOperand[k], ExponentClear), EMask[k])]

FloatDst == Isn.dst % 4
FloatSrc == Isn.src % 4

SetInt(x) == nreg' = [nreg EXCEPT !.r[Isn.dst] = x]
GroupF(x) == nreg' = [nreg EXCEPT !.f[FloatDst] = x]
GroupE(x) == nreg' = [nreg EXCEPT !.e[FloatDst] = x]
F == nreg.f[FloatDst]
E == nreg.e[FloatDst]
A == nreg.a[FloatSrc]
Sum(x, y) == [k \in 1 .. 2 |-> FAdd(x[k], y[k], nreg.mode)]
Difference(x, y) == [k \in 1 .. 2 |-> FSub(x[k], y[k], nreg.mode)]
Product(x, y) == [k \in 1 .. 2 |-> FMul(x[k], y[k], nreg.mode)]
Quotient(x, y) == [k \in 1 .. 2 |-> FDiv(x[k], y[k], nreg.mode)]
Dst == nreg.r[Isn.dst]

Does(op) == pc < Len(prog) /\ Isn.op = op

IADD_RS ==
    /\ Does("IADD_RS")
    /\ SetInt(Word(Dst + Shl(nreg.r[Isn.src], Isn.modShift)
                     + IF Isn.dst = 5 THEN SignExtend(Isn.imm) ELSE 0))
IADD_M == Does("IADD_M") /\ SetInt(Word(Dst + MemoryOperand))
ISUB_R == Does("ISUB_R") /\ SetInt(Word(Dst - RegisterOperand))
ISUB_M == Does("ISUB_M") /\ SetInt(Word(Dst - MemoryOperand))
IMUL_R == Does("IMUL_R") /\ SetInt(Mul(Dst, RegisterOperand))
IMUL_M == Does("IMUL_M") /\ SetInt(Mul(Dst, MemoryOperand))
IMULH_R == Does("IMULH_R") /\ SetInt(MulHigh(Dst, nreg.r[Isn.src]))
IMULH_M == Does("IMULH_M") /\ SetInt(MulHigh(Dst, MemoryOperand))
ISMULH_R == Does("ISMULH_R") /\ SetInt(MulHighSigned(Dst, nreg.r[Isn.src]))
ISMULH_M == Does("ISMULH_M") /\ SetInt(MulHighSigned(Dst, MemoryOperand))
IMUL_RCP ==
    /\ Does("IMUL_RCP")
    /\ IF isZeroOrPowerOf2(Isn.imm) THEN UNCHANGED nreg
                                    ELSE SetInt(Mul(Dst, randomx_reciprocal(Isn.imm)))
INEG_R == Does("INEG_R") /\ SetInt(Word(-Dst))
IXOR_R == Does("IXOR_R") /\ SetInt(Xor(Dst, RegisterOperand))
IXOR_M == Does("IXOR_M") /\ SetInt(Xor(Dst, MemoryOperand))
IROR_R == Does("IROR_R") /\ SetInt(Ror(Dst, RotateOperand))
IROL_R == Does("IROL_R") /\ SetInt(Rol(Dst, RotateOperand))
ISWAP_R ==
    /\ Does("ISWAP_R")
    /\ nreg' = [nreg EXCEPT !.r[Isn.dst] = nreg.r[Isn.src], !.r[Isn.src] = nreg.r[Isn.dst]]

\* The eight registers of f and e are exchanged, not only those of f.
FSWAP_R ==
    /\ Does("FSWAP_R")
    /\ nreg' = IF Isn.dst < 4 THEN [nreg EXCEPT !.f[Isn.dst] = <<@[2], @[1]>>]
                              ELSE [nreg EXCEPT !.e[Isn.dst - 4] = <<@[2], @[1]>>]
FADD_R == Does("FADD_R") /\ GroupF(Sum(F, A))
FADD_M == Does("FADD_M") /\ GroupF(Sum(F, FloatOperand))
FSUB_R == Does("FSUB_R") /\ GroupF(Difference(F, A))
FSUB_M == Does("FSUB_M") /\ GroupF(Difference(F, FloatOperand))
FSCAL_R == Does("FSCAL_R") /\ GroupF([k \in 1 .. 2 |-> Xor(F[k], FscalMask)])
FMUL_R == Does("FMUL_R") /\ GroupE(Product(E, A))
FDIV_M == Does("FDIV_M") /\ GroupE(Quotient(E, Divisor))
FSQRT_R == Does("FSQRT_R") /\ GroupE([k \in 1 .. 2 |-> FSqrt(E[k], nreg.mode)])

CBRANCH ==
    /\ Does("CBRANCH")
    /\ LET x == Word(Dst + SignExtend(BranchImm(Isn)))
       IN  nreg' = [nreg EXCEPT !.r[Isn.dst] = x,
                                !.jump = And(x, ConditionMask * 2^Shift(Isn)) = 0]
CFROUND ==
    /\ Does("CFROUND")
    /\ LET isrc == Ror(nreg.r[Isn.src], Isn.imm)
       IN  nreg' = IF v2 /\ And(isrc, 60) # 0 THEN nreg ELSE [nreg EXCEPT !.mode = isrc % 4]
ISTORE ==
    /\ Does("ISTORE")
    /\ LET c == Address(Dst, IF Isn.modCond < StoreL3Condition THEN LevelMask
                                                               ELSE ScratchpadL3Mask)
           x == nreg.r[Isn.src]
           cells == DOMAIN nreg.written \cup {c, c + 1}
       IN  nreg' = [nreg EXCEPT !.written =
                      [k \in cells |-> IF k = c THEN x % Half
                                       ELSE IF k = c + 1 THEN x \div Half ELSE @[k]]]
NOP == Does("NOP") /\ UNCHANGED nreg

Execute ==
    \/ IADD_RS \/ IADD_M \/ ISUB_R \/ ISUB_M \/ IMUL_R \/ IMUL_M
    \/ IMULH_R \/ IMULH_M \/ ISMULH_R \/ ISMULH_M \/ IMUL_RCP \/ INEG_R
    \/ IXOR_R \/ IXOR_M \/ IROR_R \/ IROL_R \/ ISWAP_R
    \/ FSWAP_R \/ FADD_R \/ FADD_M \/ FSUB_R \/ FSUB_M \/ FSCAL_R
    \/ FMUL_R \/ FDIV_M \/ FSQRT_R \/ CBRANCH \/ CFROUND \/ ISTORE \/ NOP

Next == Execute /\ pc' = pc + 1 /\ UNCHANGED <<prog, v2>>

Spec == Init /\ [][Next]_meaningVars

=============================================================================
