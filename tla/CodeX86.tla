-------------------------------- MODULE CodeX86 --------------------------------
(***************************************************************************)
(* The code JitCompilerX86 generates for each instruction.                 *)
(***************************************************************************)
EXTENDS MachineCode

MaxInstrCodeSize == 32

rax == 0
rcx == 1
rdx == 2
rsi == 6  \* the scratchpad
regR(i) == 8 + i
regF(i) == i
regE(i) == 4 + i
regA(i) == 8 + i
tempReg == 12
mantissaMaskReg == 13
exponentMaskReg == 14
scaleMaskReg == 15

RegisterNeedsDisplacement == 5
RegisterNeedsSib == 4

\* reg = address; the index register r12 needs a byte more.
LeaAnd(reg, index, imm, mask) ==
    <<I("add32", reg, regR(index), Imm(SignExtend(imm)),
        IF index = RegisterNeedsSib THEN 8 ELSE 7),
      I("and32", reg, reg, Imm(mask), IF reg = rax THEN 5 ELSE 6)>>
genAddressReg(isn, reg) ==
    LeaAnd(reg, isn.src, isn.imm, IF isn.modMem # 0 THEN ScratchpadL1Mask ELSE ScratchpadL2Mask)
genAddressRegDst(isn) ==
    LeaAnd(rax, isn.dst, isn.imm,
           IF isn.modCond < StoreL3Condition
           THEN IF isn.modMem # 0 THEN ScratchpadL1Mask ELSE ScratchpadL2Mask
           ELSE ScratchpadL3Mask)
genAddressImm(isn) == And(isn.imm, ScratchpadL3Mask)

\* An instruction with a memory operand, as two: the load has no length of its own.
Op2(op, d, b, n) == <<I(op, regR(d), regR(d), b, n)>>
Temp == 31
OpM(op, isn, n) ==
    IF isn.src # isn.dst
    THEN genAddressReg(isn, rax) \o <<I("ld", Temp, rsi, rax, 0)>> \o Op2(op, isn.dst, Temp, n)
    ELSE <<I("ld", Temp, rsi, Imm(genAddressImm(isn)), 0)>> \o Op2(op, isn.dst, Temp, n + 3)

-----------------------------------------------------------------------------
(* The handlers.                                                           *)

h_IADD_RS(isn) ==
    LET lea == <<"add", "add2", "add4", "add8">>[isn.modShift + 1]
    IN  IF isn.dst = RegisterNeedsDisplacement
        THEN Op2(lea, isn.dst, regR(isn.src), 0) \o Op2("add", isn.dst, Imm(SignExtend(isn.imm)), 8)
        ELSE Op2(lea, isn.dst, regR(isn.src), 4)
h_IADD_M(isn) == OpM("add", isn, 4)
h_ISUB_R(isn) ==
    IF isn.src # isn.dst THEN Op2("sub", isn.dst, regR(isn.src), 3)
                         ELSE Op2("sub", isn.dst, Imm(SignExtend(isn.imm)), 7)
h_ISUB_M(isn) == OpM("sub", isn, 4)
h_IMUL_R(isn) ==
    IF isn.src # isn.dst THEN Op2("mul", isn.dst, regR(isn.src), 4)
                         ELSE Op2("mul", isn.dst, Imm(SignExtend(isn.imm)), 7)
h_IMUL_M(isn) == OpM("mul", isn, 5)

\* The product of rax and the operand goes to rdx and rax.
Product(high, b, n) == <<I(high, rdx, rax, b, n), I("mul", rax, rax, b, 0)>>
MulR(high, isn) ==
    <<I("mov", rax, regR(isn.dst), 0, 3)>> \o Product(high, regR(isn.src), 3)
    \o <<I("mov", regR(isn.dst), rdx, 0, 3)>>
MulM(high, isn) ==
    (IF isn.src # isn.dst
     THEN genAddressReg(isn, rcx)
          \o <<I("mov", rax, regR(isn.dst), 0, 3), I("ld", Temp, rsi, rcx, 0)>>
          \o Product(high, Temp, 4)
     ELSE <<I("mov", rax, regR(isn.dst), 0, 3), I("ld", Temp, rsi, Imm(genAddressImm(isn)), 0)>>
          \o Product(high, Temp, 7))
    \o <<I("mov", regR(isn.dst), rdx, 0, 3)>>
h_IMULH_R(isn) == MulR("mulh", isn)
h_IMULH_M(isn) == MulM("mulh", isn)
h_ISMULH_R(isn) == MulR("smulh", isn)
h_ISMULH_M(isn) == MulM("smulh", isn)

h_IMUL_RCP(isn) ==
    IF isZeroOrPowerOf2(isn.imm) THEN <<>>
    ELSE <<I("mov", rax, Imm(ReciprocalAsm(isn.imm)), 0, 10)>>
         \o Op2("mul", isn.dst, rax, 4)
h_INEG_R(isn) == <<I("sub", regR(isn.dst), Imm(0), regR(isn.dst), 3)>>
h_IXOR_R(isn) ==
    IF isn.src # isn.dst THEN Op2("xor", isn.dst, regR(isn.src), 3)
                         ELSE Op2("xor", isn.dst, Imm(SignExtend(isn.imm)), 7)
h_IXOR_M(isn) == OpM("xor", isn, 4)
\* ecx has the low half of the register, its low bits are what counts.
Rotate(op, isn) ==
    IF isn.src # isn.dst
    THEN <<I("zext", rcx, regR(isn.src), 0, 3)>> \o Op2(op, isn.dst, rcx, 3)
    ELSE Op2(op, isn.dst, Imm(isn.imm % 16), 4)
h_IROR_R(isn) == Rotate("ror", isn)
h_IROL_R(isn) == Rotate("rol", isn)
h_ISWAP_R(isn) ==
    IF isn.src # isn.dst THEN <<I("xchg", regR(isn.dst), regR(isn.src), 0, 3)>> ELSE <<>>

\* xmm0-xmm7 are the groups f and e in a row.
h_FSWAP_R(isn) == <<I("xchg", Lo(regF(isn.dst)), Hi(regF(isn.dst)), 0, 5)>>

FloatDst(isn) == isn.dst % 4
FloatSrc(isn) == isn.src % 4
\* cvtdq2pd tempReg, [rsi+rax]
LoadFloat(isn) ==
    genAddressReg(isn, rax)
    \o <<I("add", Temp, rsi, rax, 0),
         I("lw", Lo(tempReg), Temp, Imm(0), 6), I("lw", Hi(tempReg), Temp, Imm(1), 0)>>
    \o Both("cvt", tempReg, tempReg, tempReg, 0)
Packed(op, d, b, n) == Both(op, d, d, b, n)
h_FADD_R(isn) == Packed("fadd", regF(FloatDst(isn)), regA(FloatSrc(isn)), 5)
h_FADD_M(isn) == LoadFloat(isn) \o Packed("fadd", regF(FloatDst(isn)), tempReg, 5)
h_FSUB_R(isn) == Packed("fsub", regF(FloatDst(isn)), regA(FloatSrc(isn)), 5)
h_FSUB_M(isn) == LoadFloat(isn) \o Packed("fsub", regF(FloatDst(isn)), tempReg, 5)
h_FSCAL_R(isn) == Packed("xor", regF(FloatDst(isn)), scaleMaskReg, 4)
h_FMUL_R(isn) == Packed("fmul", regE(FloatDst(isn)), regA(FloatSrc(isn)), 5)
\* A mistake in it: a prefix more, as andpd has it.
h_FDIV_MLonger(isn) ==
    LoadFloat(isn) \o Packed("and", tempReg, mantissaMaskReg, 5)
    \o Packed("or", tempReg, exponentMaskReg, 4) \o Packed("fdiv", regE(FloatDst(isn)), tempReg, 5)
h_FDIV_M(isn) ==
    LoadFloat(isn) \o Packed("and", tempReg, mantissaMaskReg, 4)
    \o Packed("or", tempReg, exponentMaskReg, 4) \o Packed("fdiv", regE(FloatDst(isn)), tempReg, 5)
h_FSQRT_R(isn) == Packed("fsqrt", regE(FloatDst(isn)), regE(FloatDst(isn)), 4)

\* add, test, jz
h_CBRANCH(isn) ==
    Op2("add", isn.dst, Imm(SignExtend(BranchImm(isn))), 7)
    \o <<I("branch", 0, regR(isn.dst), Imm(SignExtend(ConditionMask * 2^Shift(isn))), 13)>>

\* rax = the register rotated so that the mode is where mxcsr has it: 13, scaled 2.
ModePosition == 2
ToMxcsr(isn) ==
    LET rotate == (ModePosition - (isn.imm % 16)) % 16
    IN  <<I("mov", rax, regR(isn.src), 0, 3)>>
        \o IF rotate # 0 THEN <<I("rol", rax, rax, Imm(rotate), 4)>> ELSE <<>>
\* and eax; or eax; mov [rsp], eax; ldmxcsr
AndOrMovLdmxcsr ==
    <<I("and32", rax, rax, Imm(3 * 2^ModePosition), 5), I("or", rax, rax, Imm(MxcsrBits), 5),
      I("nop", 0, 0, 0, 3), I("ldmxcsr", 0, rax, 0, 4)>>
h_CFROUND(isn, v2) ==
    ToMxcsr(isn)
    \o (IF v2
        THEN <<I("and32", Temp, rax, Imm(60 * 2^ModePosition), 5), I("bnez", 19, Temp, Imm(Size - 1), 2)>>
        ELSE <<>>)
    \o AndOrMovLdmxcsr
h_ISTORE(isn) == genAddressRegDst(isn) \o <<I("sd", regR(isn.src), rsi, rax, 4)>>
h_NOP == <<I("nop", 0, 0, 0, 1)>>

\* engine
Handler(isn, v2) ==
    CASE isn.op = "IADD_RS" -> h_IADD_RS(isn) [] isn.op = "IADD_M" -> h_IADD_M(isn)
      [] isn.op = "ISUB_R" -> h_ISUB_R(isn)   [] isn.op = "ISUB_M" -> h_ISUB_M(isn)
      [] isn.op = "IMUL_R" -> h_IMUL_R(isn)   [] isn.op = "IMUL_M" -> h_IMUL_M(isn)
      [] isn.op = "IMULH_R" -> h_IMULH_R(isn) [] isn.op = "IMULH_M" -> h_IMULH_M(isn)
      [] isn.op = "ISMULH_R" -> h_ISMULH_R(isn) [] isn.op = "ISMULH_M" -> h_ISMULH_M(isn)
      [] isn.op = "IMUL_RCP" -> h_IMUL_RCP(isn) [] isn.op = "INEG_R" -> h_INEG_R(isn)
      [] isn.op = "IXOR_R" -> h_IXOR_R(isn)   [] isn.op = "IXOR_M" -> h_IXOR_M(isn)
      [] isn.op = "IROR_R" -> h_IROR_R(isn)   [] isn.op = "IROL_R" -> h_IROL_R(isn)
      [] isn.op = "ISWAP_R" -> h_ISWAP_R(isn) [] isn.op = "FSWAP_R" -> h_FSWAP_R(isn)
      [] isn.op = "FADD_R" -> h_FADD_R(isn)   [] isn.op = "FADD_M" -> h_FADD_M(isn)
      [] isn.op = "FSUB_R" -> h_FSUB_R(isn)   [] isn.op = "FSUB_M" -> h_FSUB_M(isn)
      [] isn.op = "FSCAL_R" -> h_FSCAL_R(isn) [] isn.op = "FMUL_R" -> h_FMUL_R(isn)
      [] isn.op = "FDIV_M" -> h_FDIV_M(isn)   [] isn.op = "FSQRT_R" -> h_FSQRT_R(isn)
      [] isn.op = "CBRANCH" -> h_CBRANCH(isn) [] isn.op = "CFROUND" -> h_CFROUND(isn, v2)
      [] isn.op = "ISTORE" -> h_ISTORE(isn)   [] isn.op = "NOP" -> h_NOP
generateCode(state, isn, v2) == Emit(state, Handler(isn, v2))

-----------------------------------------------------------------------------

Environment(k) ==
    CASE k = rsi -> ScratchpadBase
      [] k \in {Lo(mantissaMaskReg), Hi(mantissaMaskReg)} -> ExponentClear
      [] k = Lo(exponentMaskReg) -> EMask[1]
      [] k = Hi(exponentMaskReg) -> EMask[2]
      [] k \in {Lo(scaleMaskReg), Hi(scaleMaskReg)} -> FscalMask
Reserved ==
    {rsi} \cup UNION {{Lo(k), Hi(k)} : k \in {mantissaMaskReg, exponentMaskReg, scaleMaskReg}}

\* What the code around the program keeps in registers: the loop counter, mx and ma,
\* the dataset, the stack.
LoopRegisters == {3, 4, 5, 7}

-----------------------------------------------------------------------------
(* SuperscalarHash: the item number comes in rbx, rdi is the cache.        *)

\* A mistake in it: a prefix not reckoned with.
MaxSuperscalarInstrSizeShort == 13
MaxSuperscalarInstrSize == 14
rbx == 3
rdi == 7

SshPrefetch ==
    <<I("and", rbx, rbx, Imm(CacheMask), 7), I("sll", rbx, rbx, Imm(4), 4),
      I("add", rbx, rbx, rdi, 3)>>
SshInit ==
    <<I("add", regR(0), rbx, Imm(1), 4)>> \o SshPrefetch
    \o <<I("mul", regR(0), regR(0), Imm(superscalarMul0), 8)>>
    \o FlattenSeq([q \in 1 .. 7 |-> <<I("mov", regR(q), Imm(superscalarAdd[q]), 0, 7),
                                      I("xor", regR(q), regR(q), regR(0), 3)>>])
SshLoad ==
    FlattenSeq([k \in 1 .. 8 |-> <<I("ld", Temp, rbx, Imm(2 * (k - 1)), 0),
                                   I("xor", regR(k - 1), regR(k - 1), Temp, IF k = 1 THEN 3 ELSE 4)>>])

generateSuperscalarCode(isn, reciprocalCache) ==
    CASE isn.op = "ISUB_R" -> Op2("sub", isn.dst, regR(isn.src), 3)
      [] isn.op = "IXOR_R" -> Op2("xor", isn.dst, regR(isn.src), 3)
      [] isn.op = "IADD_RS" ->
           Op2(<<"add", "add2", "add4", "add8">>[isn.modShift + 1], isn.dst, regR(isn.src), 4)
      [] isn.op = "IMUL_R" -> Op2("mul", isn.dst, regR(isn.src), 4)
      [] isn.op = "IROR_C" -> Op2("ror", isn.dst, Imm(isn.imm % 16), 4)
      [] isn.op = "IADD_C" -> Op2("add", isn.dst, Imm(SignExtend(isn.imm)), 7)
      [] isn.op = "IXOR_C" -> Op2("xor", isn.dst, Imm(SignExtend(isn.imm)), 7)
      [] isn.op = "IMULH_R" -> MulR("mulh", isn)
      [] isn.op = "ISMULH_R" -> MulR("smulh", isn)
      [] isn.op = "IMUL_RCP" ->
           <<I("mov", rax, Imm(reciprocalCache[isn.imm + 1]), 0, 10)>> \o Op2("mul", isn.dst, rax, 4)

\* The line is mixed in; unless the program is the last one, the next line is found.
SshMix(addressRegister, last) ==
    SshLoad \o (IF last THEN <<>>
                ELSE <<I("mov", rbx, regR(addressRegister), 0, 3)>> \o SshPrefetch)
SshClobbered == {rax, rbx, rdx, Temp} \cup {regR(q) : q \in 0 .. 7}

=============================================================================
