------------------------------ MODULE CodeAssembly ------------------------------
(***************************************************************************)
(* The assembly text AssemblyGeneratorX86 writes for each instruction, as  *)
(* the instructions it assembles to; their lengths are not its concern.    *)
(* It knows one form per operand and RandomX v1's CFROUND only.            *)
(***************************************************************************)
EXTENDS MachineCode

rax == 0
rcx == 1
rdx == 2
regScratchpadAddr == 6
regR(i) == 8 + i
regF(i) == i
regE(i) == 4 + i
regA(i) == 8 + i
tempRegx == 12
mantissaMaskReg == 13
exponentMaskReg == 14
scaleMaskReg == 15
\* An operand in memory, loaded before the instruction it belongs to.
operand == 31

T(op, d, a, b) == <<I(op, d, a, b, 0)>>

LevelMask(isn) == IF isn.modMem # 0 THEN ScratchpadL1Mask ELSE ScratchpadL2Mask
genAddressReg(isn, reg) ==
    T("add32", reg, regR(isn.src), Imm(SignExtend(isn.imm))) \o T("and32", reg, reg, Imm(LevelMask(isn)))
genAddressRegDst(isn) ==
    LET mask == IF isn.modCond < StoreL3Condition THEN LevelMask(isn) ELSE ScratchpadL3Mask
    IN  T("add32", rax, regR(isn.dst), Imm(SignExtend(isn.imm))) \o T("and32", rax, rax, Imm(mask))
genAddressImm(isn) == And(isn.imm, ScratchpadL3Mask)

-----------------------------------------------------------------------------

RegisterForm(op, isn) ==
    T(op, regR(isn.dst), regR(isn.dst),
      IF isn.src # isn.dst THEN regR(isn.src) ELSE Imm(SignExtend(isn.imm)))
MemoryForm(op, isn) ==
    (IF isn.src # isn.dst
     THEN genAddressReg(isn, rax) \o T("ld", operand, regScratchpadAddr, rax)
     ELSE T("ld", operand, regScratchpadAddr, Imm(genAddressImm(isn))))
    \o T(op, regR(isn.dst), regR(isn.dst), operand)
HighForm(high, isn, b) ==
    T("mov", rax, regR(isn.dst), 0) \o T(high, rdx, rax, b) \o T("mul", rax, rax, b)
    \o T("mov", regR(isn.dst), rdx, 0)
\* The address is formed in rcx, rax is the other factor.
HighMemory(high, isn) ==
    (IF isn.src # isn.dst
     THEN genAddressReg(isn, rcx) \o T("ld", operand, regScratchpadAddr, rcx)
     ELSE T("ld", operand, regScratchpadAddr, Imm(genAddressImm(isn))))
    \o HighForm(high, isn, operand)
RotateForm(op, isn) ==
    IF isn.src # isn.dst
    THEN T("zext", rcx, regR(isn.src), 0) \o T(op, regR(isn.dst), regR(isn.dst), rcx)
    ELSE T(op, regR(isn.dst), regR(isn.dst), Imm(isn.imm % 16))

h_IADD_RS(isn) ==
    T(<<"add", "add2", "add4", "add8">>[isn.modShift + 1], regR(isn.dst), regR(isn.dst), regR(isn.src))
    \o IF isn.dst = 5 THEN T("add", regR(isn.dst), regR(isn.dst), Imm(SignExtend(isn.imm))) ELSE <<>>
h_IADD_M(isn) == MemoryForm("add", isn)
h_ISUB_R(isn) == RegisterForm("sub", isn)
h_ISUB_M(isn) == MemoryForm("sub", isn)
h_IMUL_R(isn) == RegisterForm("mul", isn)
h_IMUL_M(isn) == MemoryForm("mul", isn)
h_IMULH_R(isn) == HighForm("mulh", isn, regR(isn.src))
h_IMULH_M(isn) == HighMemory("mulh", isn)
h_ISMULH_R(isn) == HighForm("smulh", isn, regR(isn.src))
h_ISMULH_M(isn) == HighMemory("smulh", isn)
h_INEG_R(isn) == T("sub", regR(isn.dst), Imm(0), regR(isn.dst))
h_IXOR_R(isn) == RegisterForm("xor", isn)
h_IXOR_M(isn) == MemoryForm("xor", isn)
h_IROR_R(isn) == RotateForm("ror", isn)
h_IROL_R(isn) == RotateForm("rol", isn)
h_IMUL_RCP(isn) ==
    IF isZeroOrPowerOf2(isn.imm) THEN <<>>
    ELSE T("mov", rax, Imm(randomx_reciprocal(isn.imm)), 0)
         \o T("mul", regR(isn.dst), regR(isn.dst), rax)
h_ISWAP_R(isn) == IF isn.src # isn.dst THEN T("xchg", regR(isn.dst), regR(isn.src), 0) ELSE <<>>

Packed(op, d, b) == Both(op, d, d, b, 0)
\* regFE names xmm0-xmm7
h_FSWAP_R(isn) == T("xchg", Lo(regF(isn.dst)), Hi(regF(isn.dst)), 0)
LoadFloat(isn) ==
    genAddressReg(isn, rax) \o T("add", operand, regScratchpadAddr, rax)
    \o T("lw", Lo(tempRegx), operand, Imm(0)) \o T("lw", Hi(tempRegx), operand, Imm(1))
    \o Both("cvt", tempRegx, tempRegx, tempRegx, 0)
h_FADD_R(isn) == Packed("fadd", regF(isn.dst % 4), regA(isn.src % 4))
h_FADD_M(isn) == LoadFloat(isn) \o Packed("fadd", regF(isn.dst % 4), tempRegx)
h_FSUB_R(isn) == Packed("fsub", regF(isn.dst % 4), regA(isn.src % 4))
h_FSUB_M(isn) == LoadFloat(isn) \o Packed("fsub", regF(isn.dst % 4), tempRegx)
h_FSCAL_R(isn) == Packed("xor", regF(isn.dst % 4), scaleMaskReg)
h_FMUL_R(isn) == Packed("fmul", regE(isn.dst % 4), regA(isn.src % 4))
h_FDIV_M(isn) ==
    LoadFloat(isn) \o Packed("and", tempRegx, mantissaMaskReg)
    \o Packed("or", tempRegx, exponentMaskReg) \o Packed("fdiv", regE(isn.dst % 4), tempRegx)
h_FSQRT_R(isn) == Packed("fsqrt", regE(isn.dst % 4), regE(isn.dst % 4))

\* The mode is moved to where mxcsr has it: bit 13, scaled 2.
h_CFROUND(isn) ==
    T("rol", rax, regR(isn.src), Imm((2 - (isn.imm % 16)) % 16))
    \o T("and32", rax, rax, Imm(12)) \o T("or", rax, rax, Imm(MxcsrBits)) \o T("ldmxcsr", 0, rax, 0)
h_CBRANCH(isn) ==
    T("add", regR(isn.dst), regR(isn.dst), Imm(SignExtend(BranchImm(isn))))
    \o T("branch", 0, regR(isn.dst), Imm(SignExtend(ConditionMask * 2^Shift(isn))))
h_ISTORE(isn) == genAddressRegDst(isn) \o T("sd", regR(isn.src), regScratchpadAddr, rax)
h_NOP == T("nop", 0, 0, 0)

\* engine
Handler(isn) ==
    CASE isn.op = "IADD_RS" -> h_IADD_RS(isn) [] isn.op = "IADD_M" -> h_IADD_M(isn)
      [] isn.op = "ISUB_R" -> h_ISUB_R(isn)   [] isn.op = "ISUB_M" -> h_ISUB_M(isn)
      [] isn.op = "IMUL_R" -> h_IMUL_R(isn)   [] isn.op = "IMUL_M" -> h_IMUL_M(isn)
      [] isn.op = "IMULH_R" -> h_IMULH_R(isn) [] isn.op = "IMULH_M" -> h_IMULH_M(isn)
      [] isn.op = "ISMULH_R" -> h_ISMULH_R(isn) [] isn.op = "ISMULH_M" -> h_ISMULH_M(isn)
      [] isn.op = "IMUL_RCP" -> h_IMUL_RCP(isn) [] isn.op = "INEG_R" -> h_INEG_R(isn)
      [] isn.op = "IXOR_R" -> h_IXOR_R(isn)   [] isn.op = "IXOR_M" -> h_IXOR_M(isn)
      [] isn.op = "IROR_R" -> h_IROR_R(isn)   [] isn.op = "IROL_R" -> h_IROL_R(isn)
      [] isn.op = "ISWAP_R" -> h_ISWAP_R(isn) [] isn.op = "FSWAP_R" -> h_FSWAP_R(isn)
      [] isn.op = "FADD_R" -> h_FADD_R(isn)   [] isn.op = "FADD_M" -> h_FADD_M(isn)
      [] isn.op = "FSUB_R" -> h_FSUB_R(isn)   [] isn.op = "FSUB_M" -> h_FSUB_M(isn)
      [] isn.op = "FSCAL_R" -> h_FSCAL_R(isn) [] isn.op = "FMUL_R" -> h_FMUL_R(isn)
      [] isn.op = "FDIV_M" -> h_FDIV_M(isn)   [] isn.op = "FSQRT_R" -> h_FSQRT_R(isn)
      [] isn.op = "CBRANCH" -> h_CBRANCH(isn) [] isn.op = "CFROUND" -> h_CFROUND(isn)
      [] isn.op = "ISTORE" -> h_ISTORE(isn)   [] isn.op = "NOP" -> h_NOP
generateCode(state, isn) == Emit(state, Handler(isn))

-----------------------------------------------------------------------------
(* The frame the text is assembled into.                                   *)

Environment(k) ==
    CASE k = regScratchpadAddr -> ScratchpadBase
      [] k \in {Lo(mantissaMaskReg), Hi(mantissaMaskReg)} -> ExponentClear
      [] k = Lo(exponentMaskReg) -> EMask[1]
      [] k = Hi(exponentMaskReg) -> EMask[2]
      [] k \in {Lo(scaleMaskReg), Hi(scaleMaskReg)} -> FscalMask
Reserved ==
    {regScratchpadAddr}
    \cup UNION {{Lo(k), Hi(k)} : k \in {mantissaMaskReg, exponentMaskReg, scaleMaskReg}}

-----------------------------------------------------------------------------
(* A program of SuperscalarHash, as assembly text and as a C function; the  *)
(* divisors are still its own.                                             *)

Plain(op, isn, b) == T(op, regR(isn.dst), regR(isn.dst), b)
ShiftedAdd(isn) ==
    Plain(<<"add", "add2", "add4", "add8">>[isn.modShift + 1], isn, regR(isn.src))
High(op, isn) ==
    T("mov", rax, regR(isn.dst), 0) \o T(op, rdx, rax, regR(isn.src)) \o T("mov", regR(isn.dst), rdx, 0)

generateAsm(isn) ==
    CASE isn.op = "ISUB_R" -> Plain("sub", isn, regR(isn.src))
      [] isn.op = "IXOR_R" -> Plain("xor", isn, regR(isn.src))
      [] isn.op = "IADD_RS" -> ShiftedAdd(isn)
      [] isn.op = "IMUL_R" -> Plain("mul", isn, regR(isn.src))
      [] isn.op = "IROR_C" -> Plain("ror", isn, Imm(isn.imm))
      [] isn.op = "IADD_C" -> Plain("add", isn, Imm(SignExtend(isn.imm)))
      [] isn.op = "IXOR_C" -> Plain("xor", isn, Imm(SignExtend(isn.imm)))
      [] isn.op = "IMULH_R" -> High("mulh", isn)
      [] isn.op = "ISMULH_R" -> High("smulh", isn)
      [] isn.op = "IMUL_RCP" ->
           T("mov", rax, Imm(randomx_reciprocal(isn.imm)), 0) \o Plain("mul", isn, rax)
generateC(isn) ==
    IF isn.op \in {"IMULH_R", "ISMULH_R"}
    THEN Plain(IF isn.op = "IMULH_R" THEN "mulh" ELSE "smulh", isn, regR(isn.src))
    ELSE IF isn.op = "IMUL_RCP" THEN Plain("mul", isn, Imm(randomx_reciprocal(isn.imm)))
    ELSE generateAsm(isn)

=============================================================================
