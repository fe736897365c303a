------------------------------- MODULE CodeRv64 -------------------------------
(***************************************************************************)
(* The code JitCompilerRV64 generates for each instruction.  LowBits and   *)
(* LuiBits scale the 12 bits of an immediate of RISC-V and the 6 bits of    *)
(* c.lui; offsets into the pool of literals keep their real size.          *)
(***************************************************************************)
EXTENDS MachineCode

CONSTANTS
    LowBits, LuiBits,
    HasZba, HasZbb  \* __riscv_zba, __riscv_zbb

LiteralPoolReg == 3
SpadReg == 5
Tmp1Reg == 8
Tmp2Reg == 9
MaskL1Reg == 10
MaskL2Reg == 11
MaskFscalReg == 12
MaskEclear == 13
MaskEsetLo == 14
MaskEsetHi == 15
MaskL3Reg == 1
Tmp1RegF == F(24)
Tmp2RegF == F(25)
regR(i) == 16 + i
regLoF(i) == F(2 * i)
regHiF(i) == F(2 * i + 1)
regLoE(i) == F(2 * i + 8)
regHiE(i) == F(2 * i + 9)
regLoA(i) == F(2 * i + 16)
regHiA(i) == F(2 * i + 17)
regRcp(i) == 28 + i
regRcpF(i) == F(22 + i)

MaxInstrCodeSize == 56

\* A mistake in it: the upper part does not make up for the sign of the lower one.
UpperPartNotCarried(imm) == SignedBits(imm, ImmBits) \div 2^LowBits
UpperPart(imm) ==
    (SignedBits(imm, ImmBits) \div 2^LowBits) + IF SignedBits(imm, LowBits) < 0 THEN 1 ELSE 0
\* x{dst} = x{src} + {imm}
emitImm32(imm, dst, src, tmp) ==
    LET limm == SignedBits(imm, LowBits)
        uimm == UpperPart(imm)
        dst1 == IF src # dst THEN dst ELSE tmp
        src1 == IF src # dst THEN src ELSE dst1
        short == uimm \in -(2^(LuiBits - 1)) .. 2^(LuiBits - 1) - 1
    IN  IF uimm = 0 THEN <<I("add", dst, src, Imm(limm), 4)>>
        ELSE <<I("mov", dst1, Imm(SignExtend(uimm * 2^LowBits)), 0, IF short THEN 2 ELSE 4)>>
             \o (IF limm # 0 THEN <<I("addw", dst1, dst1, Imm(limm), 4)>> ELSE <<>>)
             \o (IF src1 # 0 THEN <<I("add", dst, dst, src1, 2)>> ELSE <<>>)

\* x9 = &Scratchpad[isn.imm]
genAddressRegImm(isn) ==
    emitImm32(And(isn.imm, ScratchpadL3Mask), Tmp2Reg, SpadReg, Tmp1Reg)

\* The immediate keeps the bits of its level, the highest one as the sign.
AddressImm(isn, bits) == SignedBits(isn.imm, bits)

\* x9 = &Scratchpad[isn.src + isn.imm]
genAddressReg(isn) ==
    LET bits == IF isn.modMem # 0 THEN L1Bits ELSE L2Bits
        maskReg == IF isn.modMem # 0 THEN MaskL1Reg ELSE MaskL2Reg
    IN  emitImm32(AddressImm(isn, bits), Tmp2Reg, regR(isn.src), Tmp1Reg)
        \o <<I("and", Tmp2Reg, Tmp2Reg, maskReg, 2), I("add", Tmp2Reg, Tmp2Reg, SpadReg, 2)>>

loadFromScratchpad(isn) ==
    (IF isn.src # isn.dst THEN genAddressReg(isn) ELSE genAddressRegImm(isn))
    \o <<I("ld", Tmp1Reg, Tmp2Reg, Imm(0), 2)>>

genAddressRegDst(isn) ==
    IF isn.modCond < StoreL3Condition
    THEN LET bits == IF isn.modMem # 0 THEN L1Bits ELSE L2Bits
             maskReg == IF isn.modMem # 0 THEN MaskL1Reg ELSE MaskL2Reg
         IN  emitImm32(AddressImm(isn, bits), Tmp2Reg, regR(isn.dst), Tmp1Reg)
             \o <<I("and", Tmp2Reg, Tmp2Reg, maskReg, 2), I("add", Tmp2Reg, Tmp2Reg, SpadReg, 2)>>
    ELSE emitImm32(AddressImm(isn, L3Bits), Tmp2Reg, regR(isn.dst), Tmp1Reg)
         \o <<I("and", Tmp2Reg, Tmp2Reg, MaskL3Reg, 4), I("add", Tmp2Reg, Tmp2Reg, SpadReg, 2)>>

RcpLiteralsOffset == 144

\* The first 238 literals lie at positive offsets from the pool register, the next
\* 256 at negative ones.
LiteralOffset(count) ==
    IF count < 238 THEN RcpLiteralsOffset + count * 8
                   ELSE count * 8 - (2048 - RcpLiteralsOffset) - 2048
emitRcpLiteral1(state, literal) ==
    [WithLiteral(state, PoolBase + LiteralOffset(state.rcpCount), literal) EXCEPT !.rcpCount = @ + 1]

-----------------------------------------------------------------------------
(* The handlers.                                                           *)

Op3(op, d, b, n) == <<I(op, regR(d), regR(d), b, n)>>

h_IADD_RS(isn) ==
    (IF isn.modShift = 0 THEN Op3("add", isn.dst, regR(isn.src), 2)
     ELSE IF HasZba THEN Op3(<<"add2", "add4", "add8">>[isn.modShift], isn.dst, regR(isn.src), 4)
     ELSE <<I("sll", Tmp1Reg, regR(isn.src), Imm(isn.modShift), 4)>> \o Op3("add", isn.dst, Tmp1Reg, 2))
    \o (IF isn.dst = 5 THEN emitImm32(isn.imm, regR(isn.dst), regR(isn.dst), Tmp1Reg) ELSE <<>>)
h_IADD_M(isn) == loadFromScratchpad(isn) \o Op3("add", isn.dst, Tmp1Reg, 2)
h_ISUB_R(isn) ==
    IF isn.src # isn.dst THEN Op3("sub", isn.dst, regR(isn.src), 4)
    ELSE emitImm32((-isn.imm) % Half, regR(isn.dst), regR(isn.dst), Tmp1Reg)
h_ISUB_M(isn) == loadFromScratchpad(isn) \o Op3("sub", isn.dst, Tmp1Reg, 4)
h_IMUL_R(isn) ==
    IF isn.src # isn.dst THEN Op3("mul", isn.dst, regR(isn.src), 4)
    ELSE emitImm32(isn.imm, Tmp1Reg, 0, 0) \o Op3("mul", isn.dst, Tmp1Reg, 4)
h_IMUL_M(isn) == loadFromScratchpad(isn) \o Op3("mul", isn.dst, Tmp1Reg, 4)
h_IMULH_R(isn) == Op3("mulh", isn.dst, regR(isn.src), 4)
h_IMULH_M(isn) == loadFromScratchpad(isn) \o Op3("mulh", isn.dst, Tmp1Reg, 4)
h_ISMULH_R(isn) == Op3("smulh", isn.dst, regR(isn.src), 4)
h_ISMULH_M(isn) == loadFromScratchpad(isn) \o Op3("smulh", isn.dst, Tmp1Reg, 4)

\* The offset goes into the 12 signed bits of ld.
h_IMUL_RCP(state, isn) ==
    IF isZeroOrPowerOf2(isn.imm) THEN state
    ELSE emitRcpLiteral1(
           Emit(state,
                IF state.rcpCount < 4 THEN Op3("mul", isn.dst, regRcp(state.rcpCount), 4)
                ELSE <<IF state.rcpCount < 10
                       THEN I("mov", Tmp1Reg, regRcpF(state.rcpCount), 0, 4)
                       ELSE I("lit", Tmp1Reg, LiteralPoolReg,
                              Imm(SignedBits(RcpLiteralsOffset + state.rcpCount * 8, 12)), 4)>>
                     \o Op3("mul", isn.dst, Tmp1Reg, 4)),
           randomx_reciprocal(isn.imm))

h_INEG_R(isn) == <<I("sub", regR(isn.dst), 0, regR(isn.dst), 4)>>
h_IXOR_R(isn) ==
    IF isn.src # isn.dst THEN Op3("xor", isn.dst, regR(isn.src), 4)
    ELSE emitImm32(isn.imm, Tmp1Reg, 0, 0) \o Op3("xor", isn.dst, Tmp1Reg, 4)
h_IXOR_M(isn) == loadFromScratchpad(isn) \o Op3("xor", isn.dst, Tmp1Reg, 4)

h_IROR_R(isn) ==
    LET dst == regR(isn.dst)  src == regR(isn.src)  immr == isn.imm % 16
    IN  IF HasZbb THEN Op3("ror", isn.dst, IF isn.src # isn.dst THEN src ELSE Imm(immr), 4)
        ELSE IF isn.src # isn.dst
        THEN <<I("sub", Tmp1Reg, 0, src, 4), I("srl", Tmp2Reg, dst, src, 4),
               I("sll", dst, dst, Tmp1Reg, 4), I("or", dst, dst, Tmp2Reg, 4)>>
        ELSE <<I("srl", Tmp1Reg, dst, Imm(immr), 4), I("sll", dst, dst, Imm((-immr) % 16), 2),
               I("or", dst, dst, Tmp1Reg, 4)>>
h_IROL_R(isn) ==
    LET dst == regR(isn.dst)  src == regR(isn.src)  imml == isn.imm % 16
    IN  IF HasZbb
        THEN IF isn.src # isn.dst THEN Op3("rol", isn.dst, src, 4)
             ELSE Op3("ror", isn.dst, Imm((-isn.imm) % 16), 4)
        ELSE IF isn.src # isn.dst
        THEN <<I("sub", Tmp1Reg, 0, src, 4), I("sll", Tmp2Reg, dst, src, 4),
               I("srl", dst, dst, Tmp1Reg, 4), I("or", dst, dst, Tmp2Reg, 4)>>
        ELSE <<I("srl", Tmp1Reg, dst, Imm((-imml) % 16), 4), I("sll", dst, dst, Imm(imml), 2),
               I("or", dst, dst, Tmp1Reg, 4)>>
h_ISWAP_R(isn) ==
    IF isn.src = isn.dst THEN <<>>
    ELSE <<I("mov", Tmp1Reg, regR(isn.dst), 0, 2), I("mov", regR(isn.dst), regR(isn.src), 0, 2),
           I("mov", regR(isn.src), Tmp1Reg, 0, 2)>>

\* regLoF goes on into the registers of group e from the fifth register on.
h_FSWAP_R(isn) ==
    <<I("mov", Tmp1RegF, regLoF(isn.dst), 0, 4), I("mov", regLoF(isn.dst), regHiF(isn.dst), 0, 4),
      I("mov", regHiF(isn.dst), Tmp1RegF, 0, 4)>>

FloatPair(op, lo, hi, b, c) == <<I(op, lo, lo, b, 4), I(op, hi, hi, c, 4)>>
\* f24, f25 = the two halves of a word of the scratchpad
LoadFloat(isn) ==
    genAddressReg(isn)
    \o <<I("lw", Tmp1Reg, Tmp2Reg, Imm(0), 2), I("lw", Tmp2Reg, Tmp2Reg, Imm(1), 2),
         I("cvt", Tmp1RegF, Tmp1Reg, 0, 4), I("cvt", Tmp2RegF, Tmp2Reg, 0, 4)>>
FloatDst(isn) == isn.dst % 4
FloatSrc(isn) == isn.src % 4

h_FADD_R(isn) == FloatPair("fadd", regLoF(FloatDst(isn)), regHiF(FloatDst(isn)),
                           regLoA(FloatSrc(isn)), regHiA(FloatSrc(isn)))
h_FADD_M(isn) == LoadFloat(isn)
    \o FloatPair("fadd", regLoF(FloatDst(isn)), regHiF(FloatDst(isn)), Tmp1RegF, Tmp2RegF)
h_FSUB_R(isn) == FloatPair("fsub", regLoF(FloatDst(isn)), regHiF(FloatDst(isn)),
                           regLoA(FloatSrc(isn)), regHiA(FloatSrc(isn)))
h_FSUB_M(isn) == LoadFloat(isn)
    \o FloatPair("fsub", regLoF(FloatDst(isn)), regHiF(FloatDst(isn)), Tmp1RegF, Tmp2RegF)
h_FSCAL_R(isn) ==
    LET lo == regLoF(FloatDst(isn))  hi == regHiF(FloatDst(isn))
    IN  <<I("mov", Tmp1Reg, lo, 0, 4), I("mov", Tmp2Reg, hi, 0, 4),
          I("xor", Tmp1Reg, Tmp1Reg, MaskFscalReg, 2), I("xor", Tmp2Reg, Tmp2Reg, MaskFscalReg, 2),
          I("mov", lo, Tmp1Reg, 0, 4), I("mov", hi, Tmp2Reg, 0, 4)>>
h_FMUL_R(isn) == FloatPair("fmul", regLoE(FloatDst(isn)), regHiE(FloatDst(isn)),
                           regLoA(FloatSrc(isn)), regHiA(FloatSrc(isn)))
h_FDIV_M(isn) ==
    LoadFloat(isn)
    \o <<I("mov", Tmp1Reg, Tmp1RegF, 0, 4), I("mov", Tmp2Reg, Tmp2RegF, 0, 4),
         I("and", Tmp1Reg, Tmp1Reg, MaskEclear, 2), I("and", Tmp2Reg, Tmp2Reg, MaskEclear, 2),
         I("or", Tmp1Reg, Tmp1Reg, MaskEsetLo, 2), I("or", Tmp2Reg, Tmp2Reg, MaskEsetHi, 2),
         I("mov", Tmp1RegF, Tmp1Reg, 0, 4), I("mov", Tmp2RegF, Tmp2Reg, 0, 4)>>
    \o FloatPair("fdiv", regLoE(FloatDst(isn)), regHiE(FloatDst(isn)), Tmp1RegF, Tmp2RegF)
h_FSQRT_R(isn) == FloatPair("fsqrt", regLoE(FloatDst(isn)), regHiE(FloatDst(isn)), 0, 0)

\* The longest form of the jump: c.bnez and j.
h_CBRANCH(isn) ==
    emitImm32(ConditionMask * 2^Shift(isn), Tmp1Reg, 0, 0)
    \o emitImm32(BranchImm(isn), regR(isn.dst), regR(isn.dst), Tmp2Reg)
    \o <<I("and", Tmp1Reg, Tmp1Reg, regR(isn.dst), 4), I("branch", 0, Tmp1Reg, Imm(Size - 1), 6)>>

h_CFROUND(isn, v2) ==
    LET imm == (isn.imm - 2) % 16
        rotated == IF imm = 0 THEN regR(isn.src) ELSE Tmp1Reg
    IN  (IF imm = 0 THEN <<>>
         ELSE IF HasZbb THEN <<I("ror", Tmp1Reg, regR(isn.src), Imm(imm), 4)>>
         ELSE <<I("srl", Tmp1Reg, regR(isn.src), Imm(imm), 4),
                I("sll", Tmp2Reg, regR(isn.src), Imm((-imm) % 16), 4),
                I("or", Tmp1Reg, Tmp1Reg, Tmp2Reg, 2)>>)
        \o (IF v2 THEN <<I("and", Tmp2Reg, rotated, Imm(240), 4),
                         I("bnez", IF imm = 0 THEN 14 ELSE 12, Tmp2Reg, Imm(Size - 1), 2)>>
                  ELSE <<>>)
        \o <<I("and", Tmp1Reg, rotated, Imm(12), IF imm = 0 THEN 4 ELSE 2),
             I("add", Tmp1Reg, Tmp1Reg, LiteralPoolReg, 2),
             I("lit", Tmp1Reg, Tmp1Reg, Imm(64), 2),
             I("fsrm", 0, Tmp1Reg, 0, 4)>>
h_ISTORE(isn) == genAddressRegDst(isn) \o <<I("sd", regR(isn.src), Tmp2Reg, Imm(0), 4)>>
h_NOP == <<>>

\* opcodeMap1
Handler(isn, v2) ==
    CASE isn.op = "IADD_RS" -> h_IADD_RS(isn) [] isn.op = "IADD_M" -> h_IADD_M(isn)
      [] isn.op = "ISUB_R" -> h_ISUB_R(isn)   [] isn.op = "ISUB_M" -> h_ISUB_M(isn)
      [] isn.op = "IMUL_R" -> h_IMUL_R(isn)   [] isn.op = "IMUL_M" -> h_IMUL_M(isn)
      [] isn.op = "IMULH_R" -> h_IMULH_R(isn) [] isn.op = "IMULH_M" -> h_IMULH_M(isn)
      [] isn.op = "ISMULH_R" -> h_ISMULH_R(isn) [] isn.op = "ISMULH_M" -> h_ISMULH_M(isn)
      [] isn.op = "INEG_R" -> h_INEG_R(isn)
      [] isn.op = "IXOR_R" -> h_IXOR_R(isn)   [] isn.op = "IXOR_M" -> h_IXOR_M(isn)
      [] isn.op = "IROR_R" -> h_IROR_R(isn)   [] isn.op = "IROL_R" -> h_IROL_R(isn)
      [] isn.op = "ISWAP_R" -> h_ISWAP_R(isn) [] isn.op = "FSWAP_R" -> h_FSWAP_R(isn)
      [] isn.op = "FADD_R" -> h_FADD_R(isn)   [] isn.op = "FADD_M" -> h_FADD_M(isn)
      [] isn.op = "FSUB_R" -> h_FSUB_R(isn)   [] isn.op = "FSUB_M" -> h_FSUB_M(isn)
      [] isn.op = "FSCAL_R" -> h_FSCAL_R(isn) [] isn.op = "FMUL_R" -> h_FMUL_R(isn)
      [] isn.op = "FDIV_M" -> h_FDIV_M(isn)   [] isn.op = "FSQRT_R" -> h_FSQRT_R(isn)
      [] isn.op = "CBRANCH" -> h_CBRANCH(isn) [] isn.op = "CFROUND" -> h_CFROUND(isn, v2)
      [] isn.op = "ISTORE" -> h_ISTORE(isn)   [] isn.op = "NOP" -> h_NOP
emitInstruction(state, isn, v2) ==
    IF isn.op = "IMUL_RCP" THEN h_IMUL_RCP(state, isn) ELSE Emit(state, Handler(isn, v2))

-----------------------------------------------------------------------------
(* What the code before the program leaves in the registers, and which     *)
(* register holds what.                                                    *)

\* The table of CFROUND, at 64 bytes past the pool register.
Literals(state) ==
    [k \in DOMAIN state.literals \cup {PoolBase + 64 + 4 * j : j \in 0 .. 3} |->
        IF k \in DOMAIN state.literals THEN state.literals[k]
                                       ELSE <<0, 2, 3, 1>>[(k - PoolBase - 64) \div 4 + 1]]
RcpRegisters == {regRcp(i) : i \in 0 .. 3} \cup {regRcpF(i) : i \in 4 .. 9}
RcpIndex(k) == IF k < 32 THEN k - 28 ELSE k - F(22)
Environment(k, literals) ==
    CASE k = 0 -> 0
      [] k = LiteralPoolReg -> PoolBase
      [] k = SpadReg -> ScratchpadBase
      [] k = MaskL1Reg -> ScratchpadL1Mask
      [] k = MaskL2Reg -> ScratchpadL2Mask
      [] k = MaskL3Reg -> ScratchpadL3Mask
      [] k = MaskFscalReg -> FscalMask
      [] k = MaskEclear -> ExponentClear
      [] k = MaskEsetLo -> EMask[1]
      [] k = MaskEsetHi -> EMask[2]
      [] k \in RcpRegisters ->
           LET address == PoolBase + RcpLiteralsOffset + 8 * RcpIndex(k)
           IN  IF address \in DOMAIN literals THEN literals[address] ELSE 0
Reserved ==
    {0, LiteralPoolReg, SpadReg, MaskL1Reg, MaskL2Reg, MaskL3Reg, MaskFscalReg,
     MaskEclear, MaskEsetLo, MaskEsetHi} \cup RcpRegisters
\* What the code around the program keeps in registers: sp, the dataset, its next item,
\* the counter, mx and ma, the two addresses; and tp, which is the caller's.
LoopRegisters == {2, 4, 6, 7, 24, 25, 26, 27}

-----------------------------------------------------------------------------
(* SuperscalarHash: x7 is the item number, x6 the cache.                   *)

MaxSuperscalarInstrSize == 12
DataReg == 6
SuperscalarReg == 7
SshTmp1Reg == 28
SshTmp2Reg == 29
SshPoolReg == 30
SshRcpReg == 31
regSS(i) == 8 + i

SshCompilerState(state) == [state EXCEPT !.rcpCount = 0]

SshInit ==
    <<I("add", regSS(0), SuperscalarReg, Imm(1), 4), I("mul", regSS(0), regSS(0), Imm(superscalarMul0), 4),
      I("mov", SshPoolReg, Imm(PoolBase), 0, 8), I("and", SuperscalarReg, SuperscalarReg, Imm(CacheMask), 2),
      I("sll", SuperscalarReg, SuperscalarReg, Imm(4), 2), I("add", SuperscalarReg, SuperscalarReg, DataReg, 2),
      I("lit", SshRcpReg, SshPoolReg, Imm(2040), 4)>>
    \o FlattenSeq([q \in 1 .. 7 |-> <<I("mov", regSS(q), Imm(superscalarAdd[q]), 0, 4),
                                      I("xor", regSS(q), regSS(q), regSS(0), 2)>>])
SshLoad ==
    FlattenSeq([k \in 1 .. 8 |->
        LET tmp == IF k % 2 = 1 THEN SshTmp1Reg ELSE SshTmp2Reg
        IN  <<I("ld", tmp, SuperscalarReg, Imm(2 * (k - 1)), 2), I("xor", regSS(k - 1), regSS(k - 1), tmp, 2)>>])
\* x7 is the mask until the next line is found.
SshMix(addressRegister, last) ==
    SshLoad
    \o IF last THEN <<>>
       ELSE <<I("mov", SuperscalarReg, Imm(CacheMask), 0, 8),
              I("and", SuperscalarReg, regSS(addressRegister), SuperscalarReg, 4),
              I("sll", SuperscalarReg, SuperscalarReg, Imm(4), 2),
              I("add", SuperscalarReg, SuperscalarReg, DataReg, 2)>>

\* A mistake in it: the literal just stored is loaded again.
emitRcpLiteral2Again(state, literal, numLiterals) ==
    LET offset == 2040 - 8 * state.rcpCount
    IN  Emit([WithLiteral(state, PoolBase + offset, literal) EXCEPT !.rcpCount = @ + 1],
             IF state.rcpCount + 1 >= numLiterals THEN <<>>
             ELSE <<I("lit", SshRcpReg, SshPoolReg, Imm(SignedBits(offset, 12)), 4)>>)
\* The literal goes into the pool, downwards from 2040; x31 gets the one after it.
emitRcpLiteral2(state, literal, numLiterals) ==
    LET offset == 2040 - 8 * state.rcpCount
        next == SignedBits(offset - 8, 12)
    IN  Emit([WithLiteral(state, PoolBase + offset, literal) EXCEPT !.rcpCount = @ + 1],
             IF state.rcpCount + 1 >= numLiterals THEN <<>>
             ELSE <<I("lit", SshRcpReg, SshPoolReg, Imm(next), 4)>>
                  \o IF next = -2048
                     THEN <<I("mov", SshTmp2Reg, Imm(-4096), 0, 2), I("add", SshPoolReg, SshPoolReg, SshTmp2Reg, 2)>>
                     ELSE <<>>)

SshOp(op, isn, b, n) == <<I(op, regSS(isn.dst), regSS(isn.dst), b, n)>>
SshCode(isn) ==
    CASE isn.op = "ISUB_R" -> SshOp("sub", isn, regSS(isn.src), 2)
      [] isn.op = "IXOR_R" -> SshOp("xor", isn, regSS(isn.src), 2)
      [] isn.op = "IADD_RS" ->
           (IF isn.modShift = 0 THEN SshOp("add", isn, regSS(isn.src), 2)
            ELSE IF HasZba THEN SshOp(<<"add2", "add4", "add8">>[isn.modShift], isn, regSS(isn.src), 4)
            ELSE <<I("sll", SshTmp1Reg, regSS(isn.src), Imm(isn.modShift), 4)>> \o SshOp("add", isn, SshTmp1Reg, 2))
      [] isn.op = "IMUL_R" -> SshOp("mul", isn, regSS(isn.src), 4)
      [] isn.op = "IROR_C" ->
           (IF HasZbb THEN SshOp("ror", isn, Imm(isn.imm % 16), 4)
            ELSE <<I("srl", SshTmp1Reg, regSS(isn.dst), Imm(isn.imm % 16), 4)>>
                 \o SshOp("sll", isn, Imm((-isn.imm) % 16), 2) \o SshOp("or", isn, SshTmp1Reg, 4))
      [] isn.op = "IADD_C" -> emitImm32(isn.imm, regSS(isn.dst), regSS(isn.dst), SshTmp1Reg)
      [] isn.op = "IXOR_C" -> emitImm32(isn.imm, SshTmp1Reg, 0, 0) \o SshOp("xor", isn, SshTmp1Reg, 4)
      [] isn.op = "IMULH_R" -> SshOp("mulh", isn, regSS(isn.src), 4)
      [] isn.op = "ISMULH_R" -> SshOp("smulh", isn, regSS(isn.src), 4)
      [] isn.op = "IMUL_RCP" -> SshOp("mul", isn, SshRcpReg, 4)
generateSuperscalarCode(state, isn, reciprocalCache) ==
    LET s == Emit(state, SshCode(isn))
    IN  IF isn.op = "IMUL_RCP" THEN emitRcpLiteral2(s, reciprocalCache[isn.imm + 1], Len(reciprocalCache)) ELSE s
SshClobbered == {regSS(q) : q \in 0 .. 7} \cup {SuperscalarReg, SshTmp1Reg, SshTmp2Reg, SshPoolReg, SshRcpReg}

=============================================================================
