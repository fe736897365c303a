----------------------------- MODULE CodeRv64Vector -----------------------------
(***************************************************************************)
(* The code generateProgramVectorRV64 generates for each instruction, for  *)
(* RISC-V with the vector extension.  LowBits and LuiBits scale the widths *)
(* of immediates as in CodeRv64; the pool of literals keeps its real size. *)
(***************************************************************************)
EXTENDS MachineCode

CONSTANTS
    LowBits, LuiBits,
    HasZba, HasZbb, HasZvkb  \* __riscv_zba, __riscv_zbb, __riscv_zvkb

\* .fill RANDOMX_PROGRAM_MAX_SIZE * 52
MaxInstrCodeSize == 52

MaskL3 == 1
x5 == 5
x6 == 6
BranchMask == 7
Scratchpad == 12
MaskL1 == 16
MaskL2 == 17
LiteralsPointer == 18
r(i) == 20 + i
f(i) == i
e(i) == 4 + i
a(i) == 8 + i
EAndMask == 12
EOrMask == 13
ScaleMask == 14
Temp16 == 16
Temp18 == 18

rcp_regs ==
    <<8, 10, 28, 29, 30, 31>> \o [i \in 1 .. 8 |-> F(i - 1)] \o [i \in 1 .. 8 |-> F(i + 9)]
      \o [i \in 1 .. 4 |-> F(i + 27)]

\* c.lui only for a positive upper part.
imm_to_x5(imm) ==
    LET imm_lo == imm % 2^LowBits
        imm_hi == ((imm + IF Negative(imm, LowBits) THEN 2^LowBits ELSE 0) % Half) \div 2^LowBits
        upper == I("mov", x5, Imm(SignExtend(imm_hi * 2^LowBits)), 0, 4)
    IN  IF imm_hi = 0 THEN <<I("mov", x5, Imm(SignedBits(imm, LowBits)), 0, 4)>>
        ELSE IF imm_lo = 0 THEN <<upper>>
        ELSE <<IF imm_hi < 2^(LuiBits - 1) THEN [upper EXCEPT ![5] = 2] ELSE upper,
               I("addw", x5, x5, Imm(SignedBits(imm, LowBits)), 4)>>

\* x5 = the word of the scratchpad
loadFromScratchpad(src, dst, isn) ==
    LET absolute == And(isn.imm, ScratchpadL3Mask)
        reach == 2^(LowBits - 1) - 1
        bits == IF isn.modMem = 0 THEN L2Bits ELSE L1Bits
        imm == SignedBits(isn.imm, bits)
    IN  IF src = dst
        THEN IF absolute <= reach THEN <<I("ld", x5, Scratchpad, Imm(absolute), 4)>>
             ELSE IF absolute <= 2 * reach
             THEN <<I("add", x5, Scratchpad, Imm(reach), 4), I("ld", x5, x5, Imm(absolute - reach), 4)>>
             ELSE <<I("mov", x5, Imm(SignExtend(absolute - SignedBits(absolute, LowBits))), 0, 4),
                    I("add", x5, x5, Scratchpad, 2),
                    I("ld", x5, x5, Imm(SignedBits(absolute, LowBits)), 4)>>
        ELSE (IF imm \in -(reach + 1) .. reach THEN <<I("add", x5, r(src), Imm(imm), 4)>>
              ELSE imm_to_x5(imm % Half) \o <<I("add", x5, x5, r(src), 2)>>)
             \o <<I("and", x5, x5, IF isn.modMem = 0 THEN MaskL2 ELSE MaskL1, 4),
                  I("add", x5, x5, Scratchpad, 2), I("ld", x5, x5, Imm(0), 4)>>

-----------------------------------------------------------------------------
(* The cases of the switch.                                                *)

OnDst(op, isn, b, n) == <<I(op, r(isn.dst), r(isn.dst), b, n)>>
Memory(op, isn, n) == loadFromScratchpad(isn.src, isn.dst, isn) \o OnDst(op, isn, x5, n)

IADD_RS(isn) ==
    (IF isn.modShift = 0 THEN OnDst("add", isn, r(isn.src), 2)
     ELSE IF HasZba THEN OnDst(<<"add2", "add4", "add8">>[isn.modShift], isn, r(isn.src), 4)
     ELSE <<I("sll", x5, r(isn.src), Imm(isn.modShift), 4)>> \o OnDst("add", isn, x5, 2))
    \o (IF isn.dst = 5 THEN imm_to_x5(isn.imm) \o OnDst("add", isn, x5, 2) ELSE <<>>)
IADD_M(isn) == Memory("add", isn, 2)
ISUB_R(isn) ==
    IF isn.src # isn.dst THEN OnDst("sub", isn, r(isn.src), 4)
    ELSE imm_to_x5((-isn.imm) % Half) \o OnDst("add", isn, x5, 2)
ISUB_M(isn) == Memory("sub", isn, 4)
IMUL_R(isn) ==
    IF isn.src # isn.dst THEN OnDst("mul", isn, r(isn.src), 4)
    ELSE imm_to_x5(isn.imm) \o OnDst("mul", isn, x5, 4)
IMUL_M(isn) == Memory("mul", isn, 4)
IMULH_R(isn) == OnDst("mulh", isn, r(isn.src), 4)
IMULH_M(isn) == Memory("mulh", isn, 4)
ISMULH_R(isn) == OnDst("smulh", isn, r(isn.src), 4)
ISMULH_M(isn) == Memory("smulh", isn, 4)

\* From the 27th literal on the offset goes into the 12 signed bits of ld.
IMUL_RCP(state, isn) ==
    LET offset == state.rcpCount * 8
        factor == IF offset < 26 * 8 THEN I("mov", x5, rcp_regs[state.rcpCount + 1], 0, 4)
                                     ELSE I("lit", x5, LiteralsPointer, Imm(SignedBits(offset, 12)), 4)
    IN  IF isZeroOrPowerOf2(isn.imm) THEN state
        ELSE Emit([WithLiteral(state, PoolBase + offset, randomx_reciprocal(isn.imm)) EXCEPT !.rcpCount = @ + 1],
                  IF offset < 6 * 8 THEN OnDst("mul", isn, rcp_regs[state.rcpCount + 1], 4)
                                    ELSE <<factor>> \o OnDst("mul", isn, x5, 4))

INEG_R(isn) == <<I("sub", r(isn.dst), 0, r(isn.dst), 4)>>
IXOR_R(isn) ==
    IF isn.src # isn.dst THEN OnDst("xor", isn, r(isn.src), 4)
    ELSE imm_to_x5(isn.imm) \o OnDst("xor", isn, x5, 4)
IXOR_M(isn) == Memory("xor", isn, 4)

\* Without zbb two shifts by counts that add up to a full turn.
Rotate(there, back, isn) ==
    IF isn.src # isn.dst
    THEN <<I("sub", x5, 0, r(isn.src), 4), I(there, x6, r(isn.dst), r(isn.src), 4)>>
         \o OnDst(back, isn, x5, 4) \o OnDst("or", isn, x6, 4)
    ELSE <<I("srl", x5, r(isn.dst), Imm((IF there = "srl" THEN isn.imm ELSE -isn.imm) % 16), 4),
           I("sll", x6, r(isn.dst), Imm((IF there = "srl" THEN -isn.imm ELSE isn.imm) % 16), 4),
           I("or", r(isn.dst), x5, x6, 4)>>
IROR_R(isn) ==
    IF HasZbb THEN OnDst("ror", isn, IF isn.src # isn.dst THEN r(isn.src) ELSE Imm(isn.imm % 16), 4)
              ELSE Rotate("srl", "sll", isn)
IROL_R(isn) ==
    IF HasZbb
    THEN IF isn.src # isn.dst THEN OnDst("rol", isn, r(isn.src), 4)
                              ELSE OnDst("ror", isn, Imm((-isn.imm) % 16), 4)
    ELSE Rotate("sll", "srl", isn)
ISWAP_R(isn) ==
    IF isn.src = isn.dst THEN <<>>
    ELSE <<I("mov", x5, r(isn.dst), 0, 2), I("mov", r(isn.dst), r(isn.src), 0, 2),
           I("mov", r(isn.src), x5, 0, 2)>>

\* The first element to x5, then the elements slide down and x5 follows; v0-v7 are
\* the groups f and e in a row.
FSWAP_R(isn) ==
    <<I("mov", x5, Lo(f(isn.dst)), 0, 4), I("mov", Lo(f(isn.dst)), Hi(f(isn.dst)), 0, 4),
      I("mov", Hi(f(isn.dst)), x5, 0, 0)>>

FloatDst(isn) == isn.dst % 4
FloatSrc(isn) == isn.src % 4
Packed(op, d, b) == Both(op, d, d, b, 4)
\* src is never equal to RegistersCount; then group_f_convert.
LoadFloat(isn) ==
    loadFromScratchpad(isn.src, 8, isn)
    \o <<I("mov", Lo(Temp16), x5, 0, 4), I("mov", Hi(Temp16), x5, 0, 0)>>
    \o <<I("sext", Lo(Temp18), Lo(Temp16), 0, 4), I("srl", Hi(Temp18), Lo(Temp16), Imm(ImmBits), 0),
         I("sext", Hi(Temp18), Hi(Temp18), 0, 0)>>
    \o Both("cvt", Temp16, Temp18, Temp18, 4)
FADD_R(isn) == Packed("fadd", f(FloatDst(isn)), a(FloatSrc(isn)))
FADD_M(isn) == LoadFloat(isn) \o Packed("fadd", f(FloatDst(isn)), Temp16)
FSUB_R(isn) == Packed("fsub", f(FloatDst(isn)), a(FloatSrc(isn)))
FSUB_M(isn) == LoadFloat(isn) \o Packed("fsub", f(FloatDst(isn)), Temp16)
FSCAL_R(isn) == Packed("xor", f(FloatDst(isn)), ScaleMask)
FMUL_R(isn) == Packed("fmul", e(FloatDst(isn)), a(FloatSrc(isn)))
\* group_e_post_process
FDIV_M(isn) ==
    LoadFloat(isn) \o Packed("and", Temp16, EAndMask) \o Packed("or", Temp16, EOrMask)
    \o Packed("fdiv", e(FloatDst(isn)), Temp16)
FSQRT_R(isn) == Packed("fsqrt", e(FloatDst(isn)), e(FloatDst(isn)))

\* The longest form of the jump: bnez and j.
CBRANCH(isn) ==
    <<I("sll", x6, BranchMask, Imm(Shift(isn)), 4)>>
    \o imm_to_x5(BranchImm(isn)) \o OnDst("add", isn, x5, 2)
    \o <<I("and", x5, r(isn.dst), x6, 4), I("branch", 0, x5, Imm(Size - 1), 8)>>

\* The mode, times two, is the count of a shift of the table 01111000b.
CFROUND(isn, v2) ==
    LET imm == (isn.imm - 1) % 16
        rotated == IF imm = 0 THEN r(isn.src) ELSE x5
    IN  (IF imm = 0 THEN <<>>
         ELSE IF HasZbb THEN <<I("ror", x5, r(isn.src), Imm(imm), 4)>>
         ELSE <<I("srl", x5, r(isn.src), Imm(imm), 4), I("sll", x6, r(isn.src), Imm((-imm) % 16), 4),
                I("or", x5, x5, x6, 4)>>)
        \o (IF v2 THEN <<I("and", x6, rotated, Imm(120), 4), I("bnez", 24, x6, Imm(Size - 1), 4)>>
                  ELSE <<>>)
        \o <<I("and", x5, rotated, Imm(6), 4), I("mov", x6, Imm(120), 0, 4),
             I("srl", x5, x6, x5, 4), I("and", x5, x5, Imm(3), 4), I("fsrm", 0, x5, 0, 4)>>

ISTORE(isn) ==
    LET mask_reg == IF isn.modCond >= StoreL3Condition THEN MaskL3
                    ELSE IF isn.modMem = 0 THEN MaskL2 ELSE MaskL1
        bits == IF mask_reg = MaskL3 THEN L3Bits ELSE IF mask_reg = MaskL2 THEN L2Bits ELSE L1Bits
    IN  imm_to_x5(SignedBits(isn.imm, bits) % Half)
        \o <<I("add", x5, x5, r(isn.dst), 2), I("and", x5, x5, mask_reg, 4),
             I("add", x5, x5, Scratchpad, 2), I("sd", r(isn.src), x5, Imm(0), 4)>>

Case(isn, v2) ==
    CASE isn.op = "IADD_RS" -> IADD_RS(isn) [] isn.op = "IADD_M" -> IADD_M(isn)
      [] isn.op = "ISUB_R" -> ISUB_R(isn)   [] isn.op = "ISUB_M" -> ISUB_M(isn)
      [] isn.op = "IMUL_R" -> IMUL_R(isn)   [] isn.op = "IMUL_M" -> IMUL_M(isn)
      [] isn.op = "IMULH_R" -> IMULH_R(isn) [] isn.op = "IMULH_M" -> IMULH_M(isn)
      [] isn.op = "ISMULH_R" -> ISMULH_R(isn) [] isn.op = "ISMULH_M" -> ISMULH_M(isn)
      [] isn.op = "INEG_R" -> INEG_R(isn)
      [] isn.op = "IXOR_R" -> IXOR_R(isn)   [] isn.op = "IXOR_M" -> IXOR_M(isn)
      [] isn.op = "IROR_R" -> IROR_R(isn)   [] isn.op = "IROL_R" -> IROL_R(isn)
      [] isn.op = "ISWAP_R" -> ISWAP_R(isn) [] isn.op = "FSWAP_R" -> FSWAP_R(isn)
      [] isn.op = "FADD_R" -> FADD_R(isn)   [] isn.op = "FADD_M" -> FADD_M(isn)
      [] isn.op = "FSUB_R" -> FSUB_R(isn)   [] isn.op = "FSUB_M" -> FSUB_M(isn)
      [] isn.op = "FSCAL_R" -> FSCAL_R(isn) [] isn.op = "FMUL_R" -> FMUL_R(isn)
      [] isn.op = "FDIV_M" -> FDIV_M(isn)   [] isn.op = "FSQRT_R" -> FSQRT_R(isn)
      [] isn.op = "CBRANCH" -> CBRANCH(isn) [] isn.op = "CFROUND" -> CFROUND(isn, v2)
      [] isn.op = "ISTORE" -> ISTORE(isn)   [] isn.op = "NOP" -> <<>>
generateCode(state, isn, v2) ==
    IF isn.op = "IMUL_RCP" THEN IMUL_RCP(state, isn) ELSE Emit(state, Case(isn, v2))

-----------------------------------------------------------------------------
(* What the code before the program leaves in the registers.               *)

RcpRegisters == {rcp_regs[i] : i \in DOMAIN rcp_regs}
Environment(k, literals) ==
    CASE k = 0 -> 0
      [] k = BranchMask -> ConditionMask
      [] k = Scratchpad -> ScratchpadBase
      [] k = MaskL1 -> ScratchpadL1Mask
      [] k = MaskL2 -> ScratchpadL2Mask
      [] k = MaskL3 -> ScratchpadL3Mask
      [] k = LiteralsPointer -> PoolBase
      [] k \in {Lo(EAndMask), Hi(EAndMask)} -> ExponentClear
      [] k = Lo(EOrMask) -> EMask[1]
      [] k = Hi(EOrMask) -> EMask[2]
      [] k \in {Lo(ScaleMask), Hi(ScaleMask)} -> FscalMask
      [] k \in RcpRegisters ->
           LET address == PoolBase + 8 * ((CHOOSE i \in DOMAIN rcp_regs : rcp_regs[i] = k) - 1)
           IN  IF address \in DOMAIN literals THEN literals[address] ELSE 0
Reserved ==
    {0, BranchMask, Scratchpad, MaskL1, MaskL2, MaskL3, LiteralsPointer} \cup RcpRegisters
    \cup UNION {{Lo(k), Hi(k)} : k \in {EAndMask, EOrMask, ScaleMask}}
\* What the code around the program keeps in registers, the indices of AES in software
\* among it, and the caller's registers that it does not save.
LoopRegisters ==
    {2, 3, 4, 9, 11, 13, 14, 15, 19, F(8), F(9)} \cup F(18) .. F(27)
    \cup UNION {{Lo(k), Hi(k)} : k \in {15} \cup 20 .. 27}

-----------------------------------------------------------------------------
(* SuperscalarHash: four items at once, of which one is followed.  v8 is   *)
(* its number, x10 the cache, x15 points to literals.                      *)

v(i) == Lo(i)
CachePointer == 10
CacheMaskReg == 14
SshLiterals == 15

SshCompilerState(state) == [state EXCEPT !.rcpCount = 0, !.poolStart = 0]

V(op, d, a_, b) == <<I(op, v(d), v(a_), b, 4)>>
SshPrefetch ==
    V("and", 9, 9, CacheMaskReg) \o V("sll", 9, 9, Imm(4)) \o V("add", 9, 9, CachePointer)
    \o <<I("mov", x5, v(9), 0, 4), I("ld", x5, x5, Imm(0), 4)>> \o V("mov", 18, 9, 0)
    \o V("sub", 9, 9, CachePointer)
SshInit ==
    V("mov", 0, 8, 0) \o V("mul", 0, 0, v(10)) \o <<I("add", v(0), v(0), v(10), 0)>>
    \o FlattenSeq([q \in 1 .. 7 |-> V("xor", q, 0, v(10 + q))])
    \o V("mov", 9, 8, 0) \o <<I("mov", SshLiterals, Imm(PoolBase), 0, 8)>> \o SshPrefetch
SshMix(addressRegister, last) ==
    FlattenSeq([k \in 1 .. 8 |->
        <<I("add", x5, CachePointer, Imm(2 * (k - 1)), 4), I("ld", v(18), x5, v(9), 4)>> \o V("xor", k - 1, k - 1, v(18))])
    \o (IF last THEN <<>> ELSE V("mov", 9, addressRegister, 0) \o SshPrefetch)

\* A shift or rotation by a constant: one of half the width or more needs a register.
ShiftBy(op, d, s, n) ==
    IF n < ImmBits THEN V(op, d, s, Imm(n)) ELSE <<I("mov", x5, Imm(n), 0, 4)>> \o V(op, d, s, x5)
\* lui x5; addiw x5
SshImm(imm) ==
    <<I("mov", x5, Imm(SignExtend(imm - SignedBits(imm, LowBits))), 0, 4),
      I("addw", x5, x5, Imm(SignedBits(imm, LowBits)), 4)>>

SshReciprocal(state, isn, reciprocalCache) ==
    LET next == 8 * state.rcpCount
        full == next - state.poolStart = 2040
        start == IF full THEN state.poolStart + 2040 ELSE state.poolStart
    IN  Emit([WithLiteral(state, PoolBase + next, reciprocalCache[isn.imm + 1])
                EXCEPT !.rcpCount = @ + 1, !.poolStart = start],
             (IF full THEN <<I("add", SshLiterals, SshLiterals, Imm(2040), 4)>> ELSE <<>>)
             \o <<I("lit", x5, SshLiterals, Imm(SignedBits(next - start, 12)), 4)>>
             \o V("mul", isn.dst, isn.dst, x5))
SshCode(isn) ==
    CASE isn.op = "ISUB_R" -> V("sub", isn.dst, isn.dst, v(isn.src))
      [] isn.op = "IXOR_R" -> V("xor", isn.dst, isn.dst, v(isn.src))
      [] isn.op = "IADD_RS" ->
           (IF isn.modShift = 0 THEN V("add", isn.dst, isn.dst, v(isn.src))
            ELSE V("sll", Temp18, isn.src, Imm(isn.modShift)) \o V("add", isn.dst, isn.dst, v(Temp18)))
      [] isn.op = "IMUL_R" -> V("mul", isn.dst, isn.dst, v(isn.src))
      [] isn.op = "IROR_C" ->
           (LET right == isn.imm % 16
            IN  IF HasZvkb THEN V("ror", isn.dst, isn.dst, Imm(right))
                ELSE ShiftBy("srl", Temp18, isn.dst, right) \o ShiftBy("sll", isn.dst, isn.dst, 16 - right)
                     \o V("or", isn.dst, isn.dst, v(Temp18)))
      [] isn.op = "IADD_C" -> SshImm(isn.imm) \o V("add", isn.dst, isn.dst, x5)
      [] isn.op = "IXOR_C" -> SshImm(isn.imm) \o V("xor", isn.dst, isn.dst, x5)
      [] isn.op = "IMULH_R" -> V("mulh", isn.dst, isn.dst, v(isn.src))
      [] isn.op = "ISMULH_R" -> V("smulh", isn.dst, isn.dst, v(isn.src))
generateSuperscalarCode(state, isn, reciprocalCache) ==
    IF isn.op = "IMUL_RCP" THEN SshReciprocal(state, isn, reciprocalCache) ELSE Emit(state, SshCode(isn))
SshClobbered == {x5, SshLiterals} \cup {v(q) : q \in 0 .. 9} \cup {v(Temp18)}
SshEnvironment(k) ==
    CASE k = CachePointer -> CacheBase
      [] k = CacheMaskReg -> CacheMask
      [] k \in {v(11 + q) : q \in 0 .. 6} -> superscalarAdd[(k - v(10)) \div 2]
      [] k = v(10) -> superscalarMul0

=============================================================================
