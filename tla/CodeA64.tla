-------------------------------- MODULE CodeA64 --------------------------------
(***************************************************************************)
(* The code JitCompilerA64 generates for each instruction.  Every machine  *)
(* instruction has four bytes.  MovBits scales the 16 bits of movz and     *)
(* movk, AddLowBits the 12 bits of an immediate of add and AddBits the 24  *)
(* bits two of them reach.  Literals keep their real numbers: 12 registers *)
(* for reciprocals, 64 half words in v0-v15.                               *)
(***************************************************************************)
EXTENDS MachineCode

CONSTANTS MovBits, AddLowBits, AddBits

\* RANDOMX_PROGRAM_MAX_SIZE * 12 words for the code and the literals of a program
MaxInstrCodeSize == 48

xzr == 31
scratchpad == 2
fpcr_tmp_reg == 8
IntRegMap(i) == <<4, 5, 6, 7, 12, 13, 14, 15>>[i + 1]
regF(i) == 16 + i
regE(i) == 20 + i
regA(i) == 24 + i
tmp_reg == 20
tmp_reg_fp == 28
and_mask_reg == 29
or_mask_reg == 30
scale_mask_reg == 31

A(op, d, a, b) == <<I(op, d, a, b, 4)>>

\* The next free half word of v0-v15; a negative one is read with smov.
NextLane(state) == Lane(state.num32bitLiterals)
LiteralLane(state, dst, imm) ==
    [Emit(state, A(IF Negative(imm, ImmBits) THEN "sext" ELSE "zext", dst, NextLane(state), 0))
       EXCEPT !.literals = [k \in {NextLane(state)} \cup DOMAIN @ |->
                               IF k = NextLane(state) THEN imm ELSE @[k]],
              !.num32bitLiterals = @ + 1]

emitMovImmediate(state, dst, imm) ==
    LET high == 2^MovBits * (imm \div 2^MovBits)
    IN  IF imm < 2^MovBits THEN Emit(state, A("mov", dst, Imm(imm), 0))
        ELSE IF state.num32bitLiterals < 64 THEN LiteralLane(state, dst, imm)
        ELSE Emit(state,
               A("mov", dst, Imm(IF Negative(imm, ImmBits) THEN Not(Half - 2^MovBits - high) ELSE high), 0)
               \o A("movk", dst, dst, Imm(imm % 2^MovBits)))

emitAddImmediate(state, dst, src, imm) ==
    LET imm_lo == imm % 2^AddLowBits
        imm_hi == imm - imm_lo
    IN  IF imm < 2^AddBits
        THEN Emit(state,
               IF imm_lo # 0 /\ imm_hi # 0
               THEN A("add", dst, src, Imm(imm_lo)) \o A("add", dst, dst, Imm(imm_hi))
               ELSE A("add", dst, src, Imm(IF imm_lo # 0 THEN imm_lo ELSE imm_hi)))
        ELSE Emit(emitMovImmediate(state, tmp_reg, imm), A("add", dst, src, tmp_reg))

LevelImm(isn) == isn.imm % IF isn.modMem # 0 THEN 2^L1Bits ELSE 2^L2Bits
LevelMask(isn) == Imm(IF isn.modMem # 0 THEN ScratchpadL1Mask ELSE ScratchpadL2Mask)

\* tmp_reg = the word of the scratchpad
emitMemLoad(state, isn) ==
    IF isn.src # isn.dst
    THEN Emit(emitAddImmediate(state, tmp_reg, IntRegMap(isn.src), LevelImm(isn)),
              A("and", tmp_reg, tmp_reg, LevelMask(isn)) \o A("ld", tmp_reg, scratchpad, tmp_reg))
    \* ldr with the index shifted back
    ELSE Emit(emitMovImmediate(state, tmp_reg, And(isn.imm, ScratchpadL3Mask) \div 2),
              <<I("sll", tmp_reg, tmp_reg, Imm(1), 0)>> \o A("ld", tmp_reg, scratchpad, tmp_reg))

\* tmp_reg_fp = the two halves of a word, converted; x19 and x20 are overwritten
emitMemLoadFP(state, isn) ==
    Emit(emitAddImmediate(state, 19, IntRegMap(isn.src), LevelImm(isn)),
         A("and", 19, 19, LevelMask(isn)) \o A("add", 19, scratchpad, 19)
         \o <<I("lw", 20, 19, Imm(1), 4), I("lw", 19, 19, Imm(0), 0)>>
         \o A("mov", Lo(tmp_reg_fp), 19, 0) \o A("mov", Hi(tmp_reg_fp), 20, 0)
         \o Both("cvt", tmp_reg_fp, tmp_reg_fp, tmp_reg_fp, 4))

-----------------------------------------------------------------------------
(* The handlers.                                                           *)

Op3(op, isn, b) == A(op, IntRegMap(isn.dst), IntRegMap(isn.dst), b)

h_IADD_RS(state, isn) ==
    LET added == Emit(state, Op3(<<"add", "add2", "add4", "add8">>[isn.modShift + 1], isn, IntRegMap(isn.src)))
    IN  IF isn.dst = 5 THEN emitAddImmediate(added, IntRegMap(5), IntRegMap(5), isn.imm) ELSE added
h_IADD_M(state, isn) == Emit(emitMemLoad(state, isn), Op3("add", isn, tmp_reg))
h_ISUB_R(state, isn) ==
    IF isn.src # isn.dst THEN Emit(state, Op3("sub", isn, IntRegMap(isn.src)))
    ELSE emitAddImmediate(state, IntRegMap(isn.dst), IntRegMap(isn.dst), (-isn.imm) % Half)
h_ISUB_M(state, isn) == Emit(emitMemLoad(state, isn), Op3("sub", isn, tmp_reg))
h_IMUL_R(state, isn) ==
    IF isn.src # isn.dst THEN Emit(state, Op3("mul", isn, IntRegMap(isn.src)))
    ELSE Emit(emitMovImmediate(state, tmp_reg, isn.imm), Op3("mul", isn, tmp_reg))
h_IMUL_M(state, isn) == Emit(emitMemLoad(state, isn), Op3("mul", isn, tmp_reg))
h_IMULH_R(state, isn) == Emit(state, Op3("mulh", isn, IntRegMap(isn.src)))
h_IMULH_M(state, isn) == Emit(emitMemLoad(state, isn), Op3("mulh", isn, tmp_reg))
h_ISMULH_R(state, isn) == Emit(state, Op3("smulh", isn, IntRegMap(isn.src)))
h_ISMULH_M(state, isn) == Emit(emitMemLoad(state, isn), Op3("smulh", isn, tmp_reg))

literal_regs == <<30, 29, 28, 27, 26, 25, 24, 23, 22, 21, 11, 0>>
\* The literals of reciprocals lie below PoolBase, one after the other.
LiteralPos(count) == PoolBase - 8 * (count + 1)
h_IMUL_RCP(state, isn) ==
    IF isZeroOrPowerOf2(isn.imm) THEN state
    ELSE LET literal_id == state.rcpCount
             pos == LiteralPos(literal_id)
             placed == [WithLiteral(state, pos, randomx_reciprocal(isn.imm)) EXCEPT !.rcpCount = @ + 1]
         IN  Emit(placed,
                  IF literal_id < 12 THEN Op3("mul", isn, literal_regs[literal_id + 1])
                  ELSE A("lit", tmp_reg, Imm(pos), Imm(0)) \o Op3("mul", isn, tmp_reg))

h_INEG_R(state, isn) == Emit(state, A("sub", IntRegMap(isn.dst), xzr, IntRegMap(isn.dst)))
h_IXOR_R(state, isn) ==
    IF isn.src # isn.dst THEN Emit(state, Op3("xor", isn, IntRegMap(isn.src)))
    ELSE Emit(emitMovImmediate(state, tmp_reg, isn.imm), Op3("xor", isn, tmp_reg))
h_IXOR_M(state, isn) == Emit(emitMemLoad(state, isn), Op3("xor", isn, tmp_reg))
h_IROR_R(state, isn) ==
    Emit(state, Op3("ror", isn, IF isn.src # isn.dst THEN IntRegMap(isn.src) ELSE Imm(isn.imm % 16)))
h_IROL_R(state, isn) ==
    Emit(state,
         IF isn.src # isn.dst
         THEN A("sub", tmp_reg, xzr, IntRegMap(isn.src)) \o Op3("ror", isn, tmp_reg)
         ELSE Op3("ror", isn, Imm((-isn.imm) % 16)))
h_ISWAP_R(state, isn) ==
    IF isn.src = isn.dst THEN state
    ELSE Emit(state, A("mov", tmp_reg, IntRegMap(isn.dst), 0)
                     \o A("mov", IntRegMap(isn.dst), IntRegMap(isn.src), 0)
                     \o A("mov", IntRegMap(isn.src), tmp_reg, 0))

\* v16-v23 are the groups f and e in a row.
h_FSWAP_R(state, isn) ==
    LET dst == regF(isn.dst)
    IN  Emit(state, A("mov", Lo(tmp_reg_fp), Hi(dst), 0) \o A("mov", Hi(dst), Lo(dst), 0)
                    \o A("mov", Lo(dst), Lo(tmp_reg_fp), 0))

Packed(op, d, b) == Both(op, d, d, b, 4)
F4(isn) == regF(isn.dst % 4)
E4(isn) == regE(isn.dst % 4)
A4(isn) == regA(isn.src % 4)
h_FADD_R(state, isn) == Emit(state, Packed("fadd", F4(isn), A4(isn)))
h_FADD_M(state, isn) == Emit(emitMemLoadFP(state, isn), Packed("fadd", F4(isn), tmp_reg_fp))
h_FSUB_R(state, isn) == Emit(state, Packed("fsub", F4(isn), A4(isn)))
h_FSUB_M(state, isn) == Emit(emitMemLoadFP(state, isn), Packed("fsub", F4(isn), tmp_reg_fp))
h_FSCAL_R(state, isn) == Emit(state, Packed("xor", F4(isn), scale_mask_reg))
h_FMUL_R(state, isn) == Emit(state, Packed("fmul", E4(isn), A4(isn)))
\* bif takes the bits of the or mask where the and mask, which leaves out the lowest
\* bits too, is zero.
h_FDIV_M(state, isn) ==
    Emit(emitMemLoadFP(state, isn),
         <<I("bif", Lo(tmp_reg_fp), Lo(or_mask_reg), Lo(and_mask_reg), 4),
           I("bif", Hi(tmp_reg_fp), Hi(or_mask_reg), Hi(and_mask_reg), 0)>>
         \o Packed("fdiv", E4(isn), tmp_reg_fp))
h_FSQRT_R(state, isn) == Emit(state, Packed("fsqrt", E4(isn), E4(isn)))

\* add, tst, beq
h_CBRANCH(state, isn) ==
    Emit(emitAddImmediate(state, IntRegMap(isn.dst), IntRegMap(isn.dst), BranchImm(isn)),
         <<I("branch", 0, IntRegMap(isn.dst), Imm(ConditionMask * 2^Shift(isn)), 8)>>)

\* The reversed control register has the mode at bit 40, scaled 10.
h_CFROUND(state, isn, v2) ==
    Emit(state,
         A("ror", tmp_reg, IntRegMap(isn.src), Imm(isn.imm % 16))
         \o (IF v2 THEN <<I("nop", 0, 0, 0, 4), I("bnez", 16, tmp_reg, Imm(60), 4)>> ELSE <<>>)
         \o A("bfi", fpcr_tmp_reg, tmp_reg, Imm(10))
         \o A("rbit", tmp_reg, fpcr_tmp_reg, 0) \o A("msr", 0, tmp_reg, 0))

h_ISTORE(state, isn) ==
    LET inL3 == isn.modCond >= StoreL3Condition
        imm == IF inL3 THEN isn.imm % 2^L3Bits ELSE LevelImm(isn)
    IN  Emit(emitAddImmediate(state, tmp_reg, IntRegMap(isn.dst), imm),
             A("and", tmp_reg, tmp_reg, IF inL3 THEN Imm(ScratchpadL3Mask) ELSE LevelMask(isn))
             \o A("sd", IntRegMap(isn.src), scratchpad, tmp_reg))
h_NOP(state) == state

\* engine
generateCode(state, isn, v2) ==
    CASE isn.op = "IADD_RS" -> h_IADD_RS(state, isn) [] isn.op = "IADD_M" -> h_IADD_M(state, isn)
      [] isn.op = "ISUB_R" -> h_ISUB_R(state, isn)   [] isn.op = "ISUB_M" -> h_ISUB_M(state, isn)
      [] isn.op = "IMUL_R" -> h_IMUL_R(state, isn)   [] isn.op = "IMUL_M" -> h_IMUL_M(state, isn)
      [] isn.op = "IMULH_R" -> h_IMULH_R(state, isn) [] isn.op = "IMULH_M" -> h_IMULH_M(state, isn)
      [] isn.op = "ISMULH_R" -> h_ISMULH_R(state, isn) [] isn.op = "ISMULH_M" -> h_ISMULH_M(state, isn)
      [] isn.op = "IMUL_RCP" -> h_IMUL_RCP(state, isn) [] isn.op = "INEG_R" -> h_INEG_R(state, isn)
      [] isn.op = "IXOR_R" -> h_IXOR_R(state, isn)   [] isn.op = "IXOR_M" -> h_IXOR_M(state, isn)
      [] isn.op = "IROR_R" -> h_IROR_R(state, isn)   [] isn.op = "IROL_R" -> h_IROL_R(state, isn)
      [] isn.op = "ISWAP_R" -> h_ISWAP_R(state, isn) [] isn.op = "FSWAP_R" -> h_FSWAP_R(state, isn)
      [] isn.op = "FADD_R" -> h_FADD_R(state, isn)   [] isn.op = "FADD_M" -> h_FADD_M(state, isn)
      [] isn.op = "FSUB_R" -> h_FSUB_R(state, isn)   [] isn.op = "FSUB_M" -> h_FSUB_M(state, isn)
      [] isn.op = "FSCAL_R" -> h_FSCAL_R(state, isn) [] isn.op = "FMUL_R" -> h_FMUL_R(state, isn)
      [] isn.op = "FDIV_M" -> h_FDIV_M(state, isn)   [] isn.op = "FSQRT_R" -> h_FSQRT_R(state, isn)
      [] isn.op = "CBRANCH" -> h_CBRANCH(state, isn) [] isn.op = "CFROUND" -> h_CFROUND(state, isn, v2)
      [] isn.op = "ISTORE" -> h_ISTORE(state, isn)   [] isn.op = "NOP" -> h_NOP(state)

-----------------------------------------------------------------------------
(* What the code before the program leaves in the registers.               *)

Lanes == {Lane(k) : k \in 0 .. 63}
Held(literals, k) == IF k \in DOMAIN literals THEN literals[k] ELSE 0
Environment(k, literals) ==
    CASE k = xzr -> 0
      [] k = scratchpad -> ScratchpadBase
      [] k \in {Lo(and_mask_reg), Hi(and_mask_reg)} -> ExponentClear - 3
      [] k = Lo(or_mask_reg) -> EMask[1]
      [] k = Hi(or_mask_reg) -> EMask[2]
      [] k \in {Lo(scale_mask_reg), Hi(scale_mask_reg)} -> FscalMask
      [] k \in Lanes -> Held(literals, k)
      [] \E i \in 1 .. 12 : literal_regs[i] = k ->
           Held(literals, LiteralPos((CHOOSE i \in 1 .. 12 : literal_regs[i] = k) - 1))
Reserved ==
    {xzr, scratchpad} \cup Lanes \cup {literal_regs[i] : i \in 1 .. 12}
    \cup UNION {{Lo(k), Hi(k)} : k \in {and_mask_reg, or_mask_reg, scale_mask_reg}}

\* What the code around the program keeps in registers: the dataset, the loop counter,
\* mx and ma, the addresses in the scratchpad, the stack.
LoopRegisters == {1, 3, 9, 16, 17, 192}

-----------------------------------------------------------------------------
(* SuperscalarHash: x0 is the cache, x2 the item number.  Reciprocals lie  *)
(* in the code, in front of the program that uses them.                    *)

MaxSuperscalarInstrSize == 16
\* A mistake in it: a register of the program.
ssh_tmp_regOfProgram == 15
ssh_tmp_reg == 12

\* Lanes of v0-v15 belong to the program from which the code may be called.
SshCompilerState(state) == [state EXCEPT !.num32bitLiterals = 64, !.codePos = 0]

EmitSsh(state, ops) == [Emit(state, ops) EXCEPT !.codePos = @ + Bytes(ops)]

\* The next line is found, then a jump over the literals of the program.
SshPrefetch(state, prog, reciprocalCache) ==
    LET jumped == EmitSsh(state, A("and", 11, 10, Imm(CacheMask)) \o <<I("sll", 11, 11, Imm(4), 0)>>
                                 \o A("add", 11, 8, 11) \o A("nop", 0, 0, 0) \o A("nop", 0, 0, 0))
        rcps == SelectSeq(prog.code, LAMBDA isn : isn.op = "IMUL_RCP")
        places == {jumped.codePos + 8 * (k - 1) : k \in 1 .. Len(rcps)}
    IN  [jumped EXCEPT
           !.literals = [a \in places \cup DOMAIN @ |->
                            IF a \in places
                            THEN reciprocalCache[rcps[(a - jumped.codePos) \div 8 + 1].imm + 1] ELSE @[a]],
           !.literalPos = jumped.codePos,
           !.codePos = @ + 8 * Len(rcps)]
SshInit(state) ==
    EmitSsh(state,
        A("mov", 8, 0, 0) \o A("mov", 10, 2, 0) \o A("mov", 12, Imm(superscalarMul0), 0)
        \o A("mul", 0, 2, 12) \o A("add", 0, 0, 12)
        \o FlattenSeq([q \in 1 .. 7 |-> A("mov", 12, Imm(superscalarAdd[q]), 0) \o A("xor", q, 0, 12)]))
SshMix(state, addressRegister) ==
    EmitSsh(state,
        FlattenSeq([k \in 1 .. 8 |->
            IF k % 2 = 1 THEN A("ld", 12, 11, Imm(2 * (k - 1))) \o <<I("ld", 13, 11, Imm(2 * k), 0)>>
                              \o A("xor", k - 1, k - 1, 12)
                         ELSE A("xor", k - 1, k - 1, 13)])
        \o A("mov", 10, addressRegister, 0))

SshOp(state, op, isn, b) == Emit(state, A(op, isn.dst, isn.dst, b))
SshCode(state, isn) ==
    CASE isn.op = "ISUB_R" -> SshOp(state, "sub", isn, isn.src)
      [] isn.op = "IXOR_R" -> SshOp(state, "xor", isn, isn.src)
      [] isn.op = "IADD_RS" -> SshOp(state, <<"add", "add2", "add4", "add8">>[isn.modShift + 1], isn, isn.src)
      [] isn.op = "IMUL_R" -> SshOp(state, "mul", isn, isn.src)
      [] isn.op = "IROR_C" -> SshOp(state, "ror", isn, Imm(isn.imm % 16))
      [] isn.op = "IADD_C" -> emitAddImmediate(state, isn.dst, isn.dst, isn.imm)
      [] isn.op = "IXOR_C" -> SshOp(emitMovImmediate(state, ssh_tmp_reg, isn.imm), "xor", isn, ssh_tmp_reg)
      [] isn.op = "IMULH_R" -> SshOp(state, "mulh", isn, isn.src)
      [] isn.op = "ISMULH_R" -> SshOp(state, "smulh", isn, isn.src)
      [] isn.op = "IMUL_RCP" ->
           SshOp(Emit([state EXCEPT !.literalPos = @ + 8], A("lit", ssh_tmp_reg, Imm(state.literalPos), Imm(0))),
                 "mul", isn, ssh_tmp_reg)
generateSuperscalarCode(state, isn) ==
    LET s == SshCode([state EXCEPT !.ops = <<>>], isn) IN [s EXCEPT !.codePos = @ + Bytes(s.ops)]
SshClobbered == 0 .. 13 \cup {tmp_reg}

=============================================================================
