----------------------------- MODULE LoopRv64Vector -----------------------------
(***************************************************************************)
(* The main loop of the code for RISC-V with the vector extension:         *)
(* jit_compiler_rv64_vector_static.S is copied once and                    *)
(* generateProgramVectorRV64 patches it in place.  Parameters lie before   *)
(* the literals, at their real byte offsets.  Prefetches and the           *)
(* configuration of the vector unit are left out.                          *)
(***************************************************************************)
EXTENDS CodeRv64Vector

ra == 1
sp == 2
DatasetPointer == 11
LoopCount == 13
mp == 14       \* mx in the low half, ma in the high half
spAddr == 15
DatasetMask == 19
Zero == 15     \* v15
EncIndex == 20 \* v20-v23
DecIndex == 24 \* v24-v27

FrameSize == 28
CalleeSaved == <<9, 18, 19, 20, 21, 22, 23, 24, 25, 26, 27, 10, 8, ra>>
RegisterFileAt == 22
LightFrame == 48
\* The place of x0 is not used.
LightSaved == <<ra, 0, 7, 10, 11, 12, 13, 14, 15, 16, 17, 28, 29, 30, 31>>
SavedCache == 8
LightOutput == 32

\* randomx_masks, the pointers to the tables of AES in software, the data of the light mode
Param(k) == PoolBase - 72 + 8 * k
LightModeData(k) == PoolBase + 4096 + 8 * k
\* Where those tables are, and the vectors of indices.
Table(k) == <<71, 73, 75, 177>>[k - 4]

Template ==
    [literals |-> (Param(0) :> ScratchpadL1Mask) @@ (Param(1) :> ScratchpadL2Mask)
                    @@ (Param(2) :> ScratchpadL3Mask) @@ (Param(3) :> CacheLineAlignMask)
                    @@ (Param(4) :> ConditionMask),
     v2_soft_aes_init |-> TRUE,
     mx_xor |-> <<>>,
     spaddr_xor |-> <<>>,
     light |-> FALSE,
     fe_mix |-> "hard"]

\* slli x5, x5, 32 is a nop in version 1
MxXor(config) ==
    <<O("xor", x5, r(config.readReg[3]), r(config.readReg[4])), O("and", x5, x5, DatasetMask)>>
    \o (IF config.v2 THEN <<O("sll", x5, x5, Imm(ImmBits))>> ELSE <<>>)
    \o <<O("xor", mp, mp, x5)>>

\* The tables are needed in version 2 without AES instructions, and their pointers
\* only set then.  The literals of IMUL_RCP are rcp.
generateProgramVectorRV64(patched, config, light, hardAes, rcp) ==
    LET soft == config.v2 /\ ~hardAes
    IN  [patched EXCEPT
           !.literals = (IF soft THEN [k \in {Param(p) : p \in 5 .. 8} |-> Table((k - Param(0)) \div 8)] ELSE <<>>)
                        @@ (IF light THEN LightModeData(1) :> config.datasetOffset ELSE <<>>) @@ rcp @@ @,
           !.v2_soft_aes_init = soft,
           !.mx_xor = MxXor(config),
           !.spaddr_xor = <<O("xor", spAddr, r(config.readReg[1]), r(config.readReg[2]))>>,
           !.light = light,
           !.fe_mix = IF ~config.v2 THEN "v1" ELSE IF hardAes THEN "hard" ELSE "soft"]

-----------------------------------------------------------------------------

Lit(d, address) == O("lit", d, Imm(address), Imm(0))
Saves(op) == [k \in DOMAIN CalleeSaved |-> O(op, CalleeSaved[k], sp, Imm(2 * (k - 1)))]
\* vle64.v, vse64.v at the address in a register
Vector(op, x, base, offset) ==
    <<O(op, Lo(x), base, Imm(offset)), O(op, Hi(x), base, Imm(offset + 2))>>
LoadIndex(first, p) ==
    <<Lit(x5, Param(p))>> \o Each(4, LAMBDA k : <<O("add", Lo(first + k), x5, Imm(8 * k))>>)

\* x10 the register file, x11 the memory registers, x12 the scratchpad, x13 the iterations.
Arguments(registerFile, memoryRegisters, iterations) ==
    (10 :> registerFile) @@ (11 :> memoryRegisters) @@ (12 :> ScratchpadBase) @@ (13 :> iterations) @@ (0 :> 0)
Prologue(patched) ==
    <<<<O("sub", sp, sp, Imm(FrameSize))>> \o Saves("sd")
      \o <<O("ld", mp, DatasetPointer, Imm(0)), O("ld", DatasetPointer, DatasetPointer, Imm(MemMemory)),
           O("mov", spAddr, mp, 0)>>
      \o Each(8, LAMBDA k : <<O("mov", r(k), Imm(0), 0)>>)
      \o <<Lit(MaskL1, Param(0)), Lit(MaskL2, Param(1)), Lit(MaskL3, Param(2)), Lit(DatasetMask, Param(3)),
           Lit(BranchMask, Param(4)), O("add", 9, MaskL3, Imm(-14)),
           O("sll", x5, DatasetMask, Imm(ImmBits)), O("or", x5, x5, DatasetMask), O("and", mp, mp, x5)>>,
      Each(4, LAMBDA k : Vector("ld", a(k), 10, FileA + 4 * k))
      \o <<O("mov", Lo(EAndMask), Imm(ExponentClear), 0), O("mov", Hi(EAndMask), Imm(ExponentClear), 0)>>
      \o Vector("ld", EOrMask, 10, FileF)
      \o <<O("mov", Lo(ScaleMask), Imm(FscalMask), 0), O("mov", Hi(ScaleMask), Imm(FscalMask), 0),
           O("mov", LiteralsPointer, Imm(PoolBase), 0)>>
      \o [k \in DOMAIN rcp_regs |-> O("lit", rcp_regs[k], LiteralsPointer, Imm(8 * (k - 1)))]
      \o Both("xor", Zero, Zero, Zero, 0),
      IF patched.v2_soft_aes_init THEN LoadIndex(EncIndex, 7) \o LoadIndex(DecIndex, 8) ELSE <<>>>>

ScratchpadLine(x) == <<O("and", x5, x, 9), O("add", x5, x5, Scratchpad)>>
\* v0-v7 are groups f and e.
LoopLoad ==
    <<ScratchpadLine(spAddr)
      \o Each(8, LAMBDA k : <<O("ld", x6, x5, Imm(2 * k)), O("xor", r(k), r(k), x6)>>),
      <<O("srl", x5, spAddr, Imm(ImmBits))>> \o ScratchpadLine(x5)
      \o Each(8, LAMBDA k : <<O("lw", Lo(k), x5, Imm(2 * k)), O("lw", Hi(k), x5, Imm(2 * k + 1))>>
                              \o Both("cvt", k, k, 0, 0)),
      Each(4, LAMBDA k : Both("and", e(k), e(k), EAndMask, 0) \o Both("or", e(k), e(k), EOrMask, 0))>>

\* x6 is ma as it was.
ReadDataset(patched) ==
    <<O("srl", x6, mp, Imm(ImmBits))>> \o patched.mx_xor \o <<O("add", x5, x6, DatasetPointer)>>
    \o Each(8, LAMBDA k : <<O("ld", x6, x5, Imm(2 * k)), O("xor", r(k), r(k), x6)>>)
\* entryDataInit of JitCompilerRV64 writes the item; it is given a pointer to the
\* saved x11, where it finds the cache.
ReadDatasetLight(patched) ==
    <<<<O("srl", x6, mp, Imm(ImmBits))>> \o patched.mx_xor \o <<O("sub", sp, sp, Imm(LightFrame))>>
      \o [k \in DOMAIN LightSaved |-> O("sd", LightSaved[k], sp, Imm(2 * (k - 1)))]
      \o <<O("add", 10, sp, Imm(SavedCache)), O("add", 11, sp, Imm(LightOutput)),
           Lit(12, LightModeData(1)), O("add", 12, 12, x6), O("srl", 12, 12, Imm(4)), O("add", 13, 12, Imm(1))>>,
      <<O("ld", x6, 10, Imm(0))>> \o ItemAt(11, 12, x6)
      \o Clobber(<<ra, 5, 6, 7, 10, 11, 12, 13, 14, 15, 16, 17, 28, 29, 30, 31>>),
      [k \in DOMAIN LightSaved |-> O("ld", LightSaved[k], sp, Imm(2 * (k - 1)))]
      \o Each(8, LAMBDA k : <<O("ld", x5, sp, Imm(LightOutput + 2 * k)), O("xor", r(k), r(k), x5)>>)
      \o <<O("add", sp, sp, Imm(LightFrame))>>>>
SwapMp ==
    IF HasZbb THEN <<O("ror", mp, mp, Imm(ImmBits))>>
    ELSE <<O("srl", x5, mp, Imm(ImmBits)), O("sll", mp, mp, Imm(ImmBits)), O("or", mp, mp, x5)>>
DatasetRead(patched) ==
    (IF patched.light THEN ReadDatasetLight(patched) ELSE <<ReadDataset(patched)>>) \o <<SwapMp>>

\* vaesdm adds the key before the columns are mixed: the key is zero.
HardRound(key) ==
    Each(4, LAMBDA k : IF k % 2 = 0 THEN <<O("aesenc", Lo(f(k)), Lo(f(k)), Lo(e(key)))>>
                       ELSE <<O("vaesdm", Lo(f(k)), Lo(f(k)), Lo(Zero))>> \o Both("xor", f(k), f(k), e(key), 0))
\* aesenc_soft, aesdec_soft: four rounds, right if the table and the indices are.
SoftColumn(k) ==
    LET first == IF k % 2 = 0 THEN EncIndex ELSE DecIndex
        p == IF k % 2 = 0 THEN 5 ELSE 6
    IN  <<Lit(x5, Param(p)), O("sub", Scratch, x5, Imm(Table(p)))>>
        \o Each(4, LAMBDA q : <<O("sub", Scratch2, Lo(first + q), Imm(Table(p + 2) + 8 * q)),
                                O("or", Scratch, Scratch, Scratch2)>>)
        \o Each(4, LAMBDA key : <<O(IF k % 2 = 0 THEN "aesenc" ELSE "aesdec", Lo(f(k)), Lo(f(k)), Lo(e(key)))>>)
        \o <<O("add", Lo(f(k)), Lo(f(k)), Scratch)>>
SoftMix ==
    <<<<O("mov", Lo(Temp16), x5, 0)>> \o SoftColumn(0) \o SoftColumn(2) \o SoftColumn(1) \o SoftColumn(3)
      \o Clobber(<<x6>>) \o <<O("mov", x5, Lo(Temp16), 0)>>>>

LoopEnd(patched) ==
    <<<<O("srl", x5, spAddr, Imm(ImmBits))>> \o ScratchpadLine(x5)
      \o Each(8, LAMBDA k : <<O("sd", r(k), x5, Imm(2 * k))>>)
      \o ScratchpadLine(spAddr) \o patched.spaddr_xor>>
    \o (CASE patched.fe_mix = "v1" -> <<Each(4, LAMBDA k : Both("xor", f(k), f(k), e(k), 0))>>
          [] patched.fe_mix = "hard" -> <<Each(4, HardRound)>>
          [] patched.fe_mix = "soft" -> SoftMix)
    \o <<Each(4, LAMBDA k : Vector("sd", f(k), x5, 4 * k))
         \o <<O("sub", LoopCount, LoopCount, Imm(1)), O("loop", 0, LoopCount, 0)>>>>

Epilogue ==
    <<<<O("ld", 10, sp, Imm(RegisterFileAt))>> \o Each(8, LAMBDA k : <<O("sd", r(k), 10, Imm(2 * k))>>)
      \o Each(8, LAMBDA k : Vector("sd", k, 10, FileF + 4 * k)),
      Saves("ld") \o <<O("add", sp, sp, Imm(FrameSize))>>>>

=============================================================================
