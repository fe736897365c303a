-------------------------------- MODULE LoopA64 --------------------------------
(***************************************************************************)
(* The main loop of the code of JitCompilerA64.  jit_compiler_a64_static.S *)
(* is copied once, when the compiler is made; generateProgram and          *)
(* generateProgramLight then patch single places of it for each program,   *)
(* over what the program before has left there.                            *)
(***************************************************************************)
EXTENDS CodeA64, Functions

sp == 192
FrameSize == 48
LightFrame == 24
SoftFrame == 44
\* Two vectors that hold literals of a program, while AES is computed in software.
v0 == Scratch
v1 == 196

-----------------------------------------------------------------------------
(* The places that are patched, and what the template has there.            *)

AndMask(d, a, mask) == <<O("and32", d, a, Imm(mask))>>
\* mx, the low half of x9, is modified, then exchanged with ma; version 2 the other
\* way round.
end_v1 == <<O("srl", 10, 9, Imm(ImmBits)), O("xor", 9, 9, 20), O("ror", 9, 9, Imm(ImmBits))>>
end_v2 == <<O("srl", 10, 9, Imm(ImmBits)), O("ror", 9, 9, Imm(ImmBits)), O("xor", 9, 9, 20)>>
end_light_v1 == <<O("xor", 9, 9, 20), O("ror", 9, 9, Imm(ImmBits))>>
end_light_v2 == <<O("ror", 9, 9, Imm(ImmBits)), O("xor", 9, 9, 20)>>

Template ==
    [spAddr |-> AndMask(16, 10, 1) \o AndMask(17, 20, 1),
     spMix2 |-> <<>>,
     end |-> end_v1,
     cacheline_align_mask2 |-> AndMask(10, 10, 1),
     light_cacheline_align_mask |-> AndMask(2, 2, 1),
     light_tweak |-> end_light_v1,
     light_dataset_offset |-> <<O("add", 2, 2, Imm(0)), O("add", 2, 2, Imm(0))>>,
     update_spMix1 |-> <<O("xor", 10, 0, 0)>>,
     FE_mix |-> "v1",
     literals |-> <<>>]

\* eor w20, config.readReg2, config.readReg3
SpMix2(readReg) ==
    <<O("xor", 20, IntRegMap(readReg[3]), IntRegMap(readReg[4])), O("zext", 20, 20, 0)>>
SpMix1(readReg) == <<O("xor", 10, IntRegMap(readReg[1]), IntRegMap(readReg[2]))>>

\* Where the jump to the mixing of f and e goes.
\* A mistake in it: the jump is not restored for a program of version 1.
FE_mixKept(patched, config, hardAes) ==
    IF config.v2 THEN IF hardAes THEN "hard" ELSE "soft" ELSE patched.FE_mix
FE_mix(patched, config, hardAes) ==
    IF config.v2 THEN IF hardAes THEN "hard" ELSE "soft" ELSE "v1"

\* Both generators patch the addresses in the scratchpad, spMix1, spMix2 and the jump,
\* and leave the literals of the program.
Patched(patched, config, hardAes, literals) ==
    [patched EXCEPT
       !.spAddr = AndMask(16, 10, ScratchpadL3Mask64) \o AndMask(17, 20, ScratchpadL3Mask64),
       !.spMix2 = SpMix2(config.readReg),
       !.update_spMix1 = SpMix1(config.readReg),
       !.FE_mix = FE_mix(patched, config, hardAes),
       !.literals = literals]
generateProgram(patched, config, hardAes, literals) ==
    [Patched(patched, config, hardAes, literals) EXCEPT
       !.cacheline_align_mask2 = AndMask(10, 10, CacheLineAlignMask),
       !.end = IF config.v2 THEN end_v2 ELSE end_v1]
generateProgramLight(patched, config, hardAes, literals) ==
    LET lines == config.datasetOffset \div LineCells
        imm_lo == lines % 2^AddLowBits
    IN  [Patched(patched, config, hardAes, literals) EXCEPT
           !.light_cacheline_align_mask = AndMask(2, 2, CacheLineAlignMask),
           !.light_tweak = IF config.v2 THEN end_light_v2 ELSE end_light_v1,
           !.light_dataset_offset =
               <<O("add", 2, 2, Imm(imm_lo)), O("add", 2, 2, Imm(lines - imm_lo))>>]

-----------------------------------------------------------------------------

LoadAll(registers, base, offset) ==
    [k \in DOMAIN registers |-> O("ld", registers[k], base, Imm(offset + 2 * (k - 1)))]
StoreAll(registers, base, offset) ==
    [k \in DOMAIN registers |-> O("sd", registers[k], base, Imm(offset + 2 * (k - 1)))]
Quad(q) == <<Lo(q), Hi(q)>>
Quads(first, n) == FlattenSeq([k \in 1 .. n |-> Quad(first + k - 1)])
\* v0-v15 hold literals, four half words each; v8-v15 have their low halves saved.
CalleeVectors == Each(8, LAMBDA k : <<Lane(32 + 4 * k), Lane(33 + 4 * k)>>)
LanesOp(op, lanes, base, offset) ==
    [k \in DOMAIN lanes |-> O(op, lanes[k], base, Imm(offset + k - 1))]

\* x19-x30 and the low halves of v8-v15, and more than has to be saved.
Saved == <<<<<<16, 17>>, 0>>, <<<<19>>, 4>>, <<<<20, 21>>, 8>>, <<<<22, 23>>, 12>>, <<<<24, 25>>, 16>>,
           <<<<26, 27>>, 20>>, <<<<28, 29>>, 24>>, <<<<8, 30>>, 28>>>>
SavedVectors == 32
VectorsOp(op) == LanesOp(op, CalleeVectors, sp, SavedVectors)
CalleeSaved == 19 .. 30 \cup Range(CalleeVectors)

IntRegs == <<4, 5, 6, 7, 12, 13, 14, 15>>
\* The literals in registers, in the order of the template.
LiteralRegisters == <<0, 11, 21, 22, 23, 24, 25, 26, 27, 28, 29, 30>>
\* x0 the register file, x1 the memory registers, x2 the scratchpad, x3 the iterations.
Arguments(registerFile, memoryRegisters, iterations) ==
    (0 :> registerFile) @@ (1 :> memoryRegisters) @@ (2 :> ScratchpadBase) @@ (3 :> iterations) @@ (xzr :> 0)

Prologue ==
    <<<<O("sub", sp, sp, Imm(FrameSize))>>
      \o FlattenSeq([k \in DOMAIN Saved |-> StoreAll(Saved[k][1], sp, Saved[k][2])]) \o VectorsOp("sw"),
      [k \in 1 .. 8 |-> O("mov", IntRegs[k], xzr, 0)]
      \o <<O("mov", 16, 1, 0), O("ld", 9, 16, Imm(0)), O("ld", 1, 16, Imm(MemMemory)), O("mov", 10, 9, 0)>>
      \o LoadAll(Quads(regA(0), 4), 0, FileA)
      \o <<O("mov", Lo(and_mask_reg), Imm(ExponentClear - 3), 0), O("mov", Hi(and_mask_reg), Imm(ExponentClear - 3), 0)>>
      \o LoadAll(Quad(or_mask_reg), 0, FileF)
      \o <<O("mov", Lo(scale_mask_reg), Imm(FscalMask), 0), O("mov", Hi(scale_mask_reg), Imm(FscalMask), 0)>>,
      <<O("mov", fpcr_tmp_reg, Imm(0), 0), O("rbit", fpcr_tmp_reg, fpcr_tmp_reg, 0),
        O("sub", sp, sp, Imm(4)), O("sd", 0, sp, Imm(0))>>
      \o [k \in 1 .. 12 |-> O("lit", LiteralRegisters[k], Imm(PoolBase), Imm(8 * (k - 13)))],
      [k \in 1 .. 64 |-> O("lit", Lane(k - 1), Imm(Lane(k - 1)), Imm(0))]>>

\* ldp, eor, eor
XorLine(base) ==
    Each(4, LAMBDA k : LoadAll(<<20, 19>>, base, 4 * k)
                       \o <<O("xor", IntRegs[2 * k + 1], IntRegs[2 * k + 1], 20),
                            O("xor", IntRegs[2 * k + 2], IntRegs[2 * k + 2], 19)>>)
\* ldpsw, ins, ins; v16-v23 are f and e in a row
LoadFloat(k) ==
    <<O("lw", 20, 17, Imm(2 * k)), O("lw", 19, 17, Imm(2 * k + 1)),
      O("mov", Lo(16 + k), 20, 0), O("mov", Hi(16 + k), 19, 0)>> \o Both("cvt", 16 + k, 16 + k, 16 + k, 0)
LoopLoad(patched) ==
    <<<<O("srl", 20, 10, Imm(ImmBits))>> \o patched.spAddr
      \o <<O("add", 16, 16, scratchpad), O("add", 17, 17, scratchpad)>> \o XorLine(16),
      Each(8, LoadFloat),
      Each(4, LAMBDA k : Both("bif", regE(k), or_mask_reg, and_mask_reg, 0))>>

DatasetRead(patched) ==
    <<patched.spMix2 \o patched.end \o patched.cacheline_align_mask2
      \o <<O("add", 10, 10, 1)>> \o XorLine(10)>>
\* The call keeps all registers but those it uses without saving them.
DatasetReadLight(patched) ==
    <<patched.spMix2
      \o <<O("sub", sp, sp, Imm(LightFrame))>> \o StoreAll(<<0, 1>>, sp, 16) \o StoreAll(<<2, 30>>, sp, 20)
      \o <<O("srl", 2, 9, Imm(ImmBits))>> \o patched.light_cacheline_align_mask \o patched.light_tweak
      \o <<O("mov", 0, 1, 0), O("mov", 1, sp, 0), O("srl", 2, 2, Imm(4))>> \o patched.light_dataset_offset,
      ItemAt(1, 2, 0) \o Clobber(<<tmp_reg, 30>>),
      <<O("mov", 10, sp, 0)>> \o LoadAll(<<0, 1>>, sp, 16) \o LoadAll(<<2, 30>>, sp, 20)
      \o <<O("add", sp, sp, Imm(LightFrame))>> \o XorLine(10)>>

\* f0 and f2 are encrypted, f1 and f3 decrypted, with a key of zero and the real one
\* added afterwards; "movi v28.4s, 0" is what the jump was replaced with.
HardRound(key) ==
    Each(4, LAMBDA k : <<O(IF k % 2 = 0 THEN "aese" ELSE "aesd", Lo(regF(k)), Lo(regF(k)), Lo(tmp_reg_fp)),
                         O(IF k % 2 = 0 THEN "aesmc" ELSE "aesimc", Lo(regF(k)), Lo(regF(k)), 0)>>
                       \o Both("xor", regF(k), regF(k), regE(key), 0))
HardMix ==
    <<<<O("mov", Lo(tmp_reg_fp), Imm(0), 0), O("mov", Hi(tmp_reg_fp), Imm(0), 0)>>, Each(4, HardRound)>>
MovPair(d, a) == <<O("mov", d, a, 0), O("mov", d + 1, a + 1, 0)>>
SoftColumn(k) ==
    MovPair(v0, Lo(regF(k)))
    \o Each(4, LAMBDA key : MovPair(v1, Lo(regE(key)))
                            \o <<O(IF k % 2 = 0 THEN "aesenc" ELSE "aesdec", v0, v0, v1)>>)
    \o MovPair(Lo(regF(k)), v0)
SoftSaved == <<0, 1, 2, 3, 4, 5, 6, 7, 8, 9, 10, 11, 12, 13, 14, 15, 16, 30>>
SoftLanes == [k \in 1 .. 8 |-> Lane(k - 1)]
SoftMix ==
    <<<<O("sub", sp, sp, Imm(SoftFrame))>> \o StoreAll(SoftSaved, sp, 0) \o LanesOp("sw", SoftLanes, sp, 36),
      Each(4, SoftColumn),
      Clobber(<<0, 1, 2, 3, 4, 5, 6, 7, 8, 9, 10, 11, 12, 13, 14, 15, 16, 19, 20, 30>>)
      \o [k \in 1 .. 8 |-> O("mov", SoftLanes[k], Imm(k), 0)],
      LoadAll(SoftSaved, sp, 0) \o LanesOp("lwu", SoftLanes, sp, 36) \o <<O("add", sp, sp, Imm(SoftFrame))>>>>
V1Mix == <<Each(4, LAMBDA k : Both("xor", regF(k), regF(k), regE(k), 0))>>

LoopEnd(patched) ==
    <<patched.update_spMix1 \o StoreAll(IntRegs, 17, 0)>>
    \o (CASE patched.FE_mix = "v1" -> V1Mix
          [] patched.FE_mix = "hard" -> HardMix
          [] patched.FE_mix = "soft" -> SoftMix)
    \o <<StoreAll(Quads(regF(0), 4), 16, 0) \o <<O("sub", 3, 3, Imm(1)), O("loop", 0, 3, 0)>>>>

Epilogue ==
    <<<<O("ld", 0, sp, Imm(0)), O("add", sp, sp, Imm(4))>>
      \o StoreAll(IntRegs, 0, 0) \o StoreAll(Quads(regF(0), 8), 0, FileF),
      FlattenSeq([k \in DOMAIN Saved |-> LoadAll(Saved[k][1], sp, Saved[k][2])]) \o VectorsOp("lwu")
      \o <<O("add", sp, sp, Imm(FrameSize))>>>>

=============================================================================
