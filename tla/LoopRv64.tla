-------------------------------- MODULE LoopRv64 --------------------------------
(***************************************************************************)
(* The main loop of the code of JitCompilerRV64.  The prologue and the     *)
(* beginning of the loop of jit_compiler_rv64_static.S are copied once;     *)
(* what follows the program is written anew for each program, in pieces,   *)
(* some with places that are patched.  Literals are at real byte offsets   *)
(* from the pool register.                                                 *)
(***************************************************************************)
EXTENDS CodeRv64

ra == 1
sp == 2
FrameSize == 56
f(k) == F(k)

\* Stack: the return address, the register file, then what the prologue saves.
RegisterFileAt == 2
Saved ==
    <<<<3, 4>>, <<8, 8>>, <<9, 10>>>> \o Each(10, LAMBDA k : <<<<18 + k, 12 + 2 * k>>>>)
    \o <<<<F(8), 32>>, <<F(9), 34>>>> \o Each(10, LAMBDA k : <<<<F(18 + k), 36 + 2 * k>>>>)
CalleeSaved == {ra, 4} \cup {Saved[k][1] : k \in DOMAIN Saved}

\* The literal pool: masks, E register masks, literals of IMUL_RCP.
L1MaskAt == 80
L2MaskAt == 84
L3MaskAt == 88
DatasetMaskAt == 92
FscalMaskAt == 96
EclearAt == 104
sizeLiterals == 112
codeLiterals ==
    (PoolBase + L1MaskAt :> ScratchpadL1Mask) @@ (PoolBase + L2MaskAt :> ScratchpadL2Mask)
      @@ (PoolBase + L3MaskAt :> ScratchpadL3Mask64) @@ (PoolBase + DatasetMaskAt :> CacheLineAlignMask)
      @@ (PoolBase + FscalMaskAt :> FscalMask) @@ (PoolBase + EclearAt :> ExponentClear)

-----------------------------------------------------------------------------

Lit(d, offset) == O("lit", d, LiteralPoolReg, Imm(offset))
Saves(op) == [k \in DOMAIN Saved |-> O(op, Saved[k][1], sp, Imm(Saved[k][2]))]
\* rori x, x, 32, or three instructions and a register.
Swap(x, tmp) ==
    IF HasZbb THEN <<O("ror", x, x, Imm(ImmBits))>>
    ELSE <<O("srl", tmp, x, Imm(ImmBits)), O("sll", x, x, Imm(ImmBits)), O("or", x, x, tmp)>>

EnvironmentMasks ==
    <<Lit(MaskL1Reg, L1MaskAt), Lit(MaskL2Reg, L2MaskAt), Lit(MaskFscalReg, FscalMaskAt),
      Lit(MaskEclear, EclearAt), Lit(MaskEsetLo, sizeLiterals), Lit(MaskEsetHi, sizeLiterals + 8)>>
\* The addresses get the mask of a line; the program that of a word.
AlignL3 == <<O("and", 26, 26, MaskL3Reg), O("and", 27, 27, MaskL3Reg), O("add", 26, 26, SpadReg),
             O("add", 27, 27, SpadReg), O("add", MaskL3Reg, MaskL3Reg, Imm(14))>>

\* x10 the register file, x11 the memory registers, x12 the scratchpad, x13 the iterations.
Arguments(registerFile, memoryRegisters, iterations) ==
    (10 :> registerFile) @@ (11 :> memoryRegisters) @@ (12 :> ScratchpadBase) @@ (13 :> iterations) @@ (0 :> 0)
Prologue ==
    <<<<O("sub", sp, sp, Imm(FrameSize)), O("mov", SpadReg, 12, 0), O("sd", 10, sp, Imm(RegisterFileAt))>>
      \o Saves("sd") \o <<O("mov", 24, 13, 0), O("sd", ra, sp, Imm(0)), O("mov", LiteralPoolReg, Imm(PoolBase), 0)>>,
      <<O("ld", 25, 11, Imm(0)), O("ld", DataReg, 11, Imm(MemMemory)), Lit(ra, DatasetMaskAt)>>
      \o Each(8, LAMBDA k : <<O("mov", regR(k), Imm(0), 0), O("ld", f(16 + k), 10, Imm(FileA + 2 * k))>>)
      \o <<O("srl", 7, 25, Imm(ImmBits)), O("mov", 27, 7, 0), O("and", 7, 7, ra), O("add", 7, 7, DataReg)>>,
      <<Lit(MaskL3Reg, L3MaskAt), O("mov", 26, 25, 0)>> \o AlignL3 \o EnvironmentMasks
      \o [k \in 1 .. 6 |-> Lit(regRcpF(3 + k), RcpLiteralsOffset + 8 * (3 + k))]>>

\* f0-f15 are groups f and e.
LoopLoad ==
    <<Each(8, LAMBDA k : <<O("ld", Tmp1Reg, 26, Imm(2 * k)), O("xor", regR(k), regR(k), Tmp1Reg)>>),
      Each(16, LAMBDA k : <<O("lw", Tmp1Reg, 27, Imm(k)), O("cvt", f(k), Tmp1Reg, 0)>>),
      Each(8, LAMBDA k : <<O("mov", Tmp1Reg, f(8 + k), 0), O("and", Tmp1Reg, Tmp1Reg, MaskEclear),
                           O("or", Tmp1Reg, Tmp1Reg, IF k % 2 = 0 THEN MaskEsetLo ELSE MaskEsetHi),
                           O("mov", f(8 + k), Tmp1Reg, 0)>>)
      \o [k \in 1 .. 4 |-> Lit(regRcp(k - 1), RcpLiteralsOffset + 8 * (k - 1))]>>

ReadRegisters(readReg) == <<O("xor", Tmp1Reg, regR(readReg[3]), regR(readReg[4]))>>
ZeroExtend ==
    IF HasZba THEN <<O("zext", Tmp1Reg, Tmp1Reg, 0)>>
    ELSE <<O("sll", Tmp1Reg, Tmp1Reg, Imm(ImmBits)), O("srl", Tmp1Reg, Tmp1Reg, Imm(ImmBits))>>
\* codeDataRead, codeDataRead2: the first instruction of the second is c.nop in
\* version 1; x25 has mx in its low half.  x7 is the address of the next item.
DataRead(config) ==
    ReadRegisters(config.readReg) \o <<Lit(ra, DatasetMaskAt)>> \o ZeroExtend
    \o (IF config.v2 THEN <<O("sll", Tmp1Reg, Tmp1Reg, Imm(ImmBits))>> ELSE <<>>)
    \o <<O("xor", 25, 25, Tmp1Reg)>>
    \o Each(8, LAMBDA k : <<O("ld", Tmp1Reg, 7, Imm(2 * k)), O("xor", regR(k), regR(k), Tmp1Reg)>>)
    \o <<O("and", 7, 25, ra), O("add", 7, 7, DataReg)>> \o Swap(25, Tmp2Reg)

\* lui x9, addi x9: the upper part makes up for the sign of the lower one.
DatasetOffset(lines) ==
    LET limm == SignedBits(lines, LowBits)
        uimm == lines \div 2^LowBits + IF limm < 0 THEN 1 ELSE 0
    IN  <<O("mov", Tmp2Reg, Imm(SignExtend(uimm * 2^LowBits)), 0), O("add", Tmp2Reg, Tmp2Reg, Imm(limm))>>
NextItem == <<O("and", 7, 25, ra), O("srl", 7, 7, Imm(4)), O("add", 7, 7, Tmp2Reg)>>
\* codeDataReadLight, then codeDataReadLight1 or codeDataReadLight2
DataReadLight(config) ==
    ReadRegisters(config.readReg) \o DatasetOffset(config.datasetOffset \div LineCells)
    \o <<Lit(ra, DatasetMaskAt)>> \o Swap(25, 31)
    \o IF config.v2 THEN NextItem \o <<O("and", Tmp1Reg, Tmp1Reg, ra), O("xor", 25, 25, Tmp1Reg)>>
       ELSE <<O("sll", Tmp1Reg, Tmp1Reg, Imm(ImmBits)), O("xor", 25, 25, Tmp1Reg)>> \o NextItem
\* codeFixLoopCall
LoopCall ==
    ItemIn([k \in 0 .. 7 |-> regSS(k)], SuperscalarReg, DataReg) \o Clobber(<<ra, SuperscalarReg, SshTmp1Reg, SshTmp2Reg, SshPoolReg, SshRcpReg>>)
    \o Each(8, LAMBDA k : <<O("xor", regR(k), regR(k), regSS(k))>>) \o EnvironmentMasks

StoreR == Each(8, LAMBDA k : <<O("sd", regR(k), 27, Imm(2 * k))>>)
\* codeSpadStore
SpadStore ==
    <<StoreR, Each(8, LAMBDA k : <<O("mov", Tmp1Reg, f(k), 0), O("mov", Tmp2Reg, f(8 + k), 0),
                                   O("xor", Tmp1Reg, Tmp1Reg, Tmp2Reg), O("sd", Tmp1Reg, 26, Imm(2 * k)),
                                   O("mov", f(k), Tmp1Reg, 0)>>)>>
\* softaes_enc, softaes_dec: on x30 and x31 with the key in x8 and x10
SoftAes(op) ==
    <<O("mov", Scratch, 8, 0), O("mov", Scratch2, 10, 0), O(op, 30, 30, Scratch)>>
    \o Clobber(<<ra, 8, 9, 10, 11, 12, 13, 14, 15>>)
SoftColumn(k) ==
    <<O("mov", 30, f(2 * k), 0), O("mov", 31, f(2 * k + 1), 0)>>
    \o Each(4, LAMBDA key : <<O("mov", 8, f(8 + 2 * key), 0), O("mov", 10, f(9 + 2 * key), 0)>>
                            \o SoftAes(IF k % 2 = 0 THEN "aesenc" ELSE "aesdec"))
    \o <<O("sd", 30, 26, Imm(4 * k)), O("mov", f(2 * k), 30, 0),
         O("sd", 31, 26, Imm(4 * k + 2)), O("mov", f(2 * k + 1), 31, 0)>>
\* codeSpadStoreSoftAes
SpadStoreSoftAes == <<StoreR, SoftColumn(0), SoftColumn(1), SoftColumn(2), SoftColumn(3), EnvironmentMasks>>

\* codeLoopEnd
LoopEnd(config) ==
    <<O("xor", 26, regR(config.readReg[1]), regR(config.readReg[2])), Lit(MaskL3Reg, L3MaskAt),
      O("add", 24, 24, Imm(-1)), O("srl", 27, 26, Imm(ImmBits))>> \o AlignL3 \o <<O("loop", 0, 24, 0)>>

Epilogue ==
    <<<<O("ld", 10, sp, Imm(RegisterFileAt)), O("ld", ra, sp, Imm(0))>>
      \o Each(8, LAMBDA k : <<O("sd", regR(k), 10, Imm(2 * k))>>)
      \o Each(16, LAMBDA k : <<O("sd", f(k), 10, Imm(FileF + 2 * k))>>),
      Saves("ld") \o <<O("add", sp, sp, Imm(FrameSize))>>>>

-----------------------------------------------------------------------------

Template == [dataRead |-> <<>>, store |-> <<>>, loopEnd |-> <<>>, literals |-> codeLiterals]

\* emitProgramPrefix sets the masks in the pool, the instructions the literals of IMUL_RCP.
PoolWith(literals, eMask, rcp) ==
    (PoolBase + sizeLiterals :> eMask[1]) @@ (PoolBase + sizeLiterals + 8 :> eMask[2])
      @@ rcp @@ literals
\* emitProgramSuffix
WithSuffix(patched, config) ==
    [patched EXCEPT !.store = IF config.v2 THEN SpadStoreSoftAes ELSE SpadStore,
                    !.loopEnd = LoopEnd(config)]
generateProgram(patched, config, rcp) ==
    WithSuffix([patched EXCEPT !.literals = PoolWith(@, config.eMask, rcp),
                               !.dataRead = <<DataRead(config)>>], config)
generateProgramLight(patched, config, rcp) ==
    WithSuffix([patched EXCEPT !.literals = PoolWith(@, config.eMask, rcp),
                               !.dataRead = <<DataReadLight(config), LoopCall>>], config)
RcpAt(i) == PoolBase + LiteralOffset(i)

=============================================================================
