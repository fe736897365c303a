-------------------------------- MODULE LoopX86 --------------------------------
(***************************************************************************)
(* The main loop of the code of JitCompilerX86: jit_compiler_x86_static.S  *)
(* with the files of asm it includes, and what generateProgram and         *)
(* generateProgramLight put between them.                                  *)
(***************************************************************************)
EXTENDS CodeX86

rsp == 4
rbp == 5
RANDOMX_SCRATCHPAD_MASK == ScratchpadL3Mask64
RANDOMX_DATASET_BASE_MASK == CacheLineAlignMask

\* Stack: mxcsr, spAddr0, spAddr1, then the spilled registers, those of the caller
\* and the argument.
SpAddr0 == 2
SpAddr1 == 4
Spill(k) == 6 + 2 * k
SpillRbx == 22
SpillXmm(k) == 24 + 4 * k
CalleeSaved == <<rbx, rbp, regR(4), regR(5), regR(6), regR(7)>>
SavedAt == <<56, 58, 64, 66, 68, 70>>
FrameSize == 114
RegisterFileArgument == 112

\* program_xmm_constants.inc, in front of the loop and aligned to a line
LoopBegin == PoolBase + 16
mantissaMask == LoopBegin - 16
exp240 == LoopBegin - 12
scaleMask == LoopBegin - 8
TwoWords(address, x) == (address :> x[1]) @@ (address + 2 :> x[2])
Template ==
    TwoWords(mantissaMask, <<ExponentClear, ExponentClear>>) @@ TwoWords(exp240, <<0, 0>>)
      @@ TwoWords(scaleMask, <<FscalMask, FscalMask>>)
\* generateProgramPrologue copies eMask to 48 bytes before the loop.
generateProgramPrologue(literals, eMask) == TwoWords(LoopBegin - 12, eMask) @@ literals

-----------------------------------------------------------------------------

LoadPair(x, base, offset) ==
    <<O("ld", Lo(x), base, Imm(offset)), O("ld", Hi(x), base, Imm(offset + 2))>>
StorePair(x, base, offset) ==
    <<O("sd", Lo(x), base, Imm(offset)), O("sd", Hi(x), base, Imm(offset + 2))>>
LoadConstant(x, address) ==
    <<O("lit", Lo(x), Imm(address), Imm(0)), O("lit", Hi(x), Imm(address), Imm(2))>>

\* rax, rdx: the addresses in the scratchpad for the next iteration
randomx_prefetch_scratchpad ==
    <<O("mov", rdx, rax, 0), O("and32", rax, rax, Imm(RANDOMX_SCRATCHPAD_MASK)),
      O("ror", rdx, rdx, Imm(ImmBits)), O("and32", rdx, rdx, Imm(RANDOMX_SCRATCHPAD_MASK))>>

\* The arguments: rdi the register file, rsi the memory registers, rdx the
\* scratchpad, rcx the number of iterations.
Prologue ==
    <<<<O("sub", rsp, rsp, Imm(FrameSize))>>
      \o [k \in 1 .. 6 |-> O("sd", CalleeSaved[k], rsp, Imm(SavedAt[k]))]
      \o <<O("mov", rbx, rcx, 0), O("sd", rdi, rsp, Imm(RegisterFileArgument)), O("mov", rcx, rdi, 0),
           O("ld", rbp, rsi, Imm(0)), O("ld", rdi, rsi, Imm(MemMemory)), O("mov", rsi, rdx, 0),
           O("mov", rax, rbp, 0), O("ror", rbp, rbp, Imm(ImmBits))>>,
      Each(8, LAMBDA k : <<O("xor", regR(k), regR(k), regR(k))>>)
      \o Each(4, LAMBDA k : LoadPair(regA(k), rcx, FileA + 4 * k))
      \o LoadConstant(mantissaMaskReg, mantissaMask) \o LoadConstant(exponentMaskReg, exp240)
      \o LoadConstant(scaleMaskReg, scaleMask) \o randomx_prefetch_scratchpad>>

\* program_loop_load.inc; xmm0-xmm7 are f and e in a row.
LoopLoad ==
    <<<<O("add", rcx, rsi, rax), O("sd", rcx, rsp, Imm(SpAddr0))>>
      \o Each(8, LAMBDA k : <<O("ld", Temp, rcx, Imm(2 * k)), O("xor", regR(k), regR(k), Temp)>>)
      \o <<O("add", rcx, rsi, rdx), O("sd", rcx, rsp, Imm(SpAddr1))>>,
      Each(8, LAMBDA k : <<O("lw", Lo(k), rcx, Imm(2 * k)), O("lw", Hi(k), rcx, Imm(2 * k + 1))>>
                           \o Both("cvt", k, k, k, 0)),
      Each(4, LAMBDA k : Both("and", regE(k), regE(k), mantissaMaskReg, 0)
                           \o Both("or", regE(k), regE(k), exponentMaskReg, 0))>>

\* generateProgramPrologue after the program: eax = readReg2 ^ readReg3
MxMix(readReg) ==
    <<O("zext", rax, regR(readReg[3]), 0), O("xor", rax, rax, regR(readReg[4])), O("zext", rax, rax, 0)>>
\* rbp: ma in its low half, mx in the other; version 2 modifies it before the exchange.
Exchange(v2) ==
    IF v2 THEN <<O("xor", rbp, rbp, rax), O("ror", rbp, rbp, Imm(ImmBits))>>
          ELSE <<O("ror", rbp, rbp, Imm(ImmBits)), O("xor", rbp, rbp, rax)>>
\* program_read_dataset.inc, program_read_dataset_v2.inc
ReadDataset(v2) ==
    <<O("zext", rcx, rbp, 0), O("and32", rcx, rcx, Imm(RANDOMX_DATASET_BASE_MASK)),
      O("add", rcx, rcx, rdi)>>
    \o Exchange(v2)
    \o Each(8, LAMBDA k : <<O("ld", Temp, rcx, Imm(2 * k)), O("xor", regR(k), regR(k), Temp)>>)
\* program_read_dataset_sshash_init.inc with the call, program_read_dataset_sshash_fin.inc
ReadDatasetLight(v2, datasetOffset) ==
    Each(8, LAMBDA k : <<O("sd", regR(k), rsp, Imm(Spill(k)))>>)
    \o <<O("sd", rbx, rsp, Imm(SpillRbx)), O("zext", rbx, rbp, 0), O("srl", rbx, rbx, Imm(4)),
         O("and32", rbx, rbx, Imm(RANDOMX_DATASET_BASE_MASK \div LineCells))>>
    \o Exchange(v2)
    \o <<O("add32", rbx, rbx, Imm(datasetOffset \div LineCells))>>
    \o ItemIn([k \in 0 .. 7 |-> regR(k)], rbx, rdi) \o Clobber(<<rax, rbx, rdx>>)
    \o Each(8, LAMBDA k : <<O("ld", Temp, rsp, Imm(Spill(k))), O("xor", regR(k), regR(k), Temp)>>)
    \o <<O("ld", rbx, rsp, Imm(SpillRbx))>>
DatasetRead(config, light) ==
    <<MxMix(config.readReg),
      IF light THEN ReadDatasetLight(config.v2, config.datasetOffset) ELSE ReadDataset(config.v2)>>

StoreR ==
    <<O("ld", rcx, rsp, Imm(SpAddr1))>> \o Each(8, LAMBDA k : <<O("sd", regR(k), rcx, Imm(2 * k))>>)
    \o <<O("ld", rcx, rsp, Imm(SpAddr0))>>
StoreF == Each(4, LAMBDA k : StorePair(regF(k), rcx, 4 * k))
\* program_loop_store.inc
LoopStore == <<StoreR, Each(4, LAMBDA k : Both("xor", regF(k), regF(k), regE(k), 0)), StoreF>>
Rounds(key) ==
    Each(4, LAMBDA k : <<O(IF k % 2 = 0 THEN "aesenc" ELSE "aesdec", Lo(regF(k)), Lo(regF(k)), Lo(regE(key)))>>)
\* program_loop_store_hard_aes.inc
LoopStoreHardAes == <<StoreR, Each(4, Rounds), StoreF>>
\* program_soft_aes_enc.inc, program_soft_aes_dec.inc: on the pair at rdi, with the key at rsi
SoftAes(op) ==
    LoadPair(tempReg, rdi, 0) \o <<O("ld", Scratch, rsi, Imm(0)), O("ld", Scratch2, rsi, Imm(2)),
    O(op, Lo(tempReg), Lo(tempReg), Scratch)>> \o StorePair(tempReg, rdi, 0)
    \o Clobber(<<rax, rbx, rcx, rdx, rsi, rbp>>)
SoftRounds(key) ==
    Each(4, LAMBDA k : <<O("add", rsi, rsp, Imm(SpillXmm(4 + key))), O("add", rdi, rsp, Imm(SpillXmm(k)))>>
                         \o SoftAes(IF k % 2 = 0 THEN "aesenc" ELSE "aesdec"))
\* Registers the two functions use, and where they are spilled.
SoftSpilled == <<rax, rcx, rdx, rbp, rsi, rdi, rbx>>
SoftSpillAt == <<6, 10, 12, 14, 18, 20, 22>>
SoftRestore == [k \in 1 .. 7 |-> O("ld", SoftSpilled[k], rsp, Imm(SoftSpillAt[k]))]
\* program_loop_store_soft_aes.inc
LoopStoreSoftAes ==
    <<StoreR \o Each(8, LAMBDA k : StorePair(k, rsp, SpillXmm(k))),
      [k \in 1 .. 7 |-> O("sd", SoftSpilled[k], rsp, Imm(SoftSpillAt[k]))],
      SoftRounds(0), SoftRounds(1), SoftRounds(2), SoftRounds(3),
      SoftRestore \o Each(4, LAMBDA k : LoadPair(regF(k), rsp, SpillXmm(k))), StoreF>>

\* generateProgramEpilogue
LoopEnd(config, hardAes) ==
    <<<<O("mov", rax, regR(config.readReg[1]), 0), O("xor", rax, rax, regR(config.readReg[2]))>>
      \o randomx_prefetch_scratchpad>>
    \o (IF ~config.v2 THEN LoopStore ELSE IF hardAes THEN LoopStoreHardAes ELSE LoopStoreSoftAes)
    \o <<<<O("add32", rbx, rbx, Imm(Half - 1)), O("loop", 0, rbx, 0)>>>>

\* program_epilogue_store.inc, program_epilogue_linux.inc
Epilogue ==
    <<<<O("ld", rcx, rsp, Imm(RegisterFileArgument))>>
      \o Each(8, LAMBDA k : <<O("sd", regR(k), rcx, Imm(2 * k))>>)
      \o Each(8, LAMBDA k : StorePair(k, rcx, FileF + 4 * k)),
      [k \in 1 .. 6 |-> O("ld", CalleeSaved[k], rsp, Imm(SavedAt[k]))]
      \o <<O("add", rsp, rsp, Imm(FrameSize))>>>>

\* rdi, rsi, rdx and rcx
Arguments(registerFile, memoryRegisters, scratchpad, iterations) ==
    (rdi :> registerFile) @@ (rsi :> memoryRegisters) @@ (rdx :> scratchpad) @@ (rcx :> iterations)

=============================================================================
