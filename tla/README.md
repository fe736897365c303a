# RandomX in TLA+

A verification project for the code under `src/src/` of this repository:
RandomX, a proof-of-work function that executes random programs on a virtual
machine. The modules model what the code does with its state; the `.cfg` files
check them with TLC on small instances, and the `*Proofs` modules prove the
most important invariants for every value of the constants with TLAPS.

All line numbers are of the sources in `src/src/`.

## 1. The system

### 1.1 Components, state, operations

| component | sources | state it keeps | operations |
|---|---|---|---|
| Public API, object lifecycle | `randomx.cpp`, `dataset.hpp`, `virtual_machine.hpp`, `vm_*.cpp` | `randomx_cache` (memory, cacheKey, programs, jit), `randomx_dataset`, `randomx_vm` (cachePtr/datasetPtr union, mem, cacheKey, flags) | alloc, init, release, create, set_cache, set_dataset, destroy, hash |
| Dataset initialisation | `randomx.cpp` 192-212, `dataset.cpp` 164-195, `jit_compiler_rv64_vector_static.S` 133-246, `tests/benchmark.cpp` 341-358 | dataset memory, a 4-item buffer per call | split over threads, kernel, tail |
| Hash pipeline | `randomx.cpp` 380-438, `virtual_machine.cpp` 119-139, `aes_hash.cpp` | tempHash, scratchpad, register file, rounding mode | calculate_hash; first / next / last |
| Program compiler and interpreter | `bytecode_machine.cpp/hpp`, `vm_interpreted.cpp` | registerUsage, bytecode, pc, registers | compile, execute, CBRANCH |
| Native compilers | `jit_compiler_x86.cpp`, `jit_compiler_a64.cpp`, `jit_compiler_rv64.cpp`, `jit_compiler_rv64_vector.cpp`, static `.S` files | code buffer, codePos, registerUsage, instructionOffsets, page protection | generate program / superscalar / dataset init, enable writing / execution |
| SuperscalarHash | `superscalar.cpp`, `superscalar_program.hpp` | decode buffers, port table, register infos | generate, execute |
| Argon2d fill | `argon2_core.c`, `argon2_ref.c`, `argon2_ssse3.c`, `argon2_avx2.c` | block memory, position (pass, slice, lane, index) | fill first blocks, fill segment, index_alpha |
| Blake2b and Blake2Generator | `blake2/blake2b.c`, `blake2_generator.cpp` | h, counter t, flags f, buf, buflen; data, dataIndex | init, update, final, long; getByte, getUInt32 |
| AES generators and hash | `aes_hash.cpp`, `soft_aes.cpp`, `aes_hash_rv64_*.cpp` | 4 states of 16 bytes | fillAes1Rx4, fillAes4Rx4, hashAes1Rx4, hashAndFill |
| Memory | `virtual_memory.c`, `allocator.cpp` | page mappings and their protection | alloc, large pages, free, RW / RX / RWX |
| Reciprocal | `reciprocal.c` | none (pure) | randomx_reciprocal |
| Benchmark / mining driver | `tests/benchmark.cpp` | atomic nonce, atomic hash accumulator, one VM per thread | mine, main |
| CPU detection, flags | `cpu.cpp`, `randomx.cpp` 49-67 | none | get_flags |

### 1.2 How they interact

`main` (or a node) allocates a cache, initialises it with a key (Argon2d fill,
then eight SuperscalarHash programs drawn from a Blake2Generator, then, with a
compiler, machine code for them), optionally computes a dataset from it with
several threads, and creates one virtual machine per thread. A hash seeds the
scratchpad from Blake2b, runs eight programs, each generated from the result of
the one before, and hashes the scratchpad and the registers. Everything inside
one machine is sequential. Shared between threads are: the dataset while it is
initialised (disjoint items), cache and dataset afterwards (read only), and the
nonce counter and hash accumulator of the benchmark (atomics). The state that
outlives a call, and that goes stale, is: pointers between objects, keys
remembered to skip work, compiled code, tempHash and scratchpad between `first`
and `next`, the rounding mode, the protection of code pages.

### 1.3 What is hard, and what would make it correct

* **API.** Two early returns (`randomx_init_cache` 135, `randomx_vm_set_cache`
  363) compare a remembered key and an address; compiled light machines mix a
  private copy of the SuperscalarHash with live cache memory; caches are re-keyed
  in place, freed and re-allocated at the same address. Correct when an
  attached machine always computes the function of the key and version it was
  attached with.
* **Allocation and code pages.** Every object is built in several steps, each of
  which may fail, on the heap or in pages of its own; without the large pages or
  the compiler's memory what was built must go. With `RANDOMX_FLAG_SECURE`
  pages are never writable and executable at once; writing and running must each
  be preceded by a switch, whose failure nobody looks at, and which on Apple's
  processors switches the thread and not the page: a thread that runs code must not have asked for
  other pages since.
* **Dataset.** Groups of four, sequences that are no multiple of four, threads
  side by side without locks. Correct when no item is stored by two threads at
  once, none is left out, none outside the share is touched.
* **Hash pipeline.** The pipelined calls keep a half-computed hash in the machine,
  and `next` overwrites the scratchpad with the next input while it hashes the
  old one, block by block. Correct when every output is the hash of the input submitted one call
  before, whatever was done with the machine in between that the header allows, and the
  plain call gives its caller back the rounding mode it came with.
* **Programs.** A branch may jump only backwards to an instruction after which
  its register is not modified; otherwise it could loop for ever. Four native
  compilers and the interpreter compute the targets separately and must agree.
* **Generated code.** Four compilers and two printing generators choose the form
  of every instruction by the width of its immediate, by registers that need longer
  encodings and by whether a literal still has room in a pool or a register. Around the
  program stand templates in assembly, copied once and patched for every program, which differ
  with the version, the memory mode and the kind of AES. Correct when every form does what the interpreter does, changes nothing that the code
  after it relies on, and is no longer than the buffers are computed for.
* **Argon2d.** A block may refer only to blocks that were computed before.
* **Blake2b.** Chunked updates must equal one update at every boundary; a long
  output is a chain of half digests; the generator refills in the middle of a word.
* **SuperscalarHash generator.** Instructions that span decode groups, that are thrown
  away and retried, and a cycle counter that is set back. Correct when each group
  can be decoded in one cycle, operands are available when the instruction
  executes, and the arrays suffice.

PROJECT.json lists every hazard with its line and the properties that cover it.

## 2. Modules

Every component has one module with its state and one action per operation
or step; where the component promises something that can be said without its
machinery, an abstract module says it and the detailed module is checked to
implement it. `MC*` modules hold instances for TLC where a `.cfg` cannot say them, `*Proofs` modules hold the
TLAPS proofs. Operators that a comment introduces as a mistake or a mutant are
altered forms of the operator below them; no specification uses them, they show
that a property would notice the alteration.

| module | models | abstract specification |
|---|---|---|
| `RandomXApi` (`RandomXApiProofs`) | `randomx.cpp`: caches, datasets, machines, the pointers between them, memory re-use, compiled code, the shortcuts of `randomx_init_cache` and `randomx_vm_set_cache` | `RandomXService`: caches have keys, items have keys, machines have sources, a hash is the function of the source's key |
| `Allocation` (`AllocationProofs`) | what objects are made of, from the allocations that may fail to their release, and the protection of code pages (`virtual_memory.c`, `allocator.cpp`, the failing paths of `randomx.cpp`) | |
| `DatasetInit` (`DatasetProofs`) | the split of the items over threads and `randomx_init_dataset` with scalar and 4-wide kernels | `DatasetFill`: items become ready, the main thread goes on when all are |
| `Argon2Fill` (`CacheProofs`) | the block loops of `argon2_core.c`, `index_alpha`, the reference and the vector `fill_segment` | `BlockMatrix`: every block is computed from its neighbour and a finished block |
| `Blake2Stream` (`CacheProofs`) | `blake2b_init`, `_update`, `_final` | (the block sequence of RFC 7693, operator `Blake2b`) |
| `CacheSeed` (`CacheProofs`) | what a key becomes by way of digests: `rxa2_initial_hash`, `rxa2_fill_first_blocks` with `blake2b_long`, `Blake2Generator` | (Argon2's H', operator in the module) |
| `HashPipeline` (`HashPipelineProofs`) | `randomx_calculate_hash`, `_first`, `_next`, `_last` on machines and threads | `HashSequence`: an output is the hash of the input begun one call before |
| `Mining` (`HashPipelineProofs`) | the mining threads of `tests/benchmark.cpp` | its machines are driven as `HashSequence` allows |
| `Instructions` | the instruction set as far as control flow sees it, immediates and conditions of CBRANCH | |
| `Bytecode` (`MCBytecode`, `BytecodeProofs`) | `compileInstruction` and `executeBytecode` | `BranchedProgram`: instructions in order, a branch resumes after the last modifier of its register |
| `NativeCode` (`MCNativeCode`, `NativeCodeProofs`) | the branches generated by the x86, ARM64, RISC-V and RISC-V vector compilers | `BranchedProgram` |
| `MachineWords`, `MachineCode` | the words of generated code at reduced width, the reciprocal; the processors' instructions as what they do | |
| `CompiledCode` (`GeneratedCodeProofs`) with `CodeX86`, `CodeAssembly`, `CodeA64`, `CodeRv64`, `CodeRv64Vector` | one handler per instruction and compiler: the code it emits, the literals it places; generation and execution of that code | `InstructionMeaning`: what `BytecodeMachine` compiles and executes each instruction to |
| `SuperscalarCode` with the same modules | `initCache`'s reciprocals, `generateSuperscalarHash` of every compiler and the C and assembly printers, the templates around it | `DatasetItem`: `initDatasetItem` and `executeSuperscalar` |
| `LoopCode` with `LoopX86`, `LoopA64`, `LoopRv64`, `LoopRv64Vector` | what `generateProgram` and `generateProgramLight` write around a program, and the templates of the main loop: prologue, loads, dataset read, mixing of f and e, stores, epilogue | `ProgramLoop`: the loop of `InterpretedVm::execute` |
| `MCGeneratedCode` | the instances of the three above | |
| `MCCache` | the instances of `Blake2Stream`, `CacheSeed`, `Argon2Fill` and `Superscalar`, the parts of a cache's initialisation | |
| `Superscalar` (`DatasetProofs`) | `generateSuperscalar` in `superscalar.cpp`: decode groups, instruction and operand choice, ports, retries, limits | (the rules of `doc/specs.md` 6.2 and 6.3, as invariants) |

How they compose: `DatasetInit` refines one step of `RandomXApi`
(`InitDataset`), whose items are computed from the pair of keys a cache holds;
`HashPipeline` refines `CalculateHash`, with the key and version a machine is
attached to as a parameter (`Configs`); `Mining` uses the machines through
`HashSequence`, which `HashPipeline` implements; `Bytecode` and `NativeCode`
implement the same `BranchedProgram`, `CompiledCode` implements what `Bytecode` leaves
open (what an instruction computes), so the interpreter and the four compilers
agree with one another in where branches lead and in what instructions do;
`LoopCode` gives the program the registers and literals that `CompiledCode` requires on
entry, and takes its program for any code that leaves the rest alone, which
`RegistersKept` shows of `CompiledCode` (for any program: `EnvironmentAlwaysKept`);
`SuperscalarCode` computes the items of `DatasetInit` from the programs
`Superscalar` generates; `CacheSeed` stands between the digests of `Blake2Stream`,
the first blocks of `Argon2Fill` and the choices of `Superscalar`; `Argon2Fill` is the fill behind
`content` in `RandomXApi`, and its `NothingStale` is why a cache may be initialised again in
place; `Allocation` shows when the objects `RandomXApi` starts from exist at all.

### 2.1 State and actions against the code

* **RandomXApi.** Data is its provenance. A memory block (`content`) holds the
  fill of a key, `programs` and `jit` of a cache belong to a key, and what a
  hash reads is a set of pairs <<key of the memory, key of the
  SuperscalarHash>>; two different keys in a pair, or memory that was freed, is a
  value no key has. A compiled machine keeps the version twice, for itself and in its
  compiler. Caches keep their fields when they are freed, as memory
  does; of a destroyed machine, to which nothing points, only the version is kept. Every API call is one action:
  the header gives no thread safety for calls on one object. `FreeMem` lets
  the allocator return the block of a released cache for the next one.
  `ReleaseWhileBound` tells whether the client may release a cache while a machine
  still points to it. A client that does and then attaches the machine to another cache of the same key
  in the same block keeps the old pointer: `randomx.h` (216-218) says that the call does
  nothing for a cache of the same key. The instance and the theorems on pointers are about a
  client that does not (`ReleaseWhileBound = FALSE`); `tests.cpp` (1062-1084) does it with a
  compiled machine, which reads only its own copies.
* **Allocation.** An object's `held` says which of its parts exist and which
  allocator they came from; each action of a call is one allocation, one failure,
  or the release that follows one. `prot` is the protection of every code page, `mode`
  the right of every thread on Apple's processors, which `allocMemoryPages` sets to writing
  (`SwitchToWriting`), also in a constructor that fails then (`NoPages`); a page written or run against its
  protection is a `fault`. Three ghosts say what a fault may be put down to: `refused`, the objects for
  whose pages the system refused a protection; `creators`, the threads that have asked for a compiler's
  pages since they last enabled execution; `strayed`, the caches whose code `randomx_init_dataset` ran
  on such a thread.
* **DatasetInit.** The value of item i is i. One action per thread and
  phase: entering `randomx_init_dataset`, one kernel iteration (one or four items
  stored), return, copy from the four-item buffer, the tail call.
* **Argon2Fill.** A block is its version: how many passes of this fill have
  computed it, 0 for what was there before. One action per block and one per
  segment boundary; `inputs` records which blocks, in which version, entered the
  last one. The random value that selects the reference is any value of its
  range, its width being the constant `Randoms`.
* **Blake2Stream.** The bytes of the message are numbered, `h` is the list of
  blocks compressed, each with the counter and the last-block flag it was
  compressed with. The call of `blake2b_update` is split at its loop.
* **CacheSeed.** A digest is its length and its message, a byte of a digest the digest
  and its position. One action per digest of `blake2b_long` and per draw from the
  generator; the caller draws bytes and words in any order. A cache is
  initialised again and again, over what the key before left in memory.
* **HashPipeline.** Blake2b, AES and the run of one program are free functions:
  a value is the term that says what it was computed from. The rounding mode
  is a term too, because CFROUND leaves it as the program determines. One action
  for each thing a call does before its first program, in the order of the code (saving the rounding mode, filling
  the scratchpad, resetting the mode), one per program, and one per block of 64 bytes that
  `hashAndFillAes1Rx4` hashes and overwrites, with its two passes. `entered` is a ghost: the mode in which the caller
  made the call, noted at the call and read by the property only.
* **Mining.** The hash of a nonce is the nonce, a word of the accumulator the set of
  nonces it was combined with an odd number of times. One action per atomic
  operation, xorWith word by word. The counter is unbounded: it reaches
  the limit plus the number of threads, 2^32 only for a run of that many
  hashes.
* **Bytecode, NativeCode.** Instructions are INT (any integer instruction that modifies
  its destination; what it computes is any value), IMUL_RCP, ISWAP_R, CBRANCH,
  NOP and OTHER (floating point, stores, CFROUND). Compilation is one action per
  instruction, execution one per instruction executed. In `NativeCode` an
  instruction's code has any length of `Lengths`, positions count two bytes, and
  the RISC-V branch forms are chosen by reach as in the code.
* **CompiledCode.** An instruction of a processor is <<operation, destination, two
  operands, length in bytes>>; a handler of a compiler is an operator that appends
  such instructions to the compiler's state and places literals in its pool.
  `Compile` is one turn of the loop of `generateProgram`, `Enter` what the
  code before the program leaves in the registers, `Run` the code of one
  instruction. `ProgramSize` is the number of instructions the version has; a shorter program
  stands for one that ends in instructions without effect. `Mapped` reads the interpreter's `NativeRegisterFile` off the
  machine's registers.
* **SuperscalarCode.** `initCache` replaces divisors by indices of reciprocals, then
  every turn of the compiler's loops appends code and literals over those
  of the list of programs before, and the items are computed piece by piece.
* **LoopCode.** `Generate` writes a program's surroundings over what the programs before
  left in the buffer; then one action per piece of the loop: `Enter` (prologue), `Load`,
  `Execute`, `ReadItem`, `StoreAndRepeat`, `Return`. The program is a fixed function of the
  registers that also writes the scratchpad and leaves garbage in every register it does not
  have to keep. The machine that enters has other garbage in every register but the
  arguments. An address counts half words; a line of a
  scratchpad is sixteen of them.
* **Superscalar.** The Blake2Generator returns any value. One action per iteration
  of the loop over groups, and in a group one for the choice of the instruction, the
  first look for ports, each operand, a discarded instruction and the issue.
  `portBusy` is the set of ports in use per cycle; the program is its size. A stall
  loop is one step (`SourceStall`, `DestinationStall`).

## 3. What TLC checks

| run | instance | what it shows |
|---|---|---|
| `api` | 2 caches in 2 blocks, 2 keys, 1 dataset, 1 machine of any of the four classes | in every order of allocating, keying, re-keying, releasing, attaching and switching the version, a machine computes with the key of what it is attached to, skipped calls included; items and hashes have one key and one version; nothing disturbs a machine in between |
| `allocation` | 1 cache or dataset and 1 machine, of every kind, on 2 threads; both kinds of platform | after any failure nothing is left; code is written and run only with the right to, unless the system refused a protection, or `randomx_init_dataset` runs on a thread that Apple's processors have switched to writing (section 3.2); with SECURE never both |
| `dataset_init` | 1 to 17 items, 1 to 3 threads, both kernel widths | no races, every item holds its own value, and the main thread gets on |
| `cache` | the four parts of a cache's initialisation, one at a time. Fill: 2 lanes of 4 segments of 3 blocks, 3 passes. Streams: messages up to 14 bytes, blocks of 3, counter words of 5 values. Key: 5 keys, 8 block sizes, up to 20 bytes drawn. Generator: 3 registers, 7 instructions, latency 12, 13 instructions, 2 retries | nothing stale enters a block, all implementations chain alike, references stay in the window; any cutting of a message gives its digest; the first blocks are those of Argon2; the generator of bytes hands out every byte of every digest once; macro-operations fit their slots, operands are ready, program and port map suffice |
| `pipeline` | 1 machine, 2 threads, 2 inputs, 2 configurations, 3 programs per hash, a scratchpad of 3 blocks | every output is the hash of the input begun before, in the configuration of the moment, whoever calls, over the blocks the last program left; `randomx_calculate_hash` returns in the rounding mode it was called in |
| `mining` | 3 threads, 3 nonces, 2 words, both modes | the result combines every nonce once in every interleaving |
| `bytecode_programs` | all programs of 4 of 12 instructions, 2 registers of 4 bits | branches resume right and jump at most twice in a row, the bytecode does what the program says, every program ends |
| `native_code` | 4 compilers, all programs of 4 of 9 instructions, code lengths 1 and 3 | branches land where the interpreter resumes |
| `generated_code` | 7 forms of the compilers (RISC-V with and without bit manipulation extensions), every instruction with every immediate of 8 bits, programs of either version's full length; 9 forms of SuperscalarHash; 6 forms of the main loop, full and light memory, AES in hardware and in software, two programs of any versions written over one another | code does what the interpreter does, keeps what it relies on, fits its buffers, but for the instructions of the three runs below; compiled dataset items are those of `initDatasetItem`; the loop around a program is that of `InterpretedVm::execute` and gives the caller its registers back |
| `negated_immediate` | the same compilers, instructions on registers | a violation of `ImplementsMeaning`: ISUB_R (section 3.2) |
| `far_literal` | the same compilers, programs of 256 and of 384 reciprocals | a violation of `ImplementsMeaning`: the literals of the vector compiler (section 3.2) |
| `long_division` | the same compilers, floating point instructions | a violation of `CodeFits`: FDIV_M on RISC-V (section 3.2) |

### 3.1 Bounds, and why they are enough

* `cache` runs one part at a time, chosen at the start, while the variables of the others rest: no part
  shares state with another. The interleaving of parts would show nothing.
* Two keys, two caches and two blocks: a stale value needs a key to be stale
  with respect to, and a re-used block a second owner. Nothing in the API relates three.
  One machine is enough because calls on one machine write no field of another's;
  `RandomXApiProofs` removes the bound. The cache and dataset run side by side so that
  a machine may be moved from one to the other.
* One store and one machine in `allocation`, because no object's parts depend on
  another's; two threads, because on Apple's processors the one that generated code need not be
  the one that runs it. `AllocationProofs` removes the bounds.
* 17 items on 3 threads give shares of every length modulo four, shares shorter
  than a group, and none (more threads than items). `DatasetProofs` removes
  the bound.
* Segments of three blocks have a first, a last and one in between, three passes
  a first, one with both neighbours and a last; 16 random values reach every
  start of every window. `CacheProofs` removes the bounds.
* Messages of up to 14 bytes fill four blocks and more, with every remainder, and
  with words of five values the counter's low word wraps twice. Output lengths lie
  around the multiples of half a digest; keys are shorter than, as long as and longer than
  the generator's seed, and two differ in a zero at their end. `CacheProofs` removes the
  bounds on all of them.
* Three programs per hash: a first, a last and one that is neither; two inputs and
  two configurations can be taken for each other. Three blocks, of which
  the prefetching pass leaves one to the second pass, give each pass of `hashAndFillAes1Rx4` a block
  and the first a block after another. `HashPipelineProofs` removes the bounds.
* Programs of four instructions hold a modifier, a second one, a branch and something
  behind it, in every order; all instructions whose treatment differs occur.
  Conditions of 2 bits stand for 8 (`ConditionBits`) and registers of 4 bits for
  64: the argument on carries is about the bit below the condition, the
  condition, and what lies above. `BytecodeProofs` removes all of these bounds.
* Branch reaches of 3 and 5 units stand for 128 and 2048: code of four instructions
  is then shorter than the first, between the two, and longer than the second.
  `NativeCodeProofs` holds for every program, reach and length of code.
* Generated code computes with registers of 16 bits instead of 64 and immediates of
  8 instead of 32, so that TLC goes through every immediate; scratchpad levels of 4, 5 and
  6 bits stand for 14, 18 and 21, immediates of a processor of 3 and 7 bits for
  12 and 24. The order between these widths is that of the real ones, and with it the
  cases the compilers distinguish. The code's lengths are the real ones, except that a form
  whose length depends on the number of literals keeps its real pool sizes: programs
  of 256 and 384 reciprocals, what a program of either version holds at most, fill the 4 lanes and registers of
  literals and the pools behind them, and the lists of
  SuperscalarHash overflow the page of 255 literals of the vector compiler.
  Floating point operations are free functions of their operands and the rounding mode.
* The main loop runs three times: the first iteration begins with the addresses and registers
  of the program, the second with what the first left, the third with what two did. Two programs, of the
  same or of different versions, with different masks and addresses, one with a dataset
  offset, are generated over one buffer: nothing of a program but the last is left in it, so a
  third finds what the second found. The rounds of AES are free functions of state and
  key, with the substitution and the mixing of columns apart, because the processors
  group them differently; AES in hardware is not combined with the scalar RISC-V compiler, which has none.
* Three registers instead of eight make operands scarce: stalls, discarded
  instructions and abandoned groups happen within a few groups. A latency of 12
  lets the ports run ahead of the decoder and saturate; up to 13 instructions the
  size limit is reached before that on some paths and after it on others. Instructions left out
  differ from one that is in only by their group, or by the immediate. `DatasetProofs` removes
  the bounds on registers, latency, size, retries and what is drawn.

`CHECK_DEADLOCK FALSE` is set where the modelled activity ends: a finished fill,
finished programs, a generated program, threads that have ended, a process that
was stopped at a page.

### 3.2 Disagreements

No instance leaves an input out because the code fails on it. Three runs expect a violation; the passing run
`generated_code` has the same programs among its inputs and checks the properties with exactly the
exceptions these runs show (`ImplementsMeaningElsewhere`, `CodeBound`).

* `negated_immediate`: `ISUB_R` with an immediate of 0x80000000. Specification and interpreter subtract
  the sign-extended -2^31 (`doc/specs.md` 550, 563). The ARM64
  (`jit_compiler_a64.cpp` 642), RISC-V (`jit_compiler_rv64.cpp` 785-796) and vector
  (`jit_compiler_rv64_vector.cpp` 446-458) compilers negate the 32-bit
  immediate first, which leaves it as it is, and add -2^31: the result
  differs by 2^32. The exception is `NegationOverflows`.
* `far_literal`: the vector compiler has room for 384 literals of IMUL_RCP, as many as a program of version 2
  has instructions, but loads them with 12-bit offsets (`jit_compiler_rv64_vector.cpp` 542): from the
  257th on they are loaded from elsewhere. It takes a program of version 2 with more than 256 reciprocals;
  a random one cannot be expected to have so many. The exception is `LiteralOutOfReach`.
* `long_division`: `MaxRandomXInstrCodeSize` of `jit_compiler_rv64.cpp` (104) is 56 bytes, but FDIV_M
  takes 58 when the upper part of its L2 offset is 32 and needs the long form of `lui`: the comment
  on `genAddressReg` (356) says 12 bytes, it takes up to 14. Even a program made of nothing else stays inside its
  buffer, because the buffer's size is rounded up to pages and that leaves more to spare than
  two bytes for each of 384 instructions. That no other code of any compiler is too long, and this one by two bytes at most, is
  proved (`CodeBounded`).

`CodeAssembly`, the printing generator, and x86 show none of these.

Modelling the handlers showed these as well:

* On Apple's processors `allocMemoryPages` (`virtual_memory.c` 151) switches the calling thread to writing, and
  `randomx_init_dataset` (`randomx.cpp` 192-212) runs the cache's compiled code without switching it
  back: `randomx_init_cache` has enabled execution, but for the thread that called it, and at that time. A thread that
  has created a compiled machine or another compiled cache since, and computed no hash, is stopped there. `Allocation` has this
  fault; `FaultsOnlyIfRefused` allows it for a cache in `strayed` only, and it is proved that it is the only one
  a refused protection does not explain. No comment or document says on which thread the call may be made.
* The light-memory loop of the ARM64 template takes its frame down
  (`add sp, sp, 96`, `jit_compiler_a64_static.S` 531) before it reads the dataset item that
  `rx_calc_dataset_item` wrote there, by way of `x10`: a signal handler on the same stack may
  overwrite it, as the platform's calling convention has no red zone. The other templates read
  it first. `LoopA64` reads what was written.
* `AssemblyGeneratorX86` knows version 1's CFROUND only; `tests/code-generator.cpp` uses it
  for both versions.

### 3.3 Fairness

* `DatasetInit`: weak fairness of each thread's steps and of the join. Threads are
  preempted but not suspended forever, and `std::thread::join` returns when its
  thread has ended.
* `Mining`: weak fairness of each thread; no step of a thread ever waits for another.
* `Bytecode`: weak fairness of the one sequential process. What an INT computes is
  any value and nothing is assumed of it, so `EventuallyDone` says that no data
  can keep a program from ending.
* The other modules state safety properties and assume no fairness.

## 4. What is proved

All theorems hold for every value of the constants that satisfies the named
assumptions of the module. Every safety property that a run checks and that holds is proved but five of
`generated_code` (section 4.3).

| theorem | says |
|---|---|
| `RandomXApiProofs!TypeCorrect`, `SkippedInitIsRedundant`, `DatasetItemsHaveOneKey` | types; an early return of `randomx_init_cache` loses nothing; items have one key. For every client |
| `RandomXApiProofs!AttachedVmReadsItsKey`, `AttachedVmPointsToItsCache`, `AttachedVmIsUndisturbed` | an attached light machine points to its cache and computes with its key, and nothing done to other objects changes that, for a client that releases no cache a machine points to (`~ReleaseWhileBound`) |
| `RandomXApiProofs!ApiImplementsService` | for the same client, the library with its pointers, re-used blocks and skipped calls implements `RandomXService` |
| `AllocationProofs!TypeCorrect`, `FailuresLeaveNothing`, `RefusalsOnlyFault`, `PagesNeverBoth` | the properties of `allocation`, for any number of objects and threads, in every order of failures: memory returns to the allocator it came from, and code is written and run only with the right to, unless the object's protection was refused or `randomx_init_dataset` ran on a thread that had asked for a compiler's pages |
| `DatasetProofs!TypeCorrect`, `ThreadsStoreTheirShare`, `ThreadsNeverRace`, `ItemsHoldTheirValue`, `SplitImplementsFill` | the initialisation by any number of threads implements `DatasetFill`'s safety part, without races and without a store outside a thread's share |
| `DatasetProofs!SlotsFit`, `OperandsAreReady`, `SizesAreEnough` | whatever the generator of `superscalar.cpp` draws, macro-operations fit their slots, operands are ready when they are read, and the arrays suffice, for any latency, program size, number of registers and of retries |
| `CacheProofs!KeysDoNotMix`, `ImplementationsChainAlike`, `ReferencesStayInWindow`, `FillIsComplete` | the invariants of the fill in `cache`, and that a finished fill has computed every block, for any number of lanes and passes and any segment length |
| `CacheProofs!FillImplementsMatrix` | the fill by lanes, slices and passes implements `BlockMatrix`: every block is computed once per pass, from the neighbour of that pass and from another block that has been computed |
| `CacheProofs!StreamingIsHashing` | `DigestIsHash`, for any size of a block and of the counter's words and any sequence of updates |
| `CacheProofs!FillStartsFromTheKey`, `BytesAreDrawnOnce` | the first blocks are those of Argon2's variable-length hash for this key, and the generator gives no byte twice; for any key, number of lanes, length of a block and size of the seed |
| `HashPipelineProofs!PipelineImplementsSequence`, `HashKeepsEnvironment` | the calls of `randomx.h` give the hashes that `HashSequence` promises, and `randomx_calculate_hash` returns in the rounding mode in which it was called, for any number of machines, threads, programs per hash and blocks of a scratchpad |
| `HashPipelineProofs!TypeCorrect`, `NoNonceTwice`, `ResultIsComplete` | the result is complete and no nonce taken is lost, for any number of threads and nonces |
| `HashPipelineProofs!MiningDrivesMachines` | the threads use their machines as `HashSequence` allows, and combine the hash of the nonce they mean |
| `BytecodeProofs!BranchesResumeRight`, `PcStaysInside` | the interpreter's branch targets for any program |
| `BytecodeProofs!BytecodeImplementsProgram`, `JumpsAreLimited` | the bytecode does what `BranchedProgram` says, and a branch is taken at most twice in a row, for any program, any number of registers, any width of a register and of a condition |
| `NativeCodeProofs!BranchesLandRight`, `NativeCodeImplementsProgram` | the four compilers' branch targets, and that their code does what `BranchedProgram` says, for any program, code lengths and reaches |
| `GeneratedCodeProofs!CodeBounded` | no compiler emits more for an instruction than its buffer reckons with, for any program, immediate, width and state of the literals; the one exception is FDIV_M on RISC-V without vectors, by two bytes, where its address takes more than 12 |
| `GeneratedCodeProofs!EnvironmentAlwaysKept` | no instruction's code changes a register that holds what the code around the program put there, or branches out of itself, for any program, immediate, values of the registers and state of the literals |

### 4.1 What makes the invariants inductive

* **API.** `PointersLive` (a machine's pointer, copied address and compiled code
  belong to one live cache), `BoundIsCurrent` (the machine recorded the key its
  cache has now) and `DistinctBlocks` (no two live caches share a block). The
  comparison in `randomx_vm_set_cache` identifies a cache only because of
  the last, which a client that releases a bound cache defeats. That the library
  implements the service needs three facts more (`ServiceInv`): a full machine points to the
  dataset it is attached to, in both of its pointers (`FullIsCurrent`), the two places that keep the version agree
  (`VersionsAgree`), and no item of a released dataset counts as computed.
* **Allocation.** `ThreadsSwitched`: on Apple's processors a thread may run code unless it is in `creators` or is
  generating code at the moment; it does not depend on the objects and is proved first. `CallSound` says of a call under way which parts it has allocated so far and that
  it may write the page it writes; `ObjectSound` of an object between calls that every
  part was got from the allocator that will release it, that the parts that exist are those its flags
  ask for, and what its pages are protected as.
* **Dataset.** `CallRight` relates a kernel call's cursor and end to the share and
  says the kernel never stops inside a group; `Behind` says what lies behind the
  cursor is computed. Shares are disjoint by arithmetic on the split.
* **Superscalar.** `Placed` says in which slot of which group a macro-operation
  comes to lie: the first of several takes the last slot of its group, and the groups that
  continue it have room. `RoomLeft`: from the target latency on all ports are free and all
  registers ready until an operation saturates the ports, after which only a move, which needs
  none, may follow, so that every search for a port ends in the map. The hard part is the second
  macro-operation of a high multiplication: the code stalls it only until *some*
  operand is ready, while its destination is chosen in one group and read
  in the next. It is ready because the group that holds the first one has also placed an addition of a
  constant, which takes port P5 whenever it is free (`IsPrompt`); so in a cycle in which P5 is free
  and a register ready, one is ready that no high multiplication wrote (`Spare`), the destination
  is chosen among the registers that are ready first, and is on time (`DestinationOnTime`).
* **Argon2.** `PositionRight`, `CursorsRight` (the rotated `prev_offset` is the
  left neighbour, and the registers of the vector implementations hold what memory
  holds there) and `VersionsRight` (every block's version follows from the
  position). The window of `index_alpha` is arithmetic on `Area` and `Start`. For
  `BlockMatrix`, a block's version is how often it was computed (`Computed`), and a
  step of the fill is one block of the matrix or stutters.
* **Blake2b.** `StreamInv`: `h` has the whole blocks of the message so far, the
  buffer the bytes after them, an update under way the rest; the buffer is empty only if
  the message is. `Counted` is the carry between the words of the counter.
* **Key.** `StretchInv`: while `blake2b_long` runs, k halves of the chain of digests are out and
  more than a half is missing (`Chained`), which fixes the number of rounds
  (`NumberOfHalves`); the blocks before the one at hand are stored for this key.
  `DrawnInv`: the generator's data is the n-th digest of the seed, the bytes drawn are
  those of the digests so far, the last one's up to `dataIndex`, and every digest given up
  has a byte of its last word drawn. A digest does not come twice because the seed is none.
* **Hash pipeline.** `BegunKept`: between calls a machine holds where the hash it has begun
  starts from, whatever threads and other machines do. `ChainRight`: during a call the
  next program is the next element of the chain that defines the hash, with the rounding mode
  of whatever thread runs it. `BlocksRight`: while `hashAndFillAes1Rx4` runs, the blocks hashed are those the last
  program left, the scratchpad holds the next input's up to there and the last program's behind.
  `EnvironmentRight`: the thread is in the mode `entered` until that is saved, and what was saved is that mode. A hash that is a term determines its input and configuration.
* **Mining.** `InStep` (what thread holds which nonce, where), `NothingTwice`, and
  `NothingLost` by way of `Owes`: a nonce taken is in the result or is owed by exactly
  one thread. `Overshoot`: the counter passes the limit at most once per thread, which
  bounds the inputs the machines see.
* **Bytecode.** `UsageRight` (registerUsage is the last modifier among the instructions
  compiled), `BranchesCompiled`, `PcInside`; `CodeRight` (every instruction's bytecode
  is what its compilation left, untouched by later ones) and lemmas about `Effective`, the next
  instruction that has an effect, because an ISWAP of a register with itself compiles to
  nothing. For the jumps, `JumpsInv`: between a jump and the branch it comes back to
  no instruction modifies the branch's register (`OnTheWay`). The condition is zero after an addition
  of the immediate to a register where it was zero only if the bits below it carry, from their upper
  half into the lower one (`Low`); they do at the second jump and cannot at a third.
* **Generated code.** The length of an instruction's code is a fold over what was emitted. That
  folds over sequences of any length exist (`SumsExist`), add up from the front (`BytesAreSums`) and
  over concatenations (`Joins`) is proved once, from the least element of a set of numbers.
  Then every handler of every compiler, by the cases of its code: what it emits has a length,
  which is a bound the lemma names (`A64Handlers`, `Rv64Handlers`, `RvvHandlers`, `X86Handlers` and
  so on), for any immediate, registers, version and state of the literals. `CodeInv` says the
  code so far has been emitted by these handlers for these instructions.
  What the code leaves alone starts from the machine: `RunCode` is one `Step` after the other
  (`RunCodeSteps`), a step writes what its instruction names (`ApplyWrites`), and a branch
  within an instruction's code is over where the code it skips is (`SparesKeeps` and the lemmas
  on `Keeps` after it). Each handler's code `Keeps` all registers but those the template
  around it leaves free, again by the cases of its code (`X86Apart` and its like: the two sets are
  apart). `KeptInv` adds to `CodeInv` that this holds of all code so far and, once the program is
  entered, of the registers. What the code computes does not matter to it, and so no
  arithmetic of bits is needed.
* **NativeCode.** `NotedRight` (what each
  compiler notes is that instruction's number, or the end of its code) and
  `TargetsExist`. `Layout` (code lies in the order of the instructions, each as long as it says,
  from every place up to the next code that is not empty), `IpAtStart` and `AtTheEffect`: wherever
  code starts, the processor is at the next instruction that has an effect.

### 4.2 Assumptions

Constants that stand for lengths, counts and sizes are natural numbers, positive where the code's
are, and values that mean "none" are no proper value. The assumptions that say more:

* `SegmentAssumption`: a segment has two blocks at least (`argon2_core.c` 406).
* `ItemsAssumption`: a dataset has an item. `RandomXService` recognises a dataset that is
  initialised by its items.
* `WordAssumption` of `Blake2Stream`: a word of the counter holds more than a block's length, and a
  message is shorter than the counter's two words count.
* `DigestAssumption`: a digest has an even number of bytes, 64 in the code, so that it has halves.
* `ConditionAssumption`: the bits of a branch condition lie within a register, as they do for
  every shift of a CBRANCH: 8 bits from at most bit 8 + 15 of 64.
* `BitAssumption`: shifting by j and then by k is shifting by j + k. It is a fact about powers
  of two that the provers do not know; TLC evaluates it.
* `ProgramsAssumption`: programs are sequences of instructions of the 30 types, with registers
  reduced modulo eight and an immediate of the width there is.
* `SizesAssumption`: the numbers of instructions of a program are natural numbers; nothing relates the two versions.
* `HashAssumption`: a hash is not the value that means there is none.
* `LatencyAssumption`, `SizeAssumption`: a target latency and a limit of one at least.

The chain of programs of a hash and the chain of digests are recursive functions. That they are
the functions their equations describe, and what is said of all their elements, is
proved from the least element of a set of numbers (lemma `Least`, by
`WellFoundedInduction`). `Superscalar` shares its proof module with `DatasetInit`, and `Blake2Stream` and
`CacheSeed` theirs with `Argon2Fill`; their specifications have names of their own
(`GeneratorSpec`, `StreamSpec`, `SeedSpec`).

### 4.3 What is only model-checked

* Liveness, which the prover does not treat: `EventuallyJoined`, `EventuallyDone` of `Mining` and
  of `Bytecode`, and the fairness of `DatasetFill`.
* What the code that is generated does: `ImplementsMeaningElsewhere`, `ImplementsItem`, `ImplementsLoop`.
  They rest on the arithmetic of bits, and a proof for every width would be a
  proof by induction over data. TLC goes through every instruction, immediate and compiler instead.
* Two of the three parts of `RegistersKept`: what SuperscalarHash and the loop keep for the others.
  The part that depends on a program, `EnvironmentKept`, is proved (`EnvironmentAlwaysKept`).
* `HashCodeFits`: SuperscalarHash and the loop have a few forms of code each, and TLC goes through
  all of them.

## 5. What is not modelled

* What data is: compression functions, AES rounds, the Argon2 block function, IEEE
  arithmetic. They are free functions or any value; the repository's test vectors
  compare their versions.
* Around the instructions of a compiled program: prefetches, which change no state
  a program can see (an address that is prefetched from may be any), the configuration of the
  vector unit, the bits of mxcsr, fpcr and frm beside the rounding mode, the versions of prologue
  and epilogue for Windows, and the table lookups of AES in software. How the
  entropy of a program becomes its registers a, masks and addresses (`VirtualMachine::initialize`) is
  an input of `ProgramLoop`. `HashPipeline` takes the run of a program for one step.
* The bits of an encoding: an instruction of a processor is what it does and how long
  it is. `NativeCode` assumes displacements that
  fit the widest form: 32 bits on x86, 19 bits of words on ARM64, the 20-bit jump on
  RISC-V. The buffer of the vector compiler's SuperscalarHash has a size per program and no
  bound per instruction; `HashCodeFits` covers the other three.
* Of the SuperscalarHash generator: how often each immediate is drawn, and the address
  register with the ASIC latencies.
* Argon2 version 0x10, which no caller selects, and `randomx_argon2_validate_inputs`, which
  is evaluated only in an assertion about constants; keys of 4 GiB and more, whose length the
  context truncates; keyed Blake2b, and `blake2b_init` with an invalid digest length.
* `randomx_reciprocal_fast`, selected with Visual C++ on x86 only.
* Intel Macs, where MAP_JIT pages need no switch, and builds with
  `RANDOMX_FORCE_SECURE`, which are the SECURE case of `Allocation`.
* Processor detection, printing, and the measuring tools.

PROJECT.json lists every part with its status.

## 6. Plan

1. `RandomXApi` first, because every other module is behind it; then
   `DatasetInit`, `HashPipeline`, `Mining`, the branches, `Argon2Fill`,
   `Blake2Stream`, `Superscalar`. Done.
2. The code that is generated, against the interpreter (`CompiledCode`,
   `SuperscalarCode`); failing allocations and code pages (`Allocation`); what becomes of
   a key (`CacheSeed`); the loop around a program (`ProgramLoop`, `LoopCode`). Done.
3. `hashAndFillAes1Rx4` block by block, in `HashPipeline`. Done. Next: that generation of a SuperscalarHash
   ends, with the cycle counter bounded.
4. Proofs of every safety property but those of generated code; of those, `CodeBound`
   and the part of `RegistersKept` that depends on the program. Done.
   Next: `HashCodeFits` and the other parts of `RegistersKept`, for any immediate.
