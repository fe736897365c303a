------------------------------- MODULE LoopCode -------------------------------
(***************************************************************************)
(* The native code around a program: generateProgram or                    *)
(* generateProgramLight writes it, for one program after the other, and    *)
(* the last one is run.  Every compiler's loop must do what                *)
(* InterpretedVm::execute does, give the program the environment its code  *)
(* relies on, and give the caller its registers back.                      *)
(***************************************************************************)
EXTENDS MachineCode, Functions

CONSTANTS
    LoopBackends,
    Histories, \* the programs generated one after the other, as ProgramLoop configures them
    Iterations,
    LowBits, LuiBits,            \* CodeRv64, CodeRv64Vector
    MovBits, AddLowBits, AddBits \* CodeA64

X86 == INSTANCE LoopX86
A64 == INSTANCE LoopA64
Rv64 == INSTANCE LoopRv64 WITH HasZba <- FALSE, HasZbb <- FALSE
Rv64Z == INSTANCE LoopRv64 WITH HasZba <- TRUE, HasZbb <- TRUE
Rvv == INSTANCE LoopRv64Vector WITH HasZba <- FALSE, HasZbb <- FALSE, HasZvkb <- FALSE
RvvZ == INSTANCE LoopRv64Vector WITH HasZba <- TRUE, HasZbb <- TRUE, HasZvkb <- TRUE

Rv64Backends == {"rv64", "rv64z"}
VectorBackends == {"rvv", "rvvz"}

VARIABLES
    backend,
    light,    \* whether the machine has a cache only
    hardAes,
    history,  \* programs to generate
    generated,
    buffer,   \* what generations change in the code buffer
    phase,
    ic,
    m         \* the machine

vars == <<backend, light, hardAes, history, generated, buffer, phase, ic, m>>

Config == history[Len(history)]

-----------------------------------------------------------------------------
(* The backends.                                                           *)

\* The literals of a program, as many as there is room for in registers.
LiteralAddresses ==
    CASE backend = "x86" -> {}
      [] backend = "a64" -> A64!Lanes \cup {A64!LiteralPos(i) : i \in 0 .. 11}
      [] backend \in Rv64Backends -> {Rv64!RcpAt(i) : i \in 0 .. 9}
      [] backend \in VectorBackends -> {PoolBase + 8 * (k - 1) : k \in DOMAIN Rvv!rcp_regs}
Literals(config) ==
    [k \in LiteralAddresses |-> (601 * k + config.ma) % IF backend = "a64" /\ k \in A64!Lanes THEN Half ELSE Size]
Pool == IF backend = "x86" THEN buffer ELSE buffer.literals
Template ==
    CASE backend = "x86" -> X86!Template
      [] backend = "a64" -> A64!Template
      [] backend \in Rv64Backends -> Rv64!Template
      [] backend \in VectorBackends -> Rvv!Template
Generated(config) ==
    LET literals == Literals(config)
    IN CASE backend = "x86" -> X86!generateProgramPrologue(buffer, config.eMask)
         [] backend = "a64" ->
              (IF light THEN A64!generateProgramLight(buffer, config, hardAes, literals)
                        ELSE A64!generateProgram(buffer, config, hardAes, literals))
         [] backend = "rv64" ->
              (IF light THEN Rv64!generateProgramLight(buffer, config, literals)
                        ELSE Rv64!generateProgram(buffer, config, literals))
         [] backend = "rv64z" ->
              (IF light THEN Rv64Z!generateProgramLight(buffer, config, literals)
                        ELSE Rv64Z!generateProgram(buffer, config, literals))
         [] backend \in VectorBackends ->
              Rvv!generateProgramVectorRV64(buffer, config, light, hardAes, literals)
Prologue ==
    CASE backend = "x86" -> X86!Prologue
      [] backend = "a64" -> A64!Prologue
      [] backend \in Rv64Backends -> Rv64!Prologue
      [] backend \in VectorBackends -> Rvv!Prologue(buffer)
LoopLoad ==
    CASE backend = "x86" -> X86!LoopLoad
      [] backend = "a64" -> A64!LoopLoad(buffer)
      [] backend \in Rv64Backends -> Rv64!LoopLoad
      [] backend \in VectorBackends -> Rvv!LoopLoad
DatasetRead ==
    CASE backend = "x86" -> X86!DatasetRead(Config, light)
      [] backend = "a64" -> (IF light THEN A64!DatasetReadLight(buffer) ELSE A64!DatasetRead(buffer))
      [] backend \in Rv64Backends -> buffer.dataRead
      [] backend = "rvv" -> Rvv!DatasetRead(buffer)
      [] backend = "rvvz" -> RvvZ!DatasetRead(buffer)
LoopEnd ==
    CASE backend = "x86" -> X86!LoopEnd(Config, hardAes)
      [] backend = "a64" -> A64!LoopEnd(buffer)
      [] backend \in Rv64Backends -> Append(buffer.store, buffer.loopEnd)
      [] backend \in VectorBackends -> Rvv!LoopEnd(buffer)
Epilogue ==
    CASE backend = "x86" -> X86!Epilogue
      [] backend = "a64" -> A64!Epilogue
      [] backend \in Rv64Backends -> Rv64!Epilogue
      [] backend \in VectorBackends -> Rvv!Epilogue

IntReg(k) ==
    CASE backend = "x86" -> X86!regR(k)
      [] backend = "a64" -> A64!IntRegMap(k)
      [] backend \in Rv64Backends -> Rv64!regR(k)
      [] backend \in VectorBackends -> Rvv!r(k)
Pair(k) == <<Lo(k), Hi(k)>>
FloatReg(group, k) ==
    CASE backend = "x86" ->
           Pair(CASE group = "f" -> X86!regF(k) [] group = "e" -> X86!regE(k) [] group = "a" -> X86!regA(k))
      [] backend = "a64" ->
           Pair(CASE group = "f" -> A64!regF(k) [] group = "e" -> A64!regE(k) [] group = "a" -> A64!regA(k))
      [] backend \in Rv64Backends ->
           (CASE group = "f" -> <<Rv64!regLoF(k), Rv64!regHiF(k)>>
              [] group = "e" -> <<Rv64!regLoE(k), Rv64!regHiE(k)>>
              [] group = "a" -> <<Rv64!regLoA(k), Rv64!regHiA(k)>>)
      [] backend \in VectorBackends ->
           Pair(CASE group = "f" -> Rvv!f(k) [] group = "e" -> Rvv!e(k) [] group = "a" -> Rvv!a(k))
\* What the program's code leaves alone: the environment it uses itself, whose
\* values are given, and what the loop keeps in registers.
Reserved ==
    CASE backend = "x86" -> X86!Reserved
      [] backend = "a64" -> A64!Reserved
      [] backend \in Rv64Backends -> Rv64!Reserved
      [] backend \in VectorBackends -> Rvv!Reserved
Environment(k) ==
    CASE backend = "x86" -> X86!Environment(k)
      [] backend = "a64" -> A64!Environment(k, Pool)
      [] backend \in Rv64Backends -> Rv64!Environment(k, Pool)
      [] backend \in VectorBackends -> Rvv!Environment(k, Pool)
LoopRegisters ==
    CASE backend = "x86" -> X86!LoopRegisters
      [] backend = "a64" -> A64!LoopRegisters
      [] backend \in Rv64Backends -> Rv64!LoopRegisters
      [] backend \in VectorBackends -> Rvv!LoopRegisters

\* What a program leaves for the next iteration, beside its registers: ARM64 keeps
\* its rounding mode in a register.
Carried == IF backend = "a64" THEN {A64!fpcr_tmp_reg} ELSE {}

\* Calling conventions.
RegisterFile == 11000
MemoryRegisters == 12000
Stack == 10000
StackPointer ==
    CASE backend = "x86" -> X86!rsp
      [] backend = "a64" -> A64!sp
      [] OTHER -> Rv64!sp
Arguments ==
    CASE backend = "x86" -> X86!Arguments(RegisterFile, MemoryRegisters, ScratchpadBase, Iterations)
      [] backend = "a64" -> A64!Arguments(RegisterFile, MemoryRegisters, Iterations)
      [] OTHER -> Rv64!Arguments(RegisterFile, MemoryRegisters, Iterations)
CalleeSaved ==
    {StackPointer} \cup
    CASE backend = "x86" -> Range(X86!CalleeSaved)
      [] backend = "a64" -> A64!CalleeSaved
      [] OTHER -> Rv64!CalleeSaved
Before(k) ==
    IF k = StackPointer THEN Stack
    ELSE IF k \in DOMAIN Arguments THEN Arguments[k] ELSE (30011 + 521 * k) % IF k > 127 THEN Half ELSE Size

\* Where the loop has mx and ma, and the two addresses in the scratchpad.
Halves(x) == <<x % Half, x \div Half>>
MxMa ==
    CASE backend = "x86" -> <<m.x[X86!rbp] \div Half, m.x[X86!rbp] % Half>>
      [] backend = "a64" -> Halves(m.x[9])
      [] backend \in Rv64Backends -> Halves(m.x[25])
      [] backend \in VectorBackends -> Halves(m.x[Rvv!mp])
MemoryWord(address) == MemoryCell(m, address) + Half * MemoryCell(m, address + 1)
SpAddr ==
    CASE backend = "x86" -> [k \in 1 .. 2 |-> MemoryWord(m.x[X86!rsp] + 2 * k) - ScratchpadBase]
      [] backend = "a64" -> [k \in 1 .. 2 |-> m.x[15 + k] - ScratchpadBase]
      [] backend \in Rv64Backends -> [k \in 1 .. 2 |-> m.x[25 + k] - ScratchpadBase]
      [] backend \in VectorBackends ->
           [k \in 1 .. 2 |-> And(Halves(m.x[Rvv!spAddr])[k], ScratchpadL3Mask64)]

-----------------------------------------------------------------------------

Group(name) == [k \in 0 .. 3 |-> <<m.x[FloatReg(name, k)[1]], m.x[FloatReg(name, k)[2]]>>]
Ints == [k \in 0 .. 7 |-> m.x[IntReg(k)]]

\* Memory when the code is called: mx, ma and the memory of the dataset or cache,
\* and the register file: group a, and for some compilers eMask in place of f.
WordCells(address, words) ==
    FoldLeft(LAMBDA cells, k : (address + 2 * (k - 1) :> words[k] % Half)
                                 @@ (address + 2 * k - 1 :> words[k] \div Half) @@ cells,
             <<>>, [k \in DOMAIN words |-> k])
Memory ==
    WordCells(MemoryRegisters,
              <<Config.mx + Half * Config.ma,
                IF light THEN CacheBase ELSE DatasetBase + Config.datasetOffset>>)
    @@ (IF backend = "x86" THEN <<>> ELSE WordCells(RegisterFile + FileF, Config.eMask))
    @@ WordCells(RegisterFile + FileA, FlattenSeq([k \in 1 .. 4 |-> Config.a[k - 1]]))

Init ==
    /\ backend \in LoopBackends
    /\ light \in BOOLEAN
    /\ hardAes \in BOOLEAN
    /\ hardAes => backend \notin Rv64Backends
    /\ history \in Histories
    /\ generated = 0
    /\ buffer = Template
    /\ phase = "generate"
    /\ ic = 0
    /\ m = Machine(<<>>, <<>>)

\* generateProgram, generateProgramLight
Generate ==
    /\ phase = "generate"
    /\ buffer' = Generated(history[generated + 1])
    /\ generated' = generated + 1
    /\ phase' = IF generated' = Len(history) THEN "enter" ELSE "generate"
    /\ UNCHANGED <<backend, light, hardAes, history, ic, m>>

At(now, next, code) ==
    /\ phase = now
    /\ m' = RunPieces(m, code)
    /\ phase' = next
    /\ UNCHANGED <<backend, light, hardAes, history, generated, buffer>>

\* CompiledVm::execute calls the code.
Enter ==
    /\ phase = "enter"
    /\ phase' = "load"
    /\ m' = RunPieces([Machine([k \in Regs |-> Before(k)], Pool) EXCEPT !.written = Memory], Prologue)
    /\ UNCHANGED <<backend, light, hardAes, history, generated, buffer, ic>>
Load == At("load", "execute", LoopLoad) /\ UNCHANGED ic
\* The code of the program, which leaves in all other registers what it likes.
Holding ==
    LET r == ProgramR(Ints)
        f == ProgramF(Group("f"), Group("a"))
        e == ProgramE(Group("e"), Group("a"))
        of(name, values) ==
            [k \in UNION {Range(FloatReg(name, q)) : q \in 0 .. 3} |->
                LET q == CHOOSE q \in 0 .. 3 : k \in Range(FloatReg(name, q))
                IN  values[q][IF k = FloatReg(name, q)[1] THEN 1 ELSE 2]]
    IN  [k \in {IntReg(q) : q \in 0 .. 7} |-> r[CHOOSE q \in 0 .. 7 : IntReg(q) = k]]
          @@ of("f", f) @@ of("e", e) @@ of("a", Group("a"))
Execute ==
    /\ phase = "execute"
    /\ phase' = "read"
    /\ m' = Store([m EXCEPT !.x = AfterProgram(m, Reserved \cup LoopRegisters, Holding)],
                  ScratchpadBase + ProgramStoreCell(Ints), ProgramStoreWord(Ints))
    /\ UNCHANGED <<backend, light, hardAes, history, generated, buffer, ic>>
ReadItem == At("read", "store", DatasetRead) /\ UNCHANGED ic
StoreAndRepeat ==
    /\ At("store", IF m'.jump THEN "load" ELSE "return", LoopEnd)
    /\ ic' = ic + 1
Return == At("return", "done", Epilogue) /\ UNCHANGED ic

Next == Generate \/ Enter \/ Load \/ Execute \/ ReadItem \/ StoreAndRepeat \/ Return

Spec == Init /\ [][Next]_vars

-----------------------------------------------------------------------------
(* Properties.                                                             *)

Called == phase \notin {"generate", "enter"}
FileWord(k) == MemoryWord(RegisterFile + k)
FilePairs(offset) == [k \in 0 .. 3 |-> <<FileWord(offset + 4 * k), FileWord(offset + 4 * k + 2)>>]

Running == Called /\ phase # "done"
\* f and e are set at the beginning of an iteration.
HasFloats == Running /\ ~(phase = "load" /\ ic = 0)
Loop == INSTANCE ProgramLoop WITH
    Configs <- {h[Len(h)] : h \in Histories},
    config <- Config,
    phase <- IF phase = "generate" THEN "enter" ELSE phase,
    r <- IF Running THEN Ints ELSE IF phase = "done" THEN <<>> ELSE [k \in 0 .. 7 |-> 0],
    f <- IF HasFloats THEN Group("f") ELSE <<>>,
    e <- IF HasFloats THEN Group("e") ELSE <<>>,
    a <- IF Running THEN Group("a") ELSE <<>>,
    mx <- IF phase = "done" THEN 0 ELSE And(IF Called THEN MxMa[1] ELSE Config.mx, CacheLineAlignMask),
    ma <- IF phase = "done" THEN 0 ELSE And(IF Called THEN MxMa[2] ELSE Config.ma, CacheLineAlignMask),
    spAddr0 <- IF phase \in {"execute", "read", "store"} THEN SpAddr[1]
               ELSE IF phase = "load" /\ ic = 0 THEN And(Config.mx, CacheLineAlignMask) ELSE 0,
    spAddr1 <- IF phase \in {"execute", "read", "store"} THEN SpAddr[2]
               ELSE IF phase = "load" /\ ic = 0 THEN And(Config.ma, CacheLineAlignMask) ELSE 0,
    written <- [c \in {k - ScratchpadBase : k \in DOMAIN m.written} \cap Cells |->
                   m.written[c + ScratchpadBase]],
    file <- IF phase = "done"
            THEN [r |-> [k \in 0 .. 7 |-> FileWord(2 * k)], f |-> FilePairs(FileF), e |-> FilePairs(FileE)]
            ELSE <<>>

\* The code around a program, as the generations before have left the buffer, does
\* what InterpretedVm::execute does: the same lines of the scratchpad, the same item
\* of the dataset, the same registers at the end, in each of the versions.
ImplementsLoop == Loop!Spec

\* Whenever the program is entered the pointers, masks and literals its code relies
\* on are in their registers; when the code returns, so are those of the caller.
EnvironmentProvided ==
    /\ phase = "execute" =>
         /\ \A k \in Reserved : m.x[k] = Environment(k)
         /\ ic > 0 => \A k \in Carried : m.x[k] = Left(k)
    /\ phase = "done" => \A k \in CalleeSaved : m.x[k] = Before(k)

=============================================================================
