------------------------------ MODULE CompiledCode ------------------------------
(***************************************************************************)
(* The generation and the execution of the native code of a program, one   *)
(* instruction at a time, for every compiler and for the assembly          *)
(* generator: the code of each instruction must do what InstructionMeaning *)
(* says, whatever literals the other instructions have placed.             *)
(***************************************************************************)
EXTENDS MachineCode, FiniteSets

CONSTANTS
    Backends,   \* among AllBackends
    V2Backends, \* those that are given programs of RandomX v2 too
    Programs,   \* of instructions, the registers they use reduced modulo eight
    Registers, Groups,
    RANDOMX_PROGRAM_SIZE_V1, RANDOMX_PROGRAM_SIZE_V2,
    LowBits, LuiBits,            \* CodeRv64, CodeRv64Vector
    MovBits, AddLowBits, AddBits \* CodeA64

X86 == INSTANCE CodeX86
Asm == INSTANCE CodeAssembly
A64 == INSTANCE CodeA64
Rv64 == INSTANCE CodeRv64 WITH HasZba <- FALSE, HasZbb <- FALSE
Rv64Z == INSTANCE CodeRv64 WITH HasZba <- TRUE, HasZbb <- TRUE
Rvv == INSTANCE CodeRv64Vector WITH HasZba <- FALSE, HasZbb <- FALSE, HasZvkb <- FALSE
RvvZ == INSTANCE CodeRv64Vector WITH HasZba <- TRUE, HasZbb <- TRUE, HasZvkb <- TRUE

AllBackends == {"x86", "assembly", "a64", "rv64", "rv64z", "rvv", "rvvz"}
\* What a program is made of, the registers reduced modulo eight.
InstructionType ==
    {"IADD_RS", "IADD_M", "ISUB_R", "ISUB_M", "IMUL_R", "IMUL_M", "IMULH_R", "IMULH_M", "ISMULH_R",
     "ISMULH_M", "IMUL_RCP", "INEG_R", "IXOR_R", "IXOR_M", "IROR_R", "IROL_R", "ISWAP_R", "FSWAP_R",
     "FADD_R", "FADD_M", "FSUB_R", "FSUB_M", "FSCAL_R", "FMUL_R", "FDIV_M", "FSQRT_R", "CBRANCH",
     "CFROUND", "ISTORE", "NOP"}
Instructions ==
    [op : InstructionType, dst : 0 .. 7, src : 0 .. 7, imm : 0 .. Half - 1,
     modMem : 0 .. 3, modShift : 0 .. 3, modCond : 0 .. 15]

ASSUME BackendsAssumption == Backends \cup V2Backends \subseteq AllBackends
ASSUME AddAssumption == AddLowBits < AddBits /\ AddBits < ImmBits /\ L3Bits <= AddBits
ASSUME ProgramsAssumption == Programs \subseteq Seq(Instructions)
ASSUME SizesAssumption == {RANDOMX_PROGRAM_SIZE_V1, RANDOMX_PROGRAM_SIZE_V2} \subseteq Nat

VARIABLES
    backend,
    prog,
    v2,
    start,  \* what the registers hold when the program is entered
    state,  \* the compiler: code of the last instruction, literals
    code,   \* the code generated so far, by instruction
    pc,     \* instructions executed, once the program is entered
    entered,
    m       \* the machine

vars == <<backend, prog, v2, start, state, code, pc, entered, m>>

-----------------------------------------------------------------------------
(* The backends.                                                           *)

Generated(isn) ==
    LET s == [state EXCEPT !.ops = <<>>]
    IN CASE backend = "x86" -> X86!generateCode(s, isn, v2)
         [] backend = "assembly" -> Asm!generateCode(s, isn)
         [] backend = "a64" -> A64!generateCode(s, isn, v2)
         [] backend = "rv64" -> Rv64!emitInstruction(s, isn, v2)
         [] backend = "rv64z" -> Rv64Z!emitInstruction(s, isn, v2)
         [] backend = "rvv" -> Rvv!generateCode(s, isn, v2)
         [] backend = "rvvz" -> RvvZ!generateCode(s, isn, v2)
MaxInstrCodeSize ==
    CASE backend \in {"x86", "assembly"} -> X86!MaxInstrCodeSize
      [] backend = "a64" -> A64!MaxInstrCodeSize
      [] backend \in {"rv64", "rv64z"} -> Rv64!MaxInstrCodeSize
      [] backend \in {"rvv", "rvvz"} -> Rvv!MaxInstrCodeSize
Pool ==
    CASE backend \in {"rv64", "rv64z"} -> Rv64!Literals(state)
      [] OTHER -> state.literals
\* What the code of a program relies on and none of it may change.
Reserved ==
    CASE backend = "x86" -> X86!Reserved
      [] backend = "assembly" -> Asm!Reserved
      [] backend = "a64" -> A64!Reserved
      [] backend \in {"rv64", "rv64z"} -> Rv64!Reserved
      [] backend \in {"rvv", "rvvz"} -> Rvv!Reserved
Environment(k) ==
    CASE backend = "x86" -> X86!Environment(k)
      [] backend = "assembly" -> Asm!Environment(k)
      [] backend = "a64" -> A64!Environment(k, Pool)
      [] backend \in {"rv64", "rv64z"} -> Rv64!Environment(k, Pool)
      [] backend \in {"rvv", "rvvz"} -> Rvv!Environment(k, Pool)
\* What the code around the program keeps in registers, and the value it has there.
LoopRegisters ==
    CASE backend \in {"x86", "assembly"} -> X86!LoopRegisters
      [] backend = "a64" -> A64!LoopRegisters
      [] backend \in {"rv64", "rv64z"} -> Rv64!LoopRegisters
      [] backend \in {"rvv", "rvvz"} -> Rvv!LoopRegisters
OfLoop(k) == 7001 + k

\* Which machine registers hold r0-r7 and the two halves of the groups f, e and a.
IntReg(i) ==
    CASE backend = "x86" -> X86!regR(i)
      [] backend = "assembly" -> Asm!regR(i)
      [] backend = "a64" -> A64!IntRegMap(i)
      [] backend \in {"rv64", "rv64z"} -> Rv64!regR(i)
      [] backend \in {"rvv", "rvvz"} -> Rvv!r(i)
Pair(k) == <<Lo(k), Hi(k)>>
FloatReg(group, i) ==
    CASE backend = "x86" ->
           Pair(CASE group = "f" -> X86!regF(i) [] group = "e" -> X86!regE(i) [] group = "a" -> X86!regA(i))
      [] backend = "assembly" ->
           Pair(CASE group = "f" -> Asm!regF(i) [] group = "e" -> Asm!regE(i) [] group = "a" -> Asm!regA(i))
      [] backend = "a64" ->
           Pair(CASE group = "f" -> A64!regF(i) [] group = "e" -> A64!regE(i) [] group = "a" -> A64!regA(i))
      [] backend \in {"rv64", "rv64z"} ->
           (CASE group = "f" -> <<Rv64!regLoF(i), Rv64!regHiF(i)>>
              [] group = "e" -> <<Rv64!regLoE(i), Rv64!regHiE(i)>>
              [] group = "a" -> <<Rv64!regLoA(i), Rv64!regHiA(i)>>)
      [] backend \in {"rvv", "rvvz"} ->
           Pair(CASE group = "f" -> Rvv!f(i) [] group = "e" -> Rvv!e(i) [] group = "a" -> Rvv!a(i))

-----------------------------------------------------------------------------

\* Program::getSize: the instructions of a program of either version, of which prog
\* is the first ones.
ProgramSize == IF v2 THEN RANDOMX_PROGRAM_SIZE_V2 ELSE RANDOMX_PROGRAM_SIZE_V1

Init ==
    /\ backend \in Backends
    /\ prog \in Programs
    /\ v2 \in BOOLEAN
    /\ Len(prog) <= ProgramSize
    \* The versions differ in CFROUND and in how long a program may be.
    /\ v2 => /\ backend \in V2Backends
             /\ \/ \E i \in DOMAIN prog : prog[i].op = "CFROUND"
                \/ Len(prog) > RANDOMX_PROGRAM_SIZE_V1
    /\ start \in [r : Registers, g : Groups]
    /\ state = CompilerState
    /\ code = <<>>
    /\ pc = 0
    /\ entered = FALSE
    /\ m = Machine(<<>>, <<>>)

\* One turn of the loop of generateProgram.
Compile ==
    /\ Len(code) < Len(prog)
    /\ LET s == Generated(prog[Len(code) + 1])
       IN  state' = s /\ code' = Append(code, s.ops)
    /\ UNCHANGED <<backend, prog, v2, start, pc, entered, m>>

\* What the code before the program does: masks and literals are loaded, then the
\* registers of the program.
Loaded ==
    LET ints == [k \in {IntReg(i) : i \in 0 .. 7} |-> start.r[CHOOSE i \in 0 .. 7 : IntReg(i) = k]]
        floats(group, values) ==
            [k \in UNION {{FloatReg(group, i)[1], FloatReg(group, i)[2]} : i \in 0 .. 3} |->
                LET i == CHOOSE j \in 0 .. 3 : k \in {FloatReg(group, j)[1], FloatReg(group, j)[2]}
                IN  values[i][IF k = FloatReg(group, i)[1] THEN 1 ELSE 2]]
        held == ints @@ floats("f", start.g.f) @@ floats("e", start.g.e) @@ floats("a", start.g.a)
    IN  [k \in Regs |-> IF k \in Reserved THEN Environment(k)
                        ELSE IF k \in LoopRegisters THEN OfLoop(k)
                        ELSE IF k \in DOMAIN held THEN held[k] ELSE 0]
Enter ==
    /\ Len(code) = Len(prog)
    /\ ~entered
    /\ entered' = TRUE
    /\ m' = Machine(Loaded, Pool)
    /\ UNCHANGED <<backend, prog, v2, start, state, code, pc>>

\* The code of one instruction.
Run ==
    /\ entered
    /\ pc < Len(prog)
    /\ m' = RunCode(m, code[pc + 1])
    /\ pc' = pc + 1
    /\ UNCHANGED <<backend, prog, v2, start, state, code, entered>>

Next == Compile \/ Enter \/ Run

Spec == Init /\ [][Next]_vars

-----------------------------------------------------------------------------
(* Properties.                                                             *)

\* The machine as the interpreter sees it.
Group(name) == [i \in 0 .. 3 |-> <<m.x[FloatReg(name, i)[1]], m.x[FloatReg(name, i)[2]]>>]
Mapped ==
    IF entered
    THEN [r |-> [i \in 0 .. 7 |-> m.x[IntReg(i)]],
          f |-> Group("f"), e |-> Group("e"), a |-> Group("a"),
          written |-> [c \in {k - ScratchpadBase : k \in DOMAIN m.written} |->
                          m.written[c + ScratchpadBase]],
          mode |-> m.mode, jump |-> m.jump]
    ELSE [r |-> start.r, f |-> start.g.f, e |-> start.g.e, a |-> start.g.a,
          written |-> <<>>, mode |-> 0, jump |-> FALSE]

Meaning == INSTANCE InstructionMeaning WITH nreg <- Mapped

\* The code generated for an instruction does what the interpreter does
\* (doc/specs.md:550-571): whichever of its forms the immediate selects, wherever its
\* literals were placed, and with nothing else changed.  The handlers of the compilers,
\* exe_* of BytecodeMachine.
ImplementsMeaning == Meaning!Spec

\* ISUB_R with a constant: the compilers but those for x86 negate the immediate before
\* it is extended and add it, and the smallest immediate has no negative.
NegationOverflows(isn) ==
    /\ backend \notin {"x86", "assembly"}
    /\ isn.op = "ISUB_R" /\ isn.src = isn.dst
    /\ isn.imm = Half \div 2
\* IMUL_RCP for RISC-V vectors: the literal lies further on than the 12 signed bits of
\* the offset reach.
HasLiteral(isn) == isn.op = "IMUL_RCP" /\ ~isZeroOrPowerOf2(isn.imm)
LiteralOutOfReach(k) ==
    /\ backend \in {"rvv", "rvvz"}
    /\ HasLiteral(prog[k])
    /\ 8 * Cardinality({j \in 1 .. k - 1 : HasLiteral(prog[j])}) >= 2^11

\* What their code does instead: it adds the immediate it should subtract, or
\* multiplies the right register by another number.
Diverges ==
    LET isn == prog[pc + 1]
    IN  /\ pc' = pc + 1
        /\ UNCHANGED <<prog, v2>>
        /\ \/ /\ NegationOverflows(isn)
              /\ Mapped' = [Mapped EXCEPT !.r[isn.dst] = Word(@ + SignExtend(isn.imm))]
           \/ /\ LiteralOutOfReach(pc + 1)
              /\ Mapped' = [Mapped EXCEPT !.r[isn.dst] = Mapped'.r[isn.dst]]

\* The code generated for an instruction does what the interpreter does, whichever of
\* its forms the immediate selects, wherever its literals were placed, and with nothing
\* else changed, but for these two: jit_compiler_a64.cpp:642,
\* jit_compiler_rv64.cpp:792, jit_compiler_rv64_vector.cpp:452 and 542.
ImplementsMeaningElsewhere ==
    Meaning!Init /\ [][Meaning!Next \/ Diverges]_<<prog, v2, pc, Mapped>>

\* The scratchpad pointer, the masks and the literals in registers stay what the
\* code before the program has loaded, for all instructions that follow, and so does
\* what the loop around the program has in registers; a branch inside of an
\* instruction's code ends where that code ends.
EnvironmentKept ==
    entered => /\ \A k \in Reserved : m.x[k] = Environment(k)
               /\ \A k \in LoopRegisters : m.x[k] = OfLoop(k)
               /\ m.skip = 0

\* The code of an instruction is no longer than the share of the buffer the
\* compiler reckons with ("FDIV_M requires 56 bytes", jit_compiler_rv64.cpp:104);
\* nothing checks the bound when code is appended.
CodeFits == \A i \in DOMAIN code : Bytes(code[i]) <= MaxInstrCodeSize

\* The divisions whose operand is addressed with more than the 12 bytes that
\* JitCompilerRV64 reckons with (jit_compiler_rv64.cpp:356).
LongDivision(compiler, isn) ==
    /\ isn.op = "FDIV_M"
    /\ \/ compiler = "rv64" /\ Bytes(Rv64!genAddressReg(isn)) > 12
       \/ compiler = "rv64z" /\ Bytes(Rv64Z!genAddressReg(isn)) > 12

\* The code of an instruction is no longer than the share of the buffer the compiler
\* reckons with, but that of those divisions, by two bytes at most: each compiler's
\* MaxRandomXInstrCodeSize, which the size of its buffer is computed from and which
\* nothing checks when code is appended.
CodeBound ==
    \A i \in DOMAIN code :
        Bytes(code[i]) <= MaxInstrCodeSize + IF LongDivision(backend, prog[i]) THEN 2 ELSE 0

=============================================================================
