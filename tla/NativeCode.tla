----------------------------- MODULE NativeCode -----------------------------
(***************************************************************************)
(* The branches in the code the four compilers generate from a program.    *)
(* Instructions become code of different lengths, some of them none at     *)
(* all, and a branch jumps by a displacement from where it stands.  The    *)
(* compilers for x86 and RISC-V note the number of the instruction that    *)
(* modified a register last and look up where the next one's code starts;  *)
(* those for ARM and the RISC-V vector extension note the end of its code. *)
(* Positions count units of two bytes.                                     *)
(***************************************************************************)
EXTENDS Instructions

CONSTANTS
    Backends,    \* of "x86", "a64", "rv64", "rv64v"
    Lengths,     \* lengths of an instruction's code
    ShortReach,  \* 128 units: how far c.beqz reaches back
    LongReach    \* 2048 units: how far beq reaches back

ASSUME BackendsAssumption == Backends \subseteq {"x86", "a64", "rv64", "rv64v"}
ASSUME LengthsAssumption == Lengths \subseteq Nat \ {0}
ASSUME ReachAssumption == ShortReach \in Nat /\ LongReach \in Nat

VARIABLES
    backend,       \* which compiler
    prog,
    i,             \* the next instruction compiled
    codePos,       \* end of the code emitted
    lastModified,  \* registerUsage, reg_changed_offset, last_modified
    native,        \* the code of each instruction
    ip,            \* execution: position of the next machine instruction
    regs

vars == <<backend, prog, i, codePos, lastModified, native, ip, regs>>

Instruction == prog[i]

\* registerUsage holds numbers of instructions, the others hold positions.
ByNumber == backend \in {"x86", "rv64"}

\* generateProgramPrologue, generateProgram, emitProgramPrefix: no register modified yet.
Init ==
    /\ backend \in Backends
    /\ prog \in [Indices -> Instrs]
    /\ i = 0
    /\ codePos = 0
    /\ lastModified = [r \in Registers |-> IF ByNumber THEN -1 ELSE 0]
    /\ native = [j \in Indices |-> None]
    /\ ip = 0
    /\ regs \in [Registers -> Values]

-----------------------------------------------------------------------------
(* Generating code.                                                        *)

\* An instruction's code is [start, end); a branch in it is relative to "from".
Emit(end, from, disp) ==
    /\ native' = [native EXCEPT ![i] = [start |-> codePos, end |-> end, from |-> from, disp |-> disp]]
    /\ codePos' = end
    /\ i' = i + 1
    /\ UNCHANGED <<backend, prog, ip, regs>>

\* What the handlers of integer instructions note of a register they modify.
NotedX86 == i
NotedRv64 == i

NotedA64(end) == end
NotedRv64Vector(end) == end

ModifiedAt(end) ==
    CASE backend = "x86"   -> NotedX86
      [] backend = "a64"   -> NotedA64(end)
      [] backend = "rv64"  -> NotedRv64
      [] backend = "rv64v" -> NotedRv64Vector(end)

Modifies(used, end) ==
    lastModified' = [r \in Registers |-> IF r \in used THEN ModifiedAt(end) ELSE lastModified[r]]

\* Code without a branch in it.
Straight(used, lengths) ==
    \E n \in lengths : Emit(codePos + n, None, 0) /\ Modifies(used, codePos + n)

Compiles(op) == i < Size /\ Instruction.op = op

CompileInt ==
    /\ Compiles("INT")
    /\ Straight({Instruction.dst}, Lengths)

CompileRcp ==
    /\ Compiles("IMUL_RCP")
    /\ IF isZeroOrPowerOf2(Instruction.imm)
       THEN Straight({}, {0})
       ELSE Straight({Instruction.dst}, Lengths)

\* Mutant: only the destination of an exchange is noted.
SwapUsesDst == {Instruction.dst}

SwapUses == {Instruction.dst, Instruction.src}

CompileSwap ==
    /\ Compiles("ISWAP_R")
    /\ IF Instruction.src # Instruction.dst
       THEN Straight(SwapUses, Lengths)
       ELSE Straight({}, {0})

CompileOther ==
    \/ Compiles("OTHER") /\ Straight({}, Lengths)
    \/ Compiles("NOP") /\ Straight({}, IF backend = "x86" THEN Lengths ELSE {0})

\* Where a branch on r has to go: instructionOffsets[registerUsage[r] + 1], which
\* may be the branch's own start, or the position noted.
Destination(r) ==
    IF ~ByNumber THEN lastModified[r]
    ELSE IF lastModified[r] + 1 = i THEN codePos
    ELSE native[lastModified[r] + 1].start

\* The code of a branch ends at "end" and is followed by marking all registers.
Branch(end, from, disp) == Emit(end, from, disp) /\ Modifies(Registers, end)

\* jz rel32, relative to its own end; before it the addition and the test.
CompileBranchX86 ==
    /\ Compiles("CBRANCH") /\ backend = "x86"
    /\ \E n \in Lengths :
          LET field == codePos + n + 1
          IN  Branch(field + 2, field + 2, Destination(Instruction.dst) - (field + 2))

\* b.eq, relative to itself.
CompileBranchA64 ==
    /\ Compiles("CBRANCH") /\ backend = "a64"
    /\ \E n \in Lengths :
          LET k == codePos + n
          IN  Branch(k + 2, k, Destination(Instruction.dst) - k)

\* Mutant: the jump is taken to stand where the branch over it stands.
JumpFromBranch(at) == at

\* The jump stands behind the c.bnez.
JumpFrom(at) == at + 1

\* c.beqz, beq or c.bnez over a jump, as the distance demands.
CompileBranchRv64 ==
    /\ Compiles("CBRANCH") /\ backend = "rv64"
    /\ \E n \in Lengths :
          LET pos == codePos + n
              dest == Destination(Instruction.dst)
              offset == dest - pos
          IN  \/ offset >= -ShortReach /\ Branch(pos + 1, pos, offset)
              \/ /\ offset < -ShortReach /\ offset >= -LongReach
                 /\ Branch(pos + 2, pos, offset)
              \/ /\ offset < -ShortReach /\ offset < -LongReach
                 /\ Branch(pos + 3, pos + 1, dest - JumpFrom(pos))

\* beqz or bnez over a jump.
CompileBranchRv64Vector ==
    /\ Compiles("CBRANCH") /\ backend = "rv64v"
    /\ \E n \in Lengths :
          LET p == codePos + n
              offset == Destination(Instruction.dst) - p
          IN  \/ offset >= -LongReach /\ Branch(p + 2, p, offset)
              \/ offset < -LongReach /\ Branch(p + 4, p + 2, offset - 2)

-----------------------------------------------------------------------------
(* Running the code.                                                       *)

\* The instruction whose code the processor is at, Size at the end.
Here ==
    IF ip = codePos THEN Size
    ELSE CHOOSE j \in Indices : native[j].start = ip /\ native[j].end > ip

Runs(op) == i = Size /\ Here < Size /\ prog[Here].op = op

GoOn ==
    /\ ip' = native[Here].end
    /\ UNCHANGED <<backend, prog, i, codePos, lastModified, native>>

RunInt ==
    /\ Runs("INT") \/ Runs("IMUL_RCP")
    /\ \E x \in Values : regs' = [regs EXCEPT ![prog[Here].dst] = x]
    /\ GoOn

RunSwap ==
    /\ Runs("ISWAP_R")
    /\ regs' = [regs EXCEPT ![prog[Here].dst] = regs[prog[Here].src],
                            ![prog[Here].src] = regs[prog[Here].dst]]
    /\ GoOn

RunBranch ==
    LET ins == prog[Here]
        x == Word(regs[ins.dst] + BranchImm(ins))
    IN  /\ Runs("CBRANCH")
        /\ regs' = [regs EXCEPT ![ins.dst] = x]
        /\ ip' = IF ConditionMet(x, Shift(ins))
                 THEN native[Here].from + native[Here].disp
                 ELSE native[Here].end
        /\ UNCHANGED <<backend, prog, i, codePos, lastModified, native>>

RunOther ==
    /\ Runs("OTHER") \/ Runs("NOP")
    /\ UNCHANGED regs
    /\ GoOn

Compile ==
    \/ CompileInt \/ CompileRcp \/ CompileSwap \/ CompileOther
    \/ CompileBranchX86 \/ CompileBranchA64 \/ CompileBranchRv64 \/ CompileBranchRv64Vector
Run == RunInt \/ RunSwap \/ RunBranch \/ RunOther

Next == Compile \/ Run

Spec == Init /\ [][Next]_vars

-----------------------------------------------------------------------------
(* Correctness.                                                            *)

\* Every branch that was generated jumps to where the code starts of the
\* instruction that follows the last one to modify its register: the
\* instruction the interpreter resumes at.
BranchesLand ==
    \A j \in 0 .. i - 1 :
        prog[j].op = "CBRANCH" =>
            native[j].from + native[j].disp = native[Target(prog, j)].start

\* The generated code does what the program says.
Program == INSTANCE BranchedProgram WITH at <- IF i = Size THEN Effective(prog, Here) ELSE Effective(prog, 0)
ImplementsProgram == Program!Spec
=============================================================================
