------------------------------ MODULE Bytecode ------------------------------
(***************************************************************************)
(* BytecodeMachine: compileProgram turns the instructions of a program     *)
(* into bytecode one by one and notes in registerUsage which of them       *)
(* modified each register last; executeBytecode runs the bytecode.         *)
(***************************************************************************)
EXTENDS Instructions

\* common.hpp:66-68: there is a condition, and it ends inside the register.
ASSUME ConditionAssumption ==
    /\ RegisterBits \in Nat /\ ConditionBits \in Nat \ {0} /\ ConditionOffset \in Nat
    /\ \A ins \in Instrs : Shift(ins) + ConditionBits <= RegisterBits
ASSUME ValuesAssumption == Values \subseteq Nat

\* Shifting by one amount after the other: the provers know no powers of two.
ASSUME BitAssumption ==
    \A j, k \in 0 .. RegisterBits :
        Bit(k) \in Nat \ {0} /\ (j + k <= RegisterBits => Bit(j + k) = Bit(j) * Bit(k))

VARIABLES
    prog,           \* the program
    i,              \* the next instruction compileProgram compiles
    registerUsage,
    bytecode,
    pc,             \* executeBytecode
    regs,           \* nreg->r
    streak          \* ghost: how often in a row the last branch has jumped

vars == <<prog, i, registerUsage, bytecode, pc, regs, streak>>

Instruction == prog[i]

ByteCode(type, dst, src, imm, shift, target) ==
    [type |-> type, dst |-> dst, src |-> src, imm |-> imm, shift |-> shift, target |-> target]
Plain(type) == ByteCode(type, Instruction.dst, Instruction.src, 0, 0, -1)

\* beginCompilation and the state executeBytecode starts from.
Init ==
    /\ prog \in [Indices -> Instrs]
    /\ i = 0
    /\ registerUsage = [r \in Registers |-> -1]
    /\ bytecode = [j \in Indices |-> None]
    /\ pc = 0
    /\ regs \in [Registers -> Values]
    /\ streak = 0

-----------------------------------------------------------------------------
(* compileInstruction.                                                     *)

Compiled(ibc, used) ==
    /\ bytecode' = [bytecode EXCEPT ![i] = ibc]
    /\ registerUsage' = [r \in Registers |-> IF r \in used THEN i ELSE registerUsage[r]]
    /\ i' = i + 1
    /\ UNCHANGED <<prog, pc, regs, streak>>

Compiles(op) == i < Size /\ Instruction.op = op

CompileInt ==
    /\ Compiles("INT")
    /\ Compiled(Plain("INT"), {Instruction.dst})

CompileRcp ==
    /\ Compiles("IMUL_RCP")
    /\ IF isZeroOrPowerOf2(Instruction.imm)
       THEN Compiled(Plain("NOP"), {})
       ELSE Compiled(Plain("IMUL_R"), {Instruction.dst})

\* Mutant: only the destination of an exchange is marked.
SwapUsesDst == {Instruction.dst}

SwapUses == {Instruction.dst, Instruction.src}

CompileSwap ==
    /\ Compiles("ISWAP_R")
    /\ IF Instruction.src # Instruction.dst
       THEN Compiled(Plain("ISWAP_R"), SwapUses)
       ELSE Compiled(Plain("NOP"), {})

\* "mark all registers as used"
BranchUses == Registers

CompileBranch ==
    /\ Compiles("CBRANCH")
    /\ Compiled(ByteCode("CBRANCH", Instruction.dst, None, BranchImm(Instruction),
                         Shift(Instruction), registerUsage[Instruction.dst]),
                BranchUses)

CompileOther ==
    /\ Compiles("OTHER") \/ Compiles("NOP")
    /\ Compiled(Plain(Instruction.op), {})

-----------------------------------------------------------------------------
(* executeBytecode.                                                        *)

Executes(type) == i = Size /\ pc < Size /\ bytecode[pc].type = type

GoOn ==
    /\ pc' = pc + 1
    /\ UNCHANGED <<prog, i, registerUsage, bytecode>>

ExecuteInt ==
    /\ Executes("INT") \/ Executes("IMUL_R")
    /\ \E x \in Values : regs' = [regs EXCEPT ![bytecode[pc].dst] = x]
    /\ UNCHANGED streak
    /\ GoOn

ExecuteSwap ==
    /\ Executes("ISWAP_R")
    /\ regs' = [regs EXCEPT ![bytecode[pc].dst] = regs[bytecode[pc].src],
                            ![bytecode[pc].src] = regs[bytecode[pc].dst]]
    /\ UNCHANGED streak
    /\ GoOn

\* Mutant: the instruction after the last modifier is skipped as well.
ResumePast(ibc) == ibc.target + 2

\* pc = target, then the loop's ++pc.
Resume(ibc) == ibc.target + 1

\* Jumps in a row are counted up to MaxStreak: it is enough to tell two from more.
MaxStreak == 3
OneMore(n) == IF n < MaxStreak THEN n + 1 ELSE n

ExecuteBranch ==
    LET ibc == bytecode[pc]
        x == Word(regs[ibc.dst] + ibc.imm)
    IN  /\ Executes("CBRANCH")
        /\ regs' = [regs EXCEPT ![ibc.dst] = x]
        /\ \/ /\ ConditionMet(x, ibc.shift)
              /\ pc' = Resume(ibc)
              /\ streak' = OneMore(streak)
           \/ /\ ~ConditionMet(x, ibc.shift)
              /\ pc' = pc + 1
              /\ streak' = 0
        /\ UNCHANGED <<prog, i, registerUsage, bytecode>>

ExecuteOther ==
    /\ Executes("OTHER") \/ Executes("NOP")
    /\ UNCHANGED <<regs, streak>>
    /\ GoOn

Compile == CompileInt \/ CompileRcp \/ CompileSwap \/ CompileBranch \/ CompileOther
Execute == ExecuteInt \/ ExecuteSwap \/ ExecuteBranch \/ ExecuteOther

Next == Compile \/ Execute

\* Nothing in a machine waits for anything.
Fairness == WF_vars(Next)

Spec == Init /\ [][Next]_vars /\ Fairness

-----------------------------------------------------------------------------
(* Correctness.                                                            *)

\* A branch resumes right after the last instruction that modified its register:
\* nothing between the two can change what the branch depends on, and no other
\* branch lies between them.
TargetsRight ==
    \A j \in 0 .. i - 1 :
        prog[j].op = "CBRANCH" =>
            FollowsLastModifier(prog, prog[j].dst, j, bytecode[j].target + 1)

\* "this limits the number of successive jumps to 2" (bytecode_machine.cpp:443).
AtMostTwoJumps == streak <= 2

\* Compiling shows as nothing at all, running as the program's own steps.
Program == INSTANCE BranchedProgram WITH at <- Effective(prog, pc)
ImplementsProgram == Program!Spec

\* No program loops forever.
EventuallyDone == <>(i = Size /\ pc = Size)
=============================================================================
