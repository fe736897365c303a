--------------------------- MODULE BytecodeProofs ---------------------------
(***************************************************************************)
(* Proofs about Bytecode for any set of registers, any program length and  *)
(* any instructions.                                                       *)
(***************************************************************************)
EXTENDS Bytecode, TLAPS

-----------------------------------------------------------------------------
(* What it means to follow the last modifier of a register, for programs   *)
(* and registers of any kind.                                              *)

\* An instruction that leaves a register alone leaves its last modifier where it was.
LEMMA LeftAlone ==
    ASSUME NEW p, NEW r, NEW n \in Nat, NEW t,
           FollowsLastModifier(p, r, n, t), r \notin Modified(p[n])
    PROVE  FollowsLastModifier(p, r, n + 1, t)
<1>1. t \in 0 .. n + 1 /\ (t = 0 \/ r \in Modified(p[t - 1]))
  BY DEF FollowsLastModifier
<1>2. ASSUME NEW j \in t .. (n + 1) - 1
      PROVE  r \notin Modified(p[j])
  <2>1. CASE j = n
    BY <2>1
  <2>2. CASE j # n
    <3>1. t \in 0 .. n /\ j \in t .. n - 1
      BY <1>2, <2>2 DEF FollowsLastModifier
    <3>2. QED
      BY <3>1 DEF FollowsLastModifier
  <2>3. QED
    BY <2>1, <2>2
<1>3. QED
  BY <1>1, <1>2 DEF FollowsLastModifier

\* An instruction that modifies a register is its last modifier.
LEMMA JustModified ==
    ASSUME NEW p, NEW r, NEW n \in Nat, r \in Modified(p[n])
    PROVE  FollowsLastModifier(p, r, n + 1, n + 1)
<1>1. n + 1 \in 0 .. n + 1 /\ (n + 1) - 1 = n /\ (n + 1) .. (n + 1) - 1 = {}
  OBVIOUS
<1>2. QED
  BY <1>1 DEF FollowsLastModifier

\* Before the first instruction nothing is modified.
LEMMA NothingModified ==
    ASSUME NEW p, NEW r
    PROVE  FollowsLastModifier(p, r, 0, 0)
BY DEF FollowsLastModifier

\* There is only one place that follows the last modifier.
LEMMA OneTarget ==
    ASSUME NEW p, NEW r, NEW n \in Nat, NEW s, NEW t,
           FollowsLastModifier(p, r, n, s), FollowsLastModifier(p, r, n, t)
    PROVE  s = t
<1>1. s \in 0 .. n /\ t \in 0 .. n
  BY DEF FollowsLastModifier
<1>2. CASE s < t
  <2>1. t - 1 \in s .. n - 1 /\ t # 0
    BY <1>1, <1>2
  <2>2. QED
    BY <2>1 DEF FollowsLastModifier
<1>3. CASE t < s
  <2>1. s - 1 \in t .. n - 1 /\ s # 0
    BY <1>1, <1>3
  <2>2. QED
    BY <2>1 DEF FollowsLastModifier
<1>4. QED
  BY <1>1, <1>2, <1>3

\* Hence the target of a branch is the place that was found to be it.
LEMMA TargetFound ==
    ASSUME NEW p, NEW n \in Nat, NEW t, FollowsLastModifier(p, p[n].dst, n, t)
    PROVE  Target(p, n) = t
<1>1. t \in 0 .. n
  BY DEF FollowsLastModifier
<1>2. FollowsLastModifier(p, p[n].dst, n, Target(p, n))
  BY <1>1 DEF Target
<1>3. QED
  BY <1>2, OneTarget

\* What follows an instruction that has an effect does not matter to which one is next.
LEMMA EffectiveIsHere ==
    ASSUME NEW p, NEW n \in 0 .. Size - 1, ~IsNop(p[n])
    PROVE  Effective(p, n) = n
<1> DEFINE P(e) == /\ e = Size \/ ~IsNop(p[e])
                   /\ \A j \in n .. e - 1 : IsNop(p[j])
<1>1. n \in n .. Size /\ P(n)
  BY SizeAssumption
<1>2. \A e \in n .. Size : P(e) => e = n
  BY SizeAssumption
<1>3. QED
  BY <1>1, <1>2 DEF Effective

\* An instruction without effect leaves it to the ones that follow.
LEMMA EffectiveIsLater ==
    ASSUME NEW p, NEW n \in 0 .. Size - 1, IsNop(p[n])
    PROVE  Effective(p, n) = Effective(p, n + 1)
<1> DEFINE P(k, e) == /\ e \in k .. Size
                      /\ e = Size \/ ~IsNop(p[e])
                      /\ \A j \in k .. e - 1 : IsNop(p[j])
<1>1. ASSUME NEW e
      PROVE  P(n, e) <=> P(n + 1, e)
  <2>1. CASE e \in n + 1 .. Size
    <3>1. n .. e - 1 = {n} \cup ((n + 1) .. e - 1)
      BY <2>1, SizeAssumption
    <3>2. QED
      BY <2>1, <3>1, SizeAssumption
  <2>2. CASE e \notin n + 1 .. Size
    <3>1. e \in n .. Size => e = n /\ e # Size
      BY <2>2, SizeAssumption
    <3>2. QED
      BY <2>2, <3>1
  <2>3. QED
    BY <2>1, <2>2
<1>2. (CHOOSE e : P(n, e)) = (CHOOSE e : P(n + 1, e))
  <2> HIDE DEF P
  <2>1. QED
    BY <1>1
<1>3. \A k : Effective(p, k) = CHOOSE e : P(k, e)
  BY DEF Effective
<1>4. QED
  BY <1>2, <1>3

-----------------------------------------------------------------------------
(* What is known of the code.                                              *)

\* registerUsage points to the last modifier of every register so far.
UsageRight ==
    \A r \in Registers : FollowsLastModifier(prog, r, i, registerUsage[r] + 1)

CompileTypes ==
    /\ prog \in [Indices -> Instrs]
    /\ i \in 0 .. Size
    /\ registerUsage \in [Registers -> Int]
    /\ DOMAIN bytecode = Indices

\* What the bytecode of a branch is.
BranchesCompiled ==
    \A j \in 0 .. i - 1 : bytecode[j].type = "CBRANCH" => prog[j].op = "CBRANCH"

PcInside == pc \in 0 .. Size

IInv == CompileTypes /\ UsageRight /\ TargetsRight /\ BranchesCompiled /\ PcInside

LEMMA InitInv == Init => IInv
<1> SUFFICES ASSUME Init PROVE IInv
  OBVIOUS
<1>1. CompileTypes /\ TargetsRight /\ BranchesCompiled /\ PcInside
  BY SizeAssumption DEF Init, CompileTypes, TargetsRight, BranchesCompiled, PcInside, Indices
<1>2. UsageRight
  <2>1. ASSUME NEW r \in Registers PROVE FollowsLastModifier(prog, r, i, registerUsage[r] + 1)
    <3>1. i = 0 /\ registerUsage[r] + 1 = 0
      BY DEF Init
    <3>2. QED
      BY <3>1, NothingModified
  <2>2. QED
    BY <2>1 DEF UsageRight
<1>3. QED
  BY <1>1, <1>2 DEF IInv

\* Compiling one instruction, whichever: what it is recorded to modify is what it
\* modifies, and a branch gets the target that registerUsage holds.
LEMMA CompiledInv ==
    ASSUME IInv, i < Size, NEW ibc, NEW used, used \cap Registers = Modified(prog[i]) \cap Registers,
           Compiled(ibc, used),
           ibc.type = "CBRANCH" => prog[i].op = "CBRANCH",
           prog[i].op = "CBRANCH" =>
              /\ prog[i].dst \in Registers
              /\ ibc.target = registerUsage[prog[i].dst]
    PROVE  IInv'
<1> USE DEF IInv
<1>1. i \in Nat /\ i' = i + 1 /\ prog' = prog /\ i \in Indices /\ pc' = pc
  BY SizeAssumption DEF CompileTypes, Compiled, Indices
<1>2. CompileTypes' /\ PcInside'
  BY SizeAssumption, <1>1 DEF CompileTypes, Compiled, PcInside
<1>3. bytecode'[i] = ibc /\ \A j \in 0 .. i - 1 : bytecode'[j] = bytecode[j]
  BY <1>1 DEF CompileTypes, Compiled, Indices
<1>4. UsageRight'
  <2>1. ASSUME NEW r \in Registers
        PROVE  FollowsLastModifier(prog, r, i + 1, registerUsage'[r] + 1)
    <3>1. FollowsLastModifier(prog, r, i, registerUsage[r] + 1)
      BY DEF UsageRight
    <3>2. CASE r \in Modified(prog[i])
      <4>1. registerUsage'[r] = i
        BY <3>2 DEF Compiled
      <4>2. QED
        BY <1>1, <3>2, <4>1, JustModified
    <3>3. CASE r \notin Modified(prog[i])
      <4>1. registerUsage'[r] = registerUsage[r]
        BY <3>3 DEF Compiled
      <4>2. QED
        BY <1>1, <3>1, <3>3, <4>1, LeftAlone
    <3>4. QED
      BY <3>2, <3>3
  <2>2. QED
    BY <1>1, <2>1 DEF UsageRight
<1>5. TargetsRight'
  <2>1. SUFFICES ASSUME NEW j \in 0 .. i, prog[j].op = "CBRANCH"
                 PROVE  FollowsLastModifier(prog, prog[j].dst, j, bytecode'[j].target + 1)
    BY <1>1 DEF TargetsRight
  <2>2. CASE j = i
    BY <1>3, <2>1, <2>2 DEF UsageRight
  <2>3. CASE j # i
    <3>1. j \in 0 .. i - 1
      BY <1>1, <2>3
    <3>2. QED
      BY <1>3, <2>1, <3>1 DEF TargetsRight
  <2>4. QED
    BY <2>2, <2>3
<1>6. BranchesCompiled'
  <2>1. SUFFICES ASSUME NEW j \in 0 .. i, bytecode'[j].type = "CBRANCH"
                 PROVE  prog[j].op = "CBRANCH"
    BY <1>1 DEF BranchesCompiled
  <2>2. CASE j = i
    BY <1>3, <2>1, <2>2
  <2>3. CASE j # i
    <3>1. j \in 0 .. i - 1
      BY <1>1, <2>3
    <3>2. QED
      BY <1>3, <2>1, <3>1 DEF BranchesCompiled
  <2>4. QED
    BY <2>2, <2>3
<1>7. QED
  BY <1>2, <1>4, <1>5, <1>6

\* Running the bytecode changes nothing that was compiled, and a jump stays inside it.
LEMMA ExecuteInv ==
    ASSUME IInv, Execute
    PROVE  IInv'
<1> USE DEF IInv
<1>1. i = Size /\ pc < Size
  BY DEF Execute, ExecuteInt, ExecuteSwap, ExecuteBranch, ExecuteOther, Executes
<1>2. UNCHANGED <<prog, i, registerUsage, bytecode>>
  BY DEF Execute, ExecuteInt, ExecuteSwap, ExecuteBranch, ExecuteOther, GoOn
<1>3. pc' = pc + 1 \/ (bytecode[pc].type = "CBRANCH" /\ pc' = bytecode[pc].target + 1)
  BY DEF Execute, ExecuteInt, ExecuteSwap, ExecuteBranch, ExecuteOther, GoOn, Executes, Resume
<1>4. PcInside'
  <2>1. CASE pc' = pc + 1
    BY <1>1, <2>1, SizeAssumption DEF PcInside
  <2>2. CASE bytecode[pc].type = "CBRANCH" /\ pc' = bytecode[pc].target + 1
    <3>1. pc \in 0 .. i - 1
      BY <1>1, SizeAssumption DEF PcInside
    <3>2. FollowsLastModifier(prog, prog[pc].dst, pc, pc')
      BY <2>2, <3>1 DEF BranchesCompiled, TargetsRight
    <3>3. pc' \in 0 .. pc
      BY <3>2 DEF FollowsLastModifier
    <3>4. QED
      BY <1>1, <3>1, <3>3, SizeAssumption DEF PcInside
  <2>3. QED
    BY <1>3, <2>1, <2>2
<1>5. CompileTypes' /\ UsageRight' /\ TargetsRight' /\ BranchesCompiled'
  BY <1>2 DEF CompileTypes, UsageRight, TargetsRight, BranchesCompiled
<1>6. QED
  BY <1>4, <1>5

LEMMA NextInv == IInv /\ [Next]_vars => IInv'
<1> SUFFICES ASSUME IInv, [Next]_vars PROVE IInv'
  OBVIOUS
<1>1. ASSUME i < Size
      PROVE  i \in Indices /\ prog[i] \in Instrs /\ prog[i].dst \in Registers /\ prog[i].src \in Registers
  BY <1>1, SizeAssumption, InstrsAssumption DEF IInv, CompileTypes, Indices
<1>2. ASSUME CompileInt PROVE IInv'
  <2>1. Modified(prog[i]) = {prog[i].dst}
    BY <1>2 DEF CompileInt, Compiles, Instruction, Modified, IsNop
  <2>2. QED
    BY <1>1, <1>2, <2>1, CompiledInv DEF CompileInt, Compiles, Instruction, Plain, ByteCode
<1>3. ASSUME CompileRcp PROVE IInv'
  <2>1. CASE isZeroOrPowerOf2(prog[i].imm)
    <3>1. Modified(prog[i]) = {}
      BY <1>3, <2>1 DEF CompileRcp, Compiles, Instruction, Modified, IsNop
    <3>2. QED
      BY <1>1, <1>3, <2>1, <3>1, CompiledInv DEF CompileRcp, Compiles, Instruction, Plain, ByteCode
  <2>2. CASE ~isZeroOrPowerOf2(prog[i].imm)
    <3>1. Modified(prog[i]) = {prog[i].dst}
      BY <1>3, <2>2 DEF CompileRcp, Compiles, Instruction, Modified, IsNop
    <3>2. QED
      BY <1>1, <1>3, <2>2, <3>1, CompiledInv DEF CompileRcp, Compiles, Instruction, Plain, ByteCode
  <2>3. QED
    BY <2>1, <2>2
<1>4. ASSUME CompileSwap PROVE IInv'
  <2>1. CASE prog[i].src = prog[i].dst
    <3>1. Modified(prog[i]) = {}
      BY <1>4, <2>1 DEF CompileSwap, Compiles, Instruction, Modified, IsNop
    <3>2. QED
      BY <1>1, <1>4, <2>1, <3>1, CompiledInv DEF CompileSwap, Compiles, Instruction, Plain, ByteCode
  <2>2. CASE prog[i].src # prog[i].dst
    <3>1. Modified(prog[i]) = {prog[i].dst, prog[i].src}
      BY <1>4, <2>2 DEF CompileSwap, Compiles, Instruction, Modified, IsNop
    <3>2. QED
      BY <1>1, <1>4, <2>2, <3>1, CompiledInv
         DEF CompileSwap, Compiles, Instruction, Plain, ByteCode, SwapUses
  <2>3. QED
    BY <2>1, <2>2
<1>5. ASSUME CompileBranch PROVE IInv'
  <2>1. Modified(prog[i]) = Registers
    BY <1>5 DEF CompileBranch, Compiles, Instruction, Modified, IsNop
  <2>2. QED
    BY <1>1, <1>5, <2>1, CompiledInv DEF CompileBranch, Compiles, Instruction, ByteCode, BranchUses
<1>6. ASSUME CompileOther PROVE IInv'
  <2>1. Modified(prog[i]) = {}
    BY <1>6 DEF CompileOther, Compiles, Instruction, Modified, IsNop
  <2>2. QED
    BY <1>1, <1>6, <2>1, CompiledInv DEF CompileOther, Compiles, Instruction, Plain, ByteCode
<1>7. ASSUME UNCHANGED vars PROVE IInv'
  BY <1>7 DEF vars, IInv, CompileTypes, UsageRight, TargetsRight, BranchesCompiled, PcInside
<1>8. QED
  BY <1>2, <1>3, <1>4, <1>5, <1>6, <1>7, ExecuteInv DEF Next, Compile

\* Whatever the program: every branch compiled resumes right after the last
\* instruction that modified its register (bytecode_machine.cpp:440).
THEOREM BranchesResumeRight == Spec => []TargetsRight
<1>1. IInv => TargetsRight
  BY DEF IInv
<1>2. QED
  BY InitInv, NextInv, <1>1, PTL DEF Spec

\* executeBytecode never leaves the bytecode, except by its end.
THEOREM PcStaysInside == Spec => []PcInside
<1>1. IInv => PcInside
  BY DEF IInv
<1>2. QED
  BY InitInv, NextInv, <1>1, PTL DEF Spec


-----------------------------------------------------------------------------
(* Running the bytecode is running the program.                            *)

\* What an instruction of the program has to become.
CodeOf(ibc, ins) ==
    /\ ibc.type \in {"INT", "IMUL_R"} =>
          ins.op \in {"INT", "IMUL_RCP"} /\ ~IsNop(ins) /\ ibc.dst = ins.dst
    /\ ibc.type = "ISWAP_R" =>
          ins.op = "ISWAP_R" /\ ~IsNop(ins) /\ ibc.dst = ins.dst /\ ibc.src = ins.src
    /\ ibc.type = "CBRANCH" =>
          ins.op = "CBRANCH" /\ ibc.dst = ins.dst /\ ibc.imm = BranchImm(ins) /\ ibc.shift = Shift(ins)
    /\ ibc.type = "OTHER" => ins.op = "OTHER"
    /\ ibc.type = "NOP" => IsNop(ins)

CodeRight == \A j \in 0 .. i - 1 : CodeOf(bytecode[j], prog[j])

\* Compiling an instruction leaves the code of those before it alone.
LEMMA CompiledRight ==
    ASSUME IInv, CodeRight, i < Size, NEW ibc, NEW used, Compiled(ibc, used), CodeOf(ibc, prog[i])
    PROVE  CodeRight'
<1>1. i \in Indices /\ i \in Nat /\ prog' = prog /\ i' = i + 1 /\ bytecode' = [bytecode EXCEPT ![i] = ibc]
  BY SizeAssumption DEF IInv, CompileTypes, Compiled, Indices
<1>2. bytecode'[i] = ibc /\ \A j \in 0 .. i - 1 : bytecode'[j] = bytecode[j]
  BY <1>1 DEF IInv, CompileTypes, Indices
<1>3. SUFFICES ASSUME NEW j \in 0 .. i
               PROVE  CodeOf(bytecode'[j], prog[j])
  BY <1>1 DEF CodeRight
<1>4. CASE j = i
  BY <1>2, <1>4
<1>5. CASE j # i
  <2>1. j \in 0 .. i - 1
    BY <1>1, <1>5
  <2>2. QED
    BY <1>2, <2>1 DEF CodeRight
<1>6. QED
  BY <1>4, <1>5

\* The code of every instruction compiled so far does what the instruction does.
LEMMA CodeRightInv == IInv /\ CodeRight /\ [Next]_vars => CodeRight'
<1> SUFFICES ASSUME IInv, CodeRight, [Next]_vars PROVE CodeRight'
  OBVIOUS
<1>1. CASE CompileInt
  <2>1. CodeOf(Plain("INT"), prog[i])
    BY <1>1 DEF CompileInt, Compiles, Instruction, CodeOf, Plain, ByteCode, IsNop
  <2>2. QED
    BY <1>1, <2>1, CompiledRight DEF CompileInt, Compiles
<1>2. CASE CompileRcp
  <2>1. CASE isZeroOrPowerOf2(Instruction.imm)
    <3>1. CodeOf(Plain("NOP"), prog[i])
      BY <1>2, <2>1 DEF CompileRcp, Compiles, Instruction, CodeOf, Plain, ByteCode, IsNop
    <3>2. QED
      BY <1>2, <2>1, <3>1, CompiledRight DEF CompileRcp, Compiles
  <2>2. CASE ~isZeroOrPowerOf2(Instruction.imm)
    <3>1. CodeOf(Plain("IMUL_R"), prog[i])
      BY <1>2, <2>2 DEF CompileRcp, Compiles, Instruction, CodeOf, Plain, ByteCode, IsNop
    <3>2. QED
      BY <1>2, <2>2, <3>1, CompiledRight DEF CompileRcp, Compiles
  <2>3. QED
    BY <2>1, <2>2
<1>3. CASE CompileSwap
  <2>1. CASE Instruction.src # Instruction.dst
    <3>1. CodeOf(Plain("ISWAP_R"), prog[i])
      BY <1>3, <2>1 DEF CompileSwap, Compiles, Instruction, CodeOf, Plain, ByteCode, IsNop
    <3>2. QED
      BY <1>3, <2>1, <3>1, CompiledRight DEF CompileSwap, Compiles
  <2>2. CASE Instruction.src = Instruction.dst
    <3>1. CodeOf(Plain("NOP"), prog[i])
      BY <1>3, <2>2 DEF CompileSwap, Compiles, Instruction, CodeOf, Plain, ByteCode, IsNop
    <3>2. QED
      BY <1>3, <2>2, <3>1, CompiledRight DEF CompileSwap, Compiles
  <2>3. QED
    BY <2>1, <2>2
<1>4. CASE CompileBranch
  <2> DEFINE ibc == ByteCode("CBRANCH", Instruction.dst, None, BranchImm(Instruction),
                             Shift(Instruction), registerUsage[Instruction.dst])
  <2>1. CodeOf(ibc, prog[i])
    BY <1>4 DEF CompileBranch, Compiles, Instruction, CodeOf, ByteCode
  <2>2. QED
    BY <1>4, <2>1, CompiledRight DEF CompileBranch, Compiles
<1>5. CASE CompileOther
  <2>1. CodeOf(Plain(Instruction.op), prog[i])
    BY <1>5 DEF CompileOther, Compiles, Instruction, CodeOf, Plain, ByteCode, IsNop
  <2>2. QED
    BY <1>5, <2>1, CompiledRight DEF CompileOther, Compiles
<1>6. CASE Execute \/ UNCHANGED vars
  <2>1. UNCHANGED <<prog, i, bytecode>>
    BY <1>6 DEF Execute, ExecuteInt, ExecuteSwap, ExecuteBranch, ExecuteOther, GoOn, vars
  <2>2. QED
    BY <2>1 DEF CodeRight
<1>7. QED
  BY <1>1, <1>2, <1>3, <1>4, <1>5, <1>6 DEF Next, Compile

\* The program begins where the bytecode does.
LEMMA InitProgram == Init => Program!Init
<1> SUFFICES ASSUME Init PROVE Program!Init
  OBVIOUS
<1>1. Program!Effective(prog, 0) = Effective(prog, 0)
  BY DEF Program!Effective, Effective, Program!IsNop, IsNop, Program!isZeroOrPowerOf2,
         isZeroOrPowerOf2, Program!Bit, Bit
<1>2. QED
  BY <1>1 DEF Init, Program!Init, Indices, Program!Indices


\* An instruction that takes effect is the one the program is at.
LEMMA AtTheInstruction ==
    ASSUME IInv, CodeRight, i = Size, pc < Size, ~IsNop(prog[pc])
    PROVE  Effective(prog, pc) = pc /\ pc \in 0 .. Size - 1
<1>1. pc \in 0 .. Size - 1
  BY SizeAssumption DEF IInv, PcInside
<1>2. QED
  BY <1>1, EffectiveIsHere

\* The abstract program and the bytecode mean the same by an instruction's operands.
LEMMA SameMeaning ==
    /\ \A p, k : Program!Effective(p, k) = Effective(p, k)
    /\ \A p, k : Program!Target(p, k) = Target(p, k)
    /\ \A x : Program!Word(x) = Word(x)
    /\ \A ins : Program!BranchImm(ins) = BranchImm(ins) /\ Program!Shift(ins) = Shift(ins)
    /\ \A x, s : Program!ConditionMet(x, s) <=> ConditionMet(x, s)
<1>1. \A ins : Program!IsNop(ins) <=> IsNop(ins)
  BY DEF Program!IsNop, IsNop, Program!isZeroOrPowerOf2, isZeroOrPowerOf2, Program!Bit, Bit
<1>2. \A p, k : Program!Effective(p, k) = Effective(p, k)
  BY DEF Program!Effective, Effective, Program!IsNop, IsNop, Program!isZeroOrPowerOf2,
         isZeroOrPowerOf2, Program!Bit, Bit
<1>3. \A p, k : Program!Target(p, k) = Target(p, k)
  BY DEF Program!Target, Target, Program!FollowsLastModifier, FollowsLastModifier,
         Program!Modified, Modified, Program!IsNop, IsNop, Program!isZeroOrPowerOf2,
         isZeroOrPowerOf2, Program!Bit, Bit
<1>4. \A x : Program!Word(x) = Word(x)
  BY DEF Program!Word, Word, Program!Bit, Bit
<1>5. \A ins : Program!BranchImm(ins) = BranchImm(ins) /\ Program!Shift(ins) = Shift(ins)
  BY DEF Program!BranchImm, BranchImm, Program!Shift, Shift, Program!WithoutCarryBit, WithoutCarryBit,
         Program!WithoutBit, WithoutBit, Program!WithBit, WithBit, Program!IsSet, IsSet, Program!Bit, Bit
<1>6. \A x, s : Program!ConditionMet(x, s) <=> ConditionMet(x, s)
  BY DEF Program!ConditionMet, ConditionMet, Program!Bit, Bit
<1>7. QED
  BY <1>2, <1>3, <1>4, <1>5, <1>6

\* Compiling changes nothing the program can see, and neither does an instruction
\* without effect; every other instruction of the bytecode is a step of the program.
LEMMA StepProgram == IInv /\ CodeRight /\ [Next]_vars => [Program!Next]_Program!programVars
<1> SUFFICES ASSUME IInv, CodeRight, [Next]_vars
             PROVE  Program!Next \/ UNCHANGED Program!programVars
  OBVIOUS
<1>1. CASE Compile \/ UNCHANGED vars
  <2>1. UNCHANGED <<prog, pc, regs>>
    BY <1>1 DEF Compile, CompileInt, CompileRcp, CompileSwap, CompileBranch, CompileOther, Compiled, vars
  <2>2. QED
    BY <2>1 DEF Program!programVars
<1>2. ASSUME Execute
      PROVE  /\ i = Size /\ pc < Size /\ pc \in 0 .. Size - 1 /\ prog' = prog
             /\ CodeOf(bytecode[pc], prog[pc])
  <2>1. i = Size /\ pc < Size /\ prog' = prog
    BY <1>2 DEF Execute, ExecuteInt, ExecuteSwap, ExecuteBranch, ExecuteOther, Executes, GoOn
  <2>2. pc \in 0 .. Size - 1
    BY <2>1, SizeAssumption DEF IInv, PcInside
  <2>3. QED
    BY <2>1, <2>2 DEF CodeRight
<1> DEFINE at == Effective(prog, pc)
<1>3. CASE ExecuteInt
  <2>1. Execute
    BY <1>3 DEF Execute
  <2>2. /\ prog[pc].op \in {"INT", "IMUL_RCP"} /\ ~IsNop(prog[pc]) /\ bytecode[pc].dst = prog[pc].dst
        /\ pc' = pc + 1
    BY <1>2, <1>3, <2>1 DEF ExecuteInt, Executes, CodeOf, GoOn
  <2>3. at = pc
    BY <1>2, <2>1, <2>2, AtTheInstruction
  <2>4. at' = Effective(prog, pc + 1)
    BY <1>2, <2>1, <2>2
  <2>5. Program!Compute
    BY <1>3, <2>2, <2>3, <2>4, SameMeaning DEF ExecuteInt, Program!Compute, Program!GoOn
  <2>6. QED
    BY <1>2, <2>1, <2>3, <2>5 DEF Program!Next
<1>4. CASE ExecuteSwap
  <2>1. Execute
    BY <1>4 DEF Execute
  <2>2. /\ prog[pc].op = "ISWAP_R" /\ ~IsNop(prog[pc])
        /\ bytecode[pc].dst = prog[pc].dst /\ bytecode[pc].src = prog[pc].src
        /\ pc' = pc + 1
    BY <1>2, <1>4, <2>1 DEF ExecuteSwap, Executes, CodeOf, GoOn
  <2>3. at = pc
    BY <1>2, <2>1, <2>2, AtTheInstruction
  <2>4. at' = Effective(prog, pc + 1)
    BY <1>2, <2>1, <2>2
  <2>5. Program!Swap
    BY <1>4, <2>2, <2>3, <2>4, SameMeaning DEF ExecuteSwap, Program!Swap, Program!GoOn
  <2>6. QED
    BY <1>2, <2>1, <2>3, <2>5 DEF Program!Next
<1>5. CASE ExecuteBranch
  <2>1. Execute
    BY <1>5 DEF Execute
  <2>2. /\ bytecode[pc].type = "CBRANCH" /\ prog[pc].op = "CBRANCH" /\ ~IsNop(prog[pc])
        /\ bytecode[pc].dst = prog[pc].dst
        /\ bytecode[pc].imm = BranchImm(prog[pc]) /\ bytecode[pc].shift = Shift(prog[pc])
    BY <1>2, <1>5, <2>1 DEF ExecuteBranch, Executes, CodeOf, IsNop
  <2>3. at = pc
    BY <1>2, <2>1, <2>2, AtTheInstruction
  <2>4. Target(prog, pc) = bytecode[pc].target + 1
    <3>1. FollowsLastModifier(prog, prog[pc].dst, pc, bytecode[pc].target + 1)
      BY <1>2, <2>1, <2>2 DEF IInv, TargetsRight
    <3>2. pc \in Nat
      BY <1>2, <2>1
    <3>3. QED
      BY <3>1, <3>2, TargetFound
  <2> DEFINE x == Word(regs[prog[pc].dst] + BranchImm(prog[pc]))
  <2>5. /\ regs' = [regs EXCEPT ![prog[pc].dst] = x]
        /\ IF ConditionMet(x, Shift(prog[pc])) THEN pc' = Target(prog, pc) ELSE pc' = pc + 1
    BY <1>5, <2>2, <2>4 DEF ExecuteBranch, Resume
  <2>6. at' = Effective(prog, pc')
    BY <1>2, <2>1
  <2>7. IF ConditionMet(x, Shift(prog[pc])) THEN at' = Effective(prog, Target(prog, pc))
                                           ELSE at' = Effective(prog, pc + 1)
    BY <2>5, <2>6
  <2>8. Program!Branch
    BY <2>2, <2>3, <2>5, <2>7, SameMeaning DEF Program!Branch, Program!GoOn
  <2>9. QED
    BY <1>2, <2>1, <2>3, <2>8 DEF Program!Next
<1>6. CASE ExecuteOther
  <2>1. Execute
    BY <1>6 DEF Execute
  <2>2. pc' = pc + 1 /\ regs' = regs
    BY <1>6 DEF ExecuteOther, GoOn
  <2>3. at' = Effective(prog, pc + 1)
    BY <1>2, <2>1, <2>2
  <2>4. CASE Executes("OTHER")
    <3>1. prog[pc].op = "OTHER" /\ ~IsNop(prog[pc])
      BY <1>2, <2>1, <2>4 DEF Executes, CodeOf, IsNop
    <3>2. at = pc
      BY <1>2, <2>1, <3>1, AtTheInstruction
    <3>3. Program!Other
      BY <2>2, <2>3, <3>1, <3>2, SameMeaning DEF Program!Other, Program!GoOn
    <3>4. QED
      BY <1>2, <2>1, <3>2, <3>3 DEF Program!Next
  <2>5. CASE Executes("NOP")
    <3>1. IsNop(prog[pc])
      BY <1>2, <2>1, <2>5 DEF Executes, CodeOf
    <3>2. at = Effective(prog, pc + 1)
      BY <1>2, <2>1, <3>1, EffectiveIsLater
    <3>3. QED
      BY <1>2, <2>1, <2>2, <2>3, <3>2 DEF Program!programVars
  <2>6. QED
    BY <1>6, <2>4, <2>5 DEF ExecuteOther
<1>7. QED
  BY <1>1, <1>3, <1>4, <1>5, <1>6 DEF Next, Execute

\* Whatever the program: running its bytecode takes the steps of the program, each branch
\* to the instruction the program goes back to, with the same registers after each.
THEOREM BytecodeImplementsProgram == Spec => ImplementsProgram
<1>1. Init => CodeRight
  BY DEF Init, CodeRight
<1>2. Spec => [](IInv /\ CodeRight)
  BY InitInv, NextInv, <1>1, CodeRightInv, PTL DEF Spec
<1>3. Spec => Program!Init /\ [][Program!Next]_Program!programVars
  BY <1>2, InitProgram, StepProgram, PTL DEF Spec
<1>4. QED
  BY <1>3 DEF ImplementsProgram, Program!Spec


-----------------------------------------------------------------------------
(* No branch jumps more than twice in a row: what it adds to its register  *)
(* is odd where its condition begins, and less than half of what would     *)
(* carry into it below.                                                    *)

\* A quotient and a remainder are found by giving them.
LEMMA Quotient ==
    ASSUME NEW b \in Nat \ {0}, NEW q \in Nat, NEW r \in 0 .. b - 1
    PROVE  (b * q + r) \div b = q /\ (b * q + r) % b = r
OBVIOUS

LEMMA Division ==
    ASSUME NEW x \in Nat, NEW b \in Nat \ {0}
    PROVE  x \div b \in Nat /\ x % b \in 0 .. b - 1 /\ x = b * (x \div b) + (x % b)
<1>1. x \in Int /\ b \in Int /\ b > 0
  OBVIOUS
<1>2. x = b * (x \div b) + (x % b)
  BY <1>1
<1>3. x % b \in 0 .. b - 1
  OBVIOUS
<1>4. x \div b \in Nat
  <2>1. x \div b \in Int /\ x \div b >= 0
    OBVIOUS
  <2>2. QED
    BY <2>1
<1>5. QED
  BY <1>2, <1>3, <1>4

\* Whole multiples do not change what is left.
LEMMA Remainder ==
    ASSUME NEW n \in Nat, NEW c \in Nat \ {0}, NEW k \in Int, n - c * k \in Nat
    PROVE  (n - c * k) % c = n % c
<1>1. PICK q \in Nat, r \in 0 .. c - 1 : n = c * q + r /\ r = n % c
  BY Division
<1>2. PICK d \in Int : d = q - k
  BY <1>1
<1>3. n - c * k = c * d + r
  BY <1>1, <1>2
<1>4. d \in Nat
  <2>1. SUFFICES ASSUME d <= -1 PROVE FALSE
    BY <1>2
  <2>2. c * d <= c * (-1)
    BY <2>1
  <2>3. QED
    BY <1>1, <1>3, <2>2
<1>5. (c * d + r) % c = r
  BY <1>1, <1>4, Quotient
<1>6. QED
  BY <1>1, <1>3, <1>5

\* y is the sum of two numbers of parts xb, xl and ab, al around b, modulo all of a register.
IsSum(y, xb, xl, ab, al, b, c, m) == y = ((b * xb + xl) + (b * ab + al)) % (b * c * m)

\* The field above b of a sum, modulo c: what the parts have there and the carry.
Carries(y, xb, xl, ab, al, b, c) ==
    /\ y \in Nat
    /\ xl + al < b => y % b = xl + al /\ (y \div b) % c = (xb + ab) % c
    /\ xl + al >= b => y % b = (xl + al) - b /\ (y \div b) % c = (xb + ab + 1) % c

LEMMA Sum ==
    ASSUME NEW b \in Nat \ {0}, NEW c \in Nat \ {0}, NEW m \in Nat \ {0},
           NEW xb \in Nat, NEW xl \in 0 .. b - 1, NEW ab \in Nat, NEW al \in 0 .. b - 1,
           NEW y, IsSum(y, xb, xl, ab, al, b, c, m)
    PROVE  Carries(y, xb, xl, ab, al, b, c)
<1> DEFINE w == b * c * m
           x == b * xb + xl
           a == b * ab + al
<1>1. w \in Nat \ {0}
  OBVIOUS
<1>2. PICK q \in Nat : x + a = w * q + y /\ y \in Nat
  <2>1. PICK s \in Nat : s = x + a
    OBVIOUS
  <2>2. y = s % w
    BY <2>1 DEF IsSum
  <2> HIDE DEF w, x, a
  <2>3. s \div w \in Nat /\ y \in 0 .. w - 1 /\ s = w * (s \div w) + y
    BY <1>1, <2>2, Division
  <2>4. y \in Nat
    BY <1>1, <2>3
  <2>5. QED
    BY <2>1, <2>3, <2>4
<1>3. x = b * xb + xl /\ a = b * ab + al /\ x \in Nat /\ a \in Nat
  OBVIOUS
<1> HIDE DEF x, a
<1> DEFINE k == m * q
<1>5. k \in Nat /\ w * q = b * (c * k)
  BY <1>2
<1> HIDE DEF k, w
<1>6. ASSUME NEW carry \in {0, 1}, NEW l \in 0 .. b - 1, xl + al = b * carry + l
      PROVE  y % b = l /\ (y \div b) % c = (xb + ab + carry) % c
  <2> DEFINE n == xb + ab + carry
  <2>1. y = b * (n - c * k) + l /\ n \in Nat
    <3>1. y = ((b * xb + xl) + (b * ab + al)) - b * (c * k)
      <4>1. PICK v \in Int : v = w * q
        BY <1>1, <1>2
      <4>2. x + a = v + y
        BY <1>2, <4>1
      <4>3. y = (x + a) - v
        BY <1>2, <1>3, <4>1, <4>2
      <4>4. QED
        BY <1>3, <1>5, <4>1, <4>3
    <3>2. PICK p \in Nat : p = c * k
      BY <1>5
    <3>3. y = ((b * xb + xl) + (b * ab + al)) - b * p
      BY <3>1, <3>2
    <3>4. b * (n - p) + l = ((b * xb + b * ab + b * carry) - b * p) + l
      BY <1>3, <1>6, <3>2
    <3>5. b * carry + l = xl + al
      BY <1>6
    <3>6. b * xb \in Int /\ b * ab \in Int /\ b * p \in Int /\ b * carry \in Int
      BY <1>3, <1>6, <3>2
    <3>7. b * (n - p) + l = y
      BY <1>3, <1>6, <3>3, <3>4, <3>5, <3>6
    <3>8. n \in Nat
      BY <1>3, <1>6
    <3>9. QED
      BY <3>2, <3>7, <3>8
  <2> HIDE DEF n
  <2>2. n - c * k \in Nat
    <3>1. c * k \in Nat
      BY <1>5
    <3>2. PICK d \in Int : d = n - c * k
      BY <2>1, <3>1
    <3>3. SUFFICES ASSUME d <= -1 PROVE FALSE
      BY <3>2
    <3>4. b * d <= b * (-1)
      BY <3>2, <3>3
    <3>5. QED
      BY <1>2, <1>6, <2>1, <3>2, <3>4
  <2>3. y % b = l /\ y \div b = n - c * k
    <3>1. PICK d \in Nat : d = n - c * k
      BY <2>2
    <3>2. y = b * d + l
      BY <2>1, <3>1
    <3>3. (b * d + l) \div b = d /\ (b * d + l) % b = l
      BY <1>6, <3>1, Quotient
    <3>4. QED
      BY <3>1, <3>2, <3>3, Zenon
  <2>4. (n - c * k) % c = n % c
    <3>1. k \in Int
      BY <1>5
    <3>2. QED
      BY <2>1, <2>2, <3>1, Remainder
  <2>5. QED
    BY <2>3, <2>4 DEF n
<1>7. ASSUME xl + al < b
      PROVE  y % b = xl + al /\ (y \div b) % c = (xb + ab) % c
  <2>1. xl + al = b * 0 + (xl + al) /\ xl + al \in 0 .. b - 1 /\ xb + ab + 0 = xb + ab
    BY <1>7
  <2>2. y % b = xl + al /\ (y \div b) % c = (xb + ab + 0) % c
    BY <1>6, <2>1
  <2>3. QED
    BY <2>1, <2>2
<1>8. ASSUME xl + al >= b
      PROVE  y % b = (xl + al) - b /\ (y \div b) % c = (xb + ab + 1) % c
  <2>1. xl + al = b * 1 + ((xl + al) - b) /\ (xl + al) - b \in 0 .. b - 1
    BY <1>8
  <2>2. QED
    BY <1>6, <2>1
<1>9. QED
  BY <1>2, <1>7, <1>8 DEF Carries

\* The widths of the parts of a register, seen from a branch.
LEMMA Widths ==
    ASSUME NEW ins \in Instrs
    PROVE  /\ Shift(ins) \in Nat /\ Bit(Shift(ins)) \in Nat \ {0} /\ Bit(ConditionBits) \in Nat \ {0}
           /\ Shift(ins) = 0 => Bit(Shift(ins)) = 1 /\ ~(ConditionOffset > 0)
           /\ Shift(ins) > 0 => Bit(Shift(ins) - 1) \in Nat \ {0} /\ Bit(Shift(ins)) = 2 * Bit(Shift(ins) - 1)
           /\ \E c \in Nat : Bit(ConditionBits) = 2 * c
           /\ \E m \in Nat \ {0} : Bit(RegisterBits) = Bit(Shift(ins)) * Bit(ConditionBits) * m
<1> DEFINE Law(j, k) == Bit(j + k) = Bit(j) * Bit(k)
<1>1. /\ RegisterBits \in Nat /\ ConditionBits \in Nat \ {0} /\ ConditionOffset \in Nat /\ ins.cond \in Nat
      /\ ins.cond + ConditionOffset + ConditionBits <= RegisterBits
  BY ConditionAssumption, InstrsAssumption DEF Shift
<1>2. Bit(0) = 1 /\ Bit(1) = 2
  <2>1. 2 ^ 0 = 1 /\ 2 ^ 1 = 2
    OBVIOUS
  <2>2. QED
    BY <2>1 DEF Bit
<1>3. ASSUME NEW j \in Nat, NEW k \in Nat, j + k <= RegisterBits
      PROVE  Law(j, k) /\ Bit(j) \in Nat \ {0} /\ Bit(k) \in Nat \ {0}
  <2>1. j \in 0 .. RegisterBits /\ k \in 0 .. RegisterBits
    BY <1>1, <1>3
  <2>2. QED
    BY <1>3, <2>1, BitAssumption
<1> HIDE DEF Law
<1>4. PICK s \in Nat, n \in Nat : s = Shift(ins) /\ s + ConditionBits + n = RegisterBits /\ s = ins.cond + ConditionOffset
  <2> DEFINE n == RegisterBits - (ins.cond + ConditionOffset + ConditionBits)
  <2>1. n \in Nat /\ (ins.cond + ConditionOffset) + ConditionBits + n = RegisterBits
    BY <1>1
  <2>2. ins.cond + ConditionOffset \in Nat
    BY <1>1
  <2>3. QED
    BY <2>1, <2>2 DEF Shift
<1>5. Law(s, ConditionBits + n) /\ Bit(s) \in Nat \ {0}
  BY <1>1, <1>3, <1>4
<1>6. Law(ConditionBits, n) /\ Bit(ConditionBits) \in Nat \ {0} /\ Bit(n) \in Nat \ {0}
  BY <1>1, <1>3, <1>4
<1>7. Bit(RegisterBits) = Bit(s) * Bit(ConditionBits) * Bit(n)
  <2>1. RegisterBits = s + (ConditionBits + n)
    BY <1>1, <1>4
  <2>2. Bit(RegisterBits) = Bit(s) * (Bit(ConditionBits) * Bit(n))
    BY <1>5, <1>6, <2>1 DEF Law
  <2>3. PICK x \in Nat, y \in Nat, z \in Nat : x = Bit(s) /\ y = Bit(ConditionBits) /\ z = Bit(n)
    BY <1>5, <1>6
  <2>4. x * (y * z) = x * y * z
    OBVIOUS
  <2>5. QED
    BY <2>2, <2>3, <2>4
<1>8. \E c \in Nat : Bit(ConditionBits) = 2 * c
  <2>1. PICK k \in Nat : ConditionBits = 1 + k /\ 1 + k <= RegisterBits
    <3>1. ConditionBits - 1 \in Nat /\ ConditionBits = 1 + (ConditionBits - 1) /\ ConditionBits <= RegisterBits
      BY <1>1
    <3>2. QED
      BY <3>1
  <2>2. Law(1, k) /\ Bit(k) \in Nat
    BY <1>3, <2>1
  <2>3. QED
    BY <1>2, <2>1, <2>2 DEF Law
<1>9. ASSUME s > 0
      PROVE  Bit(s - 1) \in Nat \ {0} /\ Bit(s) = 2 * Bit(s - 1)
  <2>1. PICK k \in Nat : k = s - 1 /\ s = 1 + k /\ 1 + k <= RegisterBits
    BY <1>1, <1>4, <1>9
  <2>2. Law(1, k) /\ Bit(k) \in Nat \ {0}
    BY <1>3, <2>1
  <2>3. QED
    BY <1>2, <2>1, <2>2 DEF Law
<1>10. s = 0 => Bit(s) = 1 /\ ~(ConditionOffset > 0)
  BY <1>1, <1>2, <1>4
<1>11. QED
  BY <1>4, <1>5, <1>6, <1>7, <1>8, <1>9, <1>10

\* What a branch adds is odd at its condition and less than half of a carry below it.
LEMMA ImmediateShape ==
    ASSUME NEW ins \in Instrs, NEW b, b = Bit(Shift(ins))
    PROVE  \E q \in Nat, u \in 0 .. b - 1 : BranchImm(ins) = b * q + u /\ q % 2 = 1 /\ 2 * u < b
<1> DEFINE s == Shift(ins)
<1>1. ins.imm \in Nat /\ s \in Nat /\ b \in Nat \ {0}
  BY Widths, InstrsAssumption
<1>2. PICK q0 \in Nat, r \in 0 .. b - 1 : ins.imm = b * q0 + r /\ q0 = ins.imm \div b
  BY <1>1, Division
<1>3. PICK q \in Nat, z \in Nat : z = WithBit(ins.imm, s) /\ z = b * q + r /\ q % 2 = 1
  <2>1. CASE q0 % 2 = 1
    <3>1. WithBit(ins.imm, s) = ins.imm
      BY <1>2, <2>1 DEF WithBit, IsSet
    <3>2. QED
      BY <1>1, <1>2, <2>1, <3>1
  <2>2. CASE q0 % 2 # 1
    <3>1. WithBit(ins.imm, s) = ins.imm + b
      BY <1>2, <2>2 DEF WithBit, IsSet
    <3>2. (q0 + 1) % 2 = 1 /\ q0 + 1 \in Nat
      BY <1>2, <2>2
    <3>3. ins.imm + b = b * (q0 + 1) + r /\ ins.imm + b \in Nat
      BY <1>1, <1>2
    <3>4. QED
      BY <3>1, <3>2, <3>3
  <2>3. QED
    BY <2>1, <2>2
<1>4. BranchImm(ins) = WithoutCarryBit(z, s)
  BY <1>3 DEF BranchImm
<1>5. CASE s = 0
  <2>1. b = 1 /\ ~(ConditionOffset > 0)
    BY <1>5, Widths
  <2>2. BranchImm(ins) = z
    BY <1>4, <1>5, <2>1 DEF WithoutCarryBit
  <2>3. 2 * r < b
    BY <1>2, <2>1
  <2>4. QED
    BY <1>2, <1>3, <2>2, <2>3
<1>6. CASE s > 0
  <2> DEFINE h == Bit(s - 1)
  <2>1. h \in Nat \ {0} /\ b = 2 * h
    BY <1>6, Widths
  <2>2. WithoutCarryBit(z, s) = WithoutBit(z, s - 1)
    BY <1>6 DEF WithoutCarryBit
  <2>3. WithoutBit(z, s - 1) = IF (z \div h) % 2 = 1 THEN z - h ELSE z
    BY DEF WithoutBit, IsSet
  <2> HIDE DEF h
  <2>4. PICK t \in {0, 1}, u \in 0 .. h - 1 : r = h * t + u
    <3>1. CASE r < h
      <4>1. r \in 0 .. h - 1 /\ r = h * 0 + r
        BY <1>2, <2>1, <3>1
      <4>2. QED
        BY <4>1
    <3>2. CASE r >= h
      <4>1. r - h \in 0 .. h - 1 /\ r = h * 1 + (r - h)
        BY <1>2, <2>1, <3>2
      <4>2. QED
        BY <4>1
    <3>3. QED
      BY <1>2, <2>1, <3>1, <3>2
  <2>5. (z \div h) % 2 = t
    <3>1. PICK k \in Nat : k = 2 * q + t
      BY <1>3, <2>4
    <3>2. z = h * k + u
      <4>1. b * q = h * (2 * q)
        BY <1>3, <2>1
      <4>2. h * k = h * (2 * q) + h * t
        BY <1>3, <2>1, <2>4, <3>1
      <4>3. h * (2 * q) \in Int /\ h * t \in Int /\ h * k \in Int
        BY <1>3, <2>1, <2>4, <3>1
      <4>4. QED
        BY <1>3, <2>4, <4>1, <4>2, <4>3
    <3>3. z \div h = k
      <4>1. (h * k + u) \div h = k
        BY <2>1, <2>4, <3>1, Quotient
      <4>2. QED
        BY <3>2, <4>1, Zenon
    <3>4. k % 2 = t
      BY <1>3, <2>4, <3>1
    <3>5. QED
      BY <3>3, <3>4
  <2>6. BranchImm(ins) = b * q + u
    <3>1. PICK p \in Int : p = b * q
      BY <1>1, <1>3
    <3>2. z = p + h * t + u
      BY <1>3, <2>1, <2>4, <3>1
    <3>3. CASE t = 1
      BY <1>4, <2>1, <2>2, <2>3, <2>4, <2>5, <3>1, <3>2, <3>3
    <3>4. CASE t = 0
      BY <1>4, <2>1, <2>2, <2>3, <2>4, <2>5, <3>1, <3>2, <3>4
    <3>5. QED
      BY <2>4, <3>3, <3>4
  <2>7. u \in 0 .. b - 1 /\ 2 * u < b
    BY <2>1, <2>4
  <2>8. QED
    BY <1>3, <2>6, <2>7
<1>7. QED
  BY <1>1, <1>5, <1>6

\* Where a register stands in the range below a branch's condition.
Low(x, ins) == 2 * (x % Bit(Shift(ins))) < Bit(Shift(ins))

\* A branch whose condition was met is met again only by a carry into it, which
\* leaves too little for another one.
LEMMA MetAgain ==
    ASSUME NEW ins \in Instrs, NEW x \in Nat, ConditionMet(x, Shift(ins)),
           NEW y, y = Word(x + BranchImm(ins))
    PROVE  y \in Nat /\ (ConditionMet(y, Shift(ins)) => Low(y, ins) /\ ~Low(x, ins))
<1>1. PICK b \in Nat \ {0}, c \in Nat \ {0} : b = Bit(Shift(ins)) /\ c = Bit(ConditionBits)
  BY Widths
<1>2. PICK m \in Nat \ {0} : Bit(RegisterBits) = b * c * m
  BY <1>1, Widths
<1>3. PICK d \in Nat : c = 2 * d
  BY <1>1, Widths
<1>4. PICK ab \in Nat, al \in 0 .. b - 1 : BranchImm(ins) = b * ab + al /\ ab % 2 = 1 /\ 2 * al < b
  BY <1>1, ImmediateShape
<1>5. (x \div b) % c = 0
  BY <1>1 DEF ConditionMet
<1>6. y = (x + BranchImm(ins)) % (b * c * m)
  BY <1>2 DEF Word
<1>7. ConditionMet(y, Shift(ins)) <=> (y \div b) % c = 0
  BY <1>1 DEF ConditionMet
<1>8. Low(x, ins) <=> 2 * (x % b) < b
  BY <1>1 DEF Low
<1>9. Low(y, ins) <=> 2 * (y % b) < b
  BY <1>1 DEF Low
<1>10. PICK xb \in Nat, xl \in 0 .. b - 1 : x = b * xb + xl /\ xb = x \div b /\ xl = x % b
  BY <1>1, Division
<1>11. IsSum(y, xb, xl, ab, al, b, c, m)
  BY <1>4, <1>6, <1>10 DEF IsSum
<1>12. Carries(y, xb, xl, ab, al, b, c)
  <2>1. m \in Nat \ {0} /\ xb \in Nat /\ xl \in 0 .. b - 1 /\ ab \in Nat /\ al \in 0 .. b - 1
    BY <1>2, <1>4, <1>10
  <2>2. QED
    BY <1>1, <1>11, <2>1, Sum
<1>13. (xb + ab) % c # 0
  <2>1. SUFFICES ASSUME (xb + ab) % c = 0 PROVE FALSE
    OBVIOUS
  <2>2. PICK g \in Nat : xb = c * g
    <3>1. xb % c = 0
      BY <1>5, <1>10
    <3>2. xb = c * (xb \div c) + (xb % c) /\ xb \div c \in Nat
      BY <1>1, <1>10, Division
    <3>3. PICK g \in Nat : g = xb \div c
      BY <3>2
    <3>4. xb = c * g
      BY <1>1, <3>1, <3>2, <3>3
    <3>5. QED
      BY <3>4
  <2>3. PICK f \in Nat : xb + ab = c * f
    <3>1. PICK n \in Nat : n = xb + ab
      BY <1>4, <1>10
    <3>2. n = c * (n \div c) + (n % c) /\ n \div c \in Nat
      BY <1>1, <3>1, Division
    <3>3. n % c = 0
      BY <2>1, <3>1
    <3>4. PICK f \in Nat : f = n \div c
      BY <3>2
    <3>5. n = c * f
      BY <1>1, <3>2, <3>3, <3>4
    <3>6. QED
      BY <3>1, <3>5
  <2>4. PICK k \in Int : k = d * (f - g)
    BY <1>3, <2>2, <2>3
  <2>5. ab = 2 * k
    <3>1. ab = c * f - c * g
      BY <1>4, <2>2, <2>3
    <3>2. c * f - c * g = 2 * (d * (f - g))
      BY <1>3, <2>2, <2>3
    <3>3. QED
      BY <2>4, <3>1, <3>2
  <2>6. QED
    BY <1>4, <2>5
<1>14. ASSUME ConditionMet(y, Shift(ins))
       PROVE  Low(y, ins) /\ ~Low(x, ins)
  <2>1. (y \div b) % c = 0
    BY <1>7, <1>14
  <2>2. xl + al >= b
    BY <1>1, <1>4, <1>10, <1>12, <1>13, <2>1 DEF Carries
  <2>3. y % b = (xl + al) - b
    BY <1>12, <2>2 DEF Carries
  <2>4. 2 * ((xl + al) - b) < b /\ ~(2 * xl < b)
    <3>1. xl \in Int /\ xl < b /\ al \in Int /\ 2 * al < b
      BY <1>4, <1>10
    <3>2. QED
      BY <2>2, <3>1
  <2>5. QED
    BY <1>8, <1>9, <1>10, <2>3, <2>4
<1>15. QED
  BY <1>12, <1>14 DEF Carries

\* The last branch has jumped and the program is on its way back to it: nothing on
\* the way changes its register.
OnTheWay(j) ==
    /\ i = Size /\ j \in 0 .. Size - 1 /\ prog[j].op = "CBRANCH"
    /\ pc \in bytecode[j].target + 1 .. j
    /\ ConditionMet(regs[prog[j].dst], Shift(prog[j]))
    /\ streak = 2 => Low(regs[prog[j].dst], prog[j])

JumpsInv ==
    /\ regs \in [Registers -> Nat]
    /\ streak \in 0 .. 2
    /\ streak > 0 => \E j \in 0 .. Size - 1 : OnTheWay(j)

\* What a step of the bytecode works on.
LEMMA ExecutesThere ==
    ASSUME IInv, CodeRight, Execute
    PROVE  /\ i = Size /\ pc \in 0 .. Size - 1 /\ CodeOf(bytecode[pc], prog[pc])
           /\ prog[pc] \in Instrs /\ prog[pc].dst \in Registers /\ prog[pc].src \in Registers
           /\ UNCHANGED <<prog, i, bytecode>>
<1>1. i = Size /\ pc < Size /\ UNCHANGED <<prog, i, bytecode>>
  BY DEF Execute, ExecuteInt, ExecuteSwap, ExecuteBranch, ExecuteOther, Executes, GoOn
<1>2. pc \in 0 .. Size - 1 /\ pc \in Indices
  BY <1>1, SizeAssumption DEF IInv, PcInside, Indices
<1>3. prog[pc] \in Instrs
  BY <1>2 DEF IInv, CompileTypes
<1>4. QED
  BY <1>1, <1>2, <1>3, InstrsAssumption DEF CodeRight

\* An instruction that is no branch changes the registers it is said to modify.
LEMMA StepOfPlain ==
    ASSUME IInv, CodeRight, JumpsInv, ExecuteInt \/ ExecuteSwap \/ ExecuteOther
    PROVE  /\ regs' \in [Registers -> Nat] /\ streak' = streak /\ pc' = pc + 1
           /\ prog[pc].op # "CBRANCH"
           /\ \A r \in Registers : r \notin Modified(prog[pc]) => regs'[r] = regs[r]
<1>1. /\ i = Size /\ pc \in 0 .. Size - 1 /\ CodeOf(bytecode[pc], prog[pc])
      /\ prog[pc].dst \in Registers /\ prog[pc].src \in Registers
  BY ExecutesThere DEF Execute
<1>2. streak' = streak /\ pc' = pc + 1
  BY DEF ExecuteInt, ExecuteSwap, ExecuteOther, GoOn
<1>3. CASE ExecuteInt
  <2>1. prog[pc].op \in {"INT", "IMUL_RCP"} /\ ~IsNop(prog[pc]) /\ bytecode[pc].dst = prog[pc].dst
    BY <1>1, <1>3 DEF ExecuteInt, Executes, CodeOf
  <2>2. PICK x \in Values : regs' = [regs EXCEPT ![prog[pc].dst] = x]
    BY <1>3, <2>1 DEF ExecuteInt
  <2>3. x \in Nat
    BY <2>2, ValuesAssumption
  <2>4. Modified(prog[pc]) = {prog[pc].dst} /\ prog[pc].op # "CBRANCH"
    BY <2>1 DEF Modified
  <2>5. QED
    BY <1>1, <1>2, <2>2, <2>3, <2>4 DEF JumpsInv
<1>4. CASE ExecuteSwap
  <2>1. /\ prog[pc].op = "ISWAP_R" /\ ~IsNop(prog[pc])
        /\ bytecode[pc].dst = prog[pc].dst /\ bytecode[pc].src = prog[pc].src
    BY <1>1, <1>4 DEF ExecuteSwap, Executes, CodeOf
  <2>2. regs' = [regs EXCEPT ![prog[pc].dst] = regs[prog[pc].src], ![prog[pc].src] = regs[prog[pc].dst]]
    BY <1>4, <2>1 DEF ExecuteSwap
  <2>3. Modified(prog[pc]) = {prog[pc].dst, prog[pc].src}
    BY <2>1 DEF Modified
  <2>4. QED
    BY <1>1, <1>2, <2>1, <2>2, <2>3 DEF JumpsInv
<1>5. CASE ExecuteOther
  <2>1. regs' = regs
    BY <1>5 DEF ExecuteOther
  <2>2. prog[pc].op = "OTHER" \/ IsNop(prog[pc])
    BY <1>1, <1>5 DEF ExecuteOther, Executes, CodeOf
  <2>3. prog[pc].op # "CBRANCH"
    BY <2>2 DEF IsNop
  <2>4. QED
    BY <1>2, <2>1, <2>3 DEF JumpsInv
<1>6. QED
  BY <1>3, <1>4, <1>5

LEMMA JumpsStep == IInv /\ CodeRight /\ JumpsInv /\ [Next]_vars => JumpsInv'
<1> SUFFICES ASSUME IInv, CodeRight, JumpsInv, [Next]_vars PROVE JumpsInv'
  OBVIOUS
<1>1. CASE Compile
  <2>1. i < Size /\ UNCHANGED <<pc, regs, streak>>
    BY <1>1 DEF Compile, CompileInt, CompileRcp, CompileSwap, CompileBranch, CompileOther, Compiles, Compiled
  <2>2. streak = 0
    BY <2>1, SizeAssumption DEF JumpsInv, OnTheWay
  <2>3. QED
    BY <2>1, <2>2 DEF JumpsInv
<1>2. CASE UNCHANGED vars
  <2>1. \A j : OnTheWay(j) => OnTheWay(j)'
    BY <1>2 DEF vars, OnTheWay
  <2>2. QED
    BY <1>2, <2>1 DEF vars, JumpsInv
<1>3. CASE ExecuteInt \/ ExecuteSwap \/ ExecuteOther
  <2>1. /\ regs' \in [Registers -> Nat] /\ streak' = streak /\ pc' = pc + 1
        /\ prog[pc].op # "CBRANCH"
        /\ \A r \in Registers : r \notin Modified(prog[pc]) => regs'[r] = regs[r]
    BY <1>3, StepOfPlain
  <2>2. UNCHANGED <<prog, i, bytecode>> /\ i = Size /\ pc \in 0 .. Size - 1
    BY <1>3, ExecutesThere DEF Execute
  <2>3. ASSUME NEW j \in 0 .. Size - 1, OnTheWay(j)
        PROVE  OnTheWay(j)'
    <3>1. j \in Indices /\ prog[j] \in Instrs /\ prog[j].dst \in Registers
      BY SizeAssumption, InstrsAssumption DEF IInv, CompileTypes, Indices
    <3>2. FollowsLastModifier(prog, prog[j].dst, j, bytecode[j].target + 1)
      BY <2>2, <2>3, SizeAssumption DEF IInv, TargetsRight, OnTheWay
    <3>3. pc # j /\ pc \in bytecode[j].target + 1 .. j
      BY <2>1, <2>3 DEF OnTheWay
    <3>4. bytecode[j].target + 1 \in 0 .. j
      BY <3>2 DEF FollowsLastModifier
    <3>5. pc \in bytecode[j].target + 1 .. j - 1 /\ pc + 1 \in bytecode[j].target + 1 .. j
      BY <2>2, <3>3, <3>4, SizeAssumption
    <3>6. regs'[prog[j].dst] = regs[prog[j].dst]
      BY <2>1, <3>1, <3>2, <3>5 DEF FollowsLastModifier
    <3>7. QED
      BY <2>1, <2>2, <2>3, <3>5, <3>6 DEF OnTheWay
  <2>4. QED
    BY <2>1, <2>3 DEF JumpsInv
<1>4. CASE ExecuteBranch
  <2>1. /\ i = Size /\ pc \in 0 .. Size - 1 /\ CodeOf(bytecode[pc], prog[pc])
        /\ prog[pc] \in Instrs /\ prog[pc].dst \in Registers
        /\ UNCHANGED <<prog, i, bytecode>>
    BY <1>4, ExecutesThere DEF Execute
  <2>2. PICK ins \in Instrs : ins = prog[pc]
    BY <2>1
  <2>3. PICK r \in Registers : r = ins.dst
    BY <2>1, <2>2
  <2>4. /\ ins.op = "CBRANCH" /\ bytecode[pc].dst = r
        /\ bytecode[pc].imm = BranchImm(ins) /\ bytecode[pc].shift = Shift(ins)
    BY <1>4, <2>1, <2>2, <2>3 DEF ExecuteBranch, Executes, CodeOf
  <2>5. PICK y : y = Word(regs[r] + BranchImm(ins))
    OBVIOUS
  <2>6. /\ regs' = [regs EXCEPT ![r] = y]
        /\ \/ ConditionMet(y, Shift(ins)) /\ pc' = bytecode[pc].target + 1 /\ streak' = OneMore(streak)
           \/ ~ConditionMet(y, Shift(ins)) /\ streak' = 0
    BY <1>4, <2>4, <2>5 DEF ExecuteBranch, Resume
  <2>7. regs[r] \in Nat
    BY DEF JumpsInv
  <2>8. y \in Nat
    <3>1. BranchImm(ins) \in Nat
      <4>1. PICK q \in Nat, u \in 0 .. Bit(Shift(ins)) - 1 : BranchImm(ins) = Bit(Shift(ins)) * q + u
        BY ImmediateShape
      <4>2. Bit(Shift(ins)) \in Nat
        BY Widths
      <4>3. QED
        BY <4>1, <4>2
    <3>2. Bit(RegisterBits) \in Nat \ {0}
      BY ConditionAssumption, BitAssumption
    <3>3. PICK n \in Nat : n = regs[r] + BranchImm(ins)
      BY <2>7, <3>1
    <3>4. n % Bit(RegisterBits) \in 0 .. Bit(RegisterBits) - 1
      BY <3>2, Division
    <3>5. QED
      BY <2>5, <3>2, <3>3, <3>4 DEF Word
  <2>9. regs' \in [Registers -> Nat] /\ regs'[r] = y
    BY <2>6, <2>8 DEF JumpsInv
  <2>10. CASE ~ConditionMet(y, Shift(ins))
    BY <2>6, <2>9, <2>10 DEF JumpsInv
  <2>11. CASE ConditionMet(y, Shift(ins))
    <3>1. pc' = bytecode[pc].target + 1 /\ streak' = OneMore(streak)
      BY <2>6, <2>11
    <3>2. pc' \in bytecode[pc].target + 1 .. pc
      <4>1. FollowsLastModifier(prog, prog[pc].dst, pc, bytecode[pc].target + 1)
        BY <2>1, <2>2, <2>4 DEF IInv, TargetsRight
      <4>2. pc' \in 0 .. pc
        BY <3>1, <4>1 DEF FollowsLastModifier
      <4>3. QED
        BY <2>1, <3>1, <4>2
    <3>3. ASSUME streak > 0
          PROVE  Low(y, ins) /\ ~Low(regs[r], ins) /\ streak # 2
      <4>1. PICK j \in 0 .. Size - 1 : OnTheWay(j)
        BY <3>3 DEF JumpsInv
      <4>2. j = pc
        <5>1. FollowsLastModifier(prog, prog[j].dst, j, bytecode[j].target + 1)
          BY <2>1, <4>1, SizeAssumption DEF IInv, TargetsRight, OnTheWay
        <5>2. SUFFICES ASSUME pc # j PROVE FALSE
          OBVIOUS
        <5>3. pc \in bytecode[j].target + 1 .. j - 1
          <6>1. bytecode[j].target + 1 \in 0 .. j
            BY <5>1 DEF FollowsLastModifier
          <6>2. QED
            BY <2>1, <4>1, <5>2, <6>1 DEF OnTheWay
        <5>4. prog[j].dst \notin Modified(prog[pc])
          BY <5>1, <5>3 DEF FollowsLastModifier
        <5>5. Modified(prog[pc]) = Registers
          BY <2>2, <2>4 DEF Modified, IsNop
        <5>6. prog[j].dst \in Registers
          BY SizeAssumption, InstrsAssumption DEF IInv, CompileTypes, Indices
        <5>7. QED
          BY <5>4, <5>5, <5>6
      <4>3. ConditionMet(regs[r], Shift(ins)) /\ (streak = 2 => Low(regs[r], ins))
        BY <2>2, <2>3, <4>1, <4>2 DEF OnTheWay
      <4>4. QED
        BY <2>5, <2>7, <2>11, <4>3, MetAgain
    <3>4. streak' \in 0 .. 2 /\ (streak' = 2 => streak > 0) /\ streak' > 0
      BY <3>1, <3>3 DEF JumpsInv, OneMore, MaxStreak
    <3>5. PICK j \in 0 .. Size - 1 : j = pc
      BY <2>1
    <3>6. OnTheWay(j)'
      <4>1. prog[j] = ins /\ pc' \in bytecode[j].target + 1 .. j
        BY <2>2, <3>2, <3>5
      <4>2. QED
        BY <2>1, <2>3, <2>4, <2>9, <2>11, <3>3, <3>4, <4>1 DEF OnTheWay
    <3>7. QED
      BY <2>9, <3>4, <3>6 DEF JumpsInv
  <2>12. QED
    BY <2>10, <2>11
<1>5. QED
  BY <1>1, <1>2, <1>3, <1>4 DEF Next, Execute

\* "this limits the number of successive jumps to 2" (bytecode_machine.cpp:443):
\* so it does, for registers, conditions and immediates of any width.
THEOREM JumpsAreLimited == Spec => []AtMostTwoJumps
<1>1. Init => CodeRight /\ JumpsInv
  <2> SUFFICES ASSUME Init PROVE CodeRight /\ JumpsInv
    OBVIOUS
  <2>1. i = 0 /\ streak = 0 /\ regs \in [Registers -> Values]
    BY DEF Init
  <2>2. regs \in [Registers -> Nat]
    BY <2>1, ValuesAssumption
  <2>3. QED
    BY <2>1, <2>2 DEF CodeRight, JumpsInv
<1>2. JumpsInv => AtMostTwoJumps
  BY DEF JumpsInv, AtMostTwoJumps
<1>3. QED
  BY InitInv, NextInv, <1>1, <1>2, CodeRightInv, JumpsStep, PTL DEF Spec
=============================================================================
