-------------------------- MODULE NativeCodeProofs --------------------------
(***************************************************************************)
(* Proofs about NativeCode for any program, any lengths of code and any    *)
(* reach of the short branches.                                            *)
(***************************************************************************)
EXTENDS NativeCode, TLAPS

-----------------------------------------------------------------------------
(* What it means to follow the last modifier of a register, for programs   *)
(* and registers of any kind.                                              *)

\* An instruction that leaves a register alone leaves its last modifier where it was.
LEMMA LeftAlone ==
    ASSUME NEW p, NEW r, NEW n \in Nat, NEW t,
           FollowsLastModifier(p, r, n, t), r \notin Modified(p[n])
    PROVE  FollowsLastModifier(p, r, n + 1, t)
<1>1. t \in 0 .. n + 1 /\ (t = 0 \/ r \in Modified(p[t - 1]))
  BY DEF FollowsLastModifier
<1>2. ASSUME NEW j \in t .. (n + 1) - 1
      PROVE  r \notin Modified(p[j])
  <2>1. CASE j = n
    BY <2>1
  <2>2. CASE j # n
    <3>1. t \in 0 .. n /\ j \in t .. n - 1
      BY <1>2, <2>2 DEF FollowsLastModifier
    <3>2. QED
      BY <3>1 DEF FollowsLastModifier
  <2>3. QED
    BY <2>1, <2>2
<1>3. QED
  BY <1>1, <1>2 DEF FollowsLastModifier

\* An instruction that modifies a register is its last modifier.
LEMMA JustModified ==
    ASSUME NEW p, NEW r, NEW n \in Nat, r \in Modified(p[n])
    PROVE  FollowsLastModifier(p, r, n + 1, n + 1)
<1>1. n + 1 \in 0 .. n + 1 /\ (n + 1) - 1 = n /\ (n + 1) .. (n + 1) - 1 = {}
  OBVIOUS
<1>2. QED
  BY <1>1 DEF FollowsLastModifier

\* Before the first instruction nothing is modified.
LEMMA NothingModified ==
    ASSUME NEW p, NEW r
    PROVE  FollowsLastModifier(p, r, 0, 0)
BY DEF FollowsLastModifier

\* There is only one place that follows the last modifier.
LEMMA OneTarget ==
    ASSUME NEW p, NEW r, NEW n \in Nat, NEW s, NEW t,
           FollowsLastModifier(p, r, n, s), FollowsLastModifier(p, r, n, t)
    PROVE  s = t
<1>1. s \in 0 .. n /\ t \in 0 .. n
  BY DEF FollowsLastModifier
<1>2. CASE s < t
  <2>1. t - 1 \in s .. n - 1 /\ t # 0
    BY <1>1, <1>2
  <2>2. QED
    BY <2>1 DEF FollowsLastModifier
<1>3. CASE t < s
  <2>1. s - 1 \in t .. n - 1 /\ s # 0
    BY <1>1, <1>3
  <2>2. QED
    BY <2>1 DEF FollowsLastModifier
<1>4. QED
  BY <1>1, <1>2, <1>3

\* Hence the target of a branch is the place that was found to be it.
LEMMA TargetFound ==
    ASSUME NEW p, NEW n \in Nat, NEW t, FollowsLastModifier(p, p[n].dst, n, t)
    PROVE  Target(p, n) = t
<1>1. t \in 0 .. n
  BY DEF FollowsLastModifier
<1>2. FollowsLastModifier(p, p[n].dst, n, Target(p, n))
  BY <1>1 DEF Target
<1>3. QED
  BY <1>2, OneTarget

\* What follows an instruction that has an effect does not matter to which one is next.
LEMMA EffectiveIsHere ==
    ASSUME NEW p, NEW n \in 0 .. Size - 1, ~IsNop(p[n])
    PROVE  Effective(p, n) = n
<1> DEFINE P(e) == /\ e = Size \/ ~IsNop(p[e])
                   /\ \A j \in n .. e - 1 : IsNop(p[j])
<1>1. n \in n .. Size /\ P(n)
  BY SizeAssumption
<1>2. \A e \in n .. Size : P(e) => e = n
  BY SizeAssumption
<1>3. QED
  BY <1>1, <1>2 DEF Effective

\* Instructions without effect leave it to the ones that follow.
LEMMA EffectiveIsPast ==
    ASSUME NEW p, NEW a \in 0 .. Size, NEW b \in a .. Size, \A j \in a .. b - 1 : IsNop(p[j])
    PROVE  Effective(p, a) = Effective(p, b)
<1> DEFINE P(k, e) == /\ e \in k .. Size
                      /\ e = Size \/ ~IsNop(p[e])
                      /\ \A j \in k .. e - 1 : IsNop(p[j])
<1>1. ASSUME NEW e
      PROVE  P(a, e) <=> P(b, e)
  <2>1. CASE e \in b .. Size
    <3>1. a .. e - 1 = (a .. b - 1) \cup (b .. e - 1)
      BY <2>1, SizeAssumption
    <3>2. QED
      BY <2>1, <3>1, SizeAssumption
  <2>2. CASE e \notin b .. Size
    <3>1. e \in a .. Size => e \in a .. b - 1 /\ e # Size
      BY <2>2, SizeAssumption
    <3>2. QED
      BY <2>2, <3>1, SizeAssumption
  <2>3. QED
    BY <2>1, <2>2
<1>2. (CHOOSE e : P(a, e)) = (CHOOSE e : P(b, e))
  <2> HIDE DEF P
  <2>1. QED
    BY <1>1
<1>3. \A k : Effective(p, k) = CHOOSE e : P(k, e)
  BY DEF Effective
<1>4. QED
  BY <1>2, <1>3

\* So does a single one.
LEMMA EffectiveIsLater ==
    ASSUME NEW p, NEW n \in 0 .. Size - 1, IsNop(p[n])
    PROVE  Effective(p, n) = Effective(p, n + 1)
<1>1. /\ n \in 0 .. Size /\ n + 1 \in n .. Size
      /\ \A j \in n .. (n + 1) - 1 : IsNop(p[j])
  BY SizeAssumption
<1>2. QED
  BY <1>1, EffectiveIsPast

-----------------------------------------------------------------------------
(* What is known of the code.                                              *)

\* Where the code of instruction t starts, or will start.
StartOf(t) == IF t = i THEN codePos ELSE native[t].start

CodeTypes ==
    /\ backend \in Backends
    /\ prog \in [Indices -> Instrs]
    /\ i \in 0 .. Size
    /\ codePos \in Int
    /\ lastModified \in [Registers -> Int]
    /\ DOMAIN native = Indices
    /\ \A j \in 0 .. i - 1 : native[j].start \in Int

\* What is noted of a register identifies the instruction after its last modifier.
Noted(r, t) ==
    /\ FollowsLastModifier(prog, r, i, t)
    /\ lastModified[r] = IF ByNumber THEN t - 1 ELSE StartOf(t)
NotedRight == \A r \in Registers : \E t \in 0 .. i : Noted(r, t)

\* The branches generated have a target among the instructions before them.
TargetsExist == \A j \in 0 .. i - 1 : prog[j].op = "CBRANCH" => Target(prog, j) \in 0 .. j

IInv == CodeTypes /\ NotedRight /\ TargetsExist /\ BranchesLand

LEMMA InitInv == Init => IInv
<1> SUFFICES ASSUME Init PROVE IInv
  OBVIOUS
<1>1. CodeTypes /\ TargetsExist /\ BranchesLand
  BY SizeAssumption DEF Init, CodeTypes, TargetsExist, BranchesLand, Indices
<1>2. ASSUME NEW r \in Registers PROVE Noted(r, 0)
  <2>1. FollowsLastModifier(prog, r, i, 0)
    BY NothingModified DEF Init
  <2>2. QED
    BY <2>1 DEF Noted, Init, StartOf
<1>3. 0 \in 0 .. i
  BY DEF Init
<1>4. QED
  BY <1>1, <1>2, <1>3 DEF IInv, NotedRight

\* A branch is sent to the start of the instruction after the last modifier.
LEMMA DestinationRight ==
    ASSUME IInv, i < Size, NEW r \in Registers, NEW t, Noted(r, t)
    PROVE  Destination(r) = StartOf(t) /\ Destination(r) \in Int
<1>1. t \in 0 .. i /\ i \in Nat
  BY SizeAssumption DEF Noted, FollowsLastModifier, IInv, CodeTypes
<1>2. StartOf(t) \in Int
  BY <1>1 DEF StartOf, IInv, CodeTypes
<1>3. CASE ByNumber
  <2>1. lastModified[r] + 1 = t
    BY <1>1, <1>3 DEF Noted
  <2>2. QED
    BY <1>2, <1>3, <2>1 DEF Destination, StartOf
<1>4. CASE ~ByNumber
  BY <1>2, <1>4 DEF Destination, Noted
<1>5. QED
  BY <1>3, <1>4

\* Code for one instruction: what is noted as modified is what it modifies, and
\* a branch goes where Destination says.
LEMMA EmittedInv ==
    ASSUME IInv, i < Size, NEW used, used \cap Registers = Modified(prog[i]) \cap Registers,
           NEW end \in Int, NEW from, NEW disp, Emit(end, from, disp), Modifies(used, end),
           prog[i].op = "CBRANCH" => from + disp = Destination(prog[i].dst)
    PROVE  IInv'
<1>1. /\ i \in Nat /\ i' = i + 1 /\ i \in Indices /\ i' \in 0 .. Size
      /\ prog' = prog /\ backend' = backend /\ codePos' = end /\ codePos \in Int
  BY SizeAssumption DEF IInv, CodeTypes, Emit, Indices
<1>2. /\ native'[i] = [start |-> codePos, end |-> end, from |-> from, disp |-> disp]
      /\ \A j \in 0 .. i - 1 : native'[j] = native[j]
      /\ DOMAIN native' = Indices
  BY <1>1 DEF IInv, CodeTypes, Emit, Indices
<1>3. \A t \in 0 .. i : StartOf(t) = native'[t].start
  BY <1>1, <1>2 DEF StartOf
<1>4. \A t \in 0 .. i : StartOf(t)' = StartOf(t)
  BY <1>1, <1>3 DEF StartOf
<1>5. ByNumber' = ByNumber
  BY <1>1 DEF ByNumber
<1>6. ModifiedAt(end) = IF ByNumber THEN i ELSE end
  BY BackendsAssumption
     DEF IInv, CodeTypes, ModifiedAt, ByNumber, NotedX86, NotedRv64, NotedA64, NotedRv64Vector
<1>7. CodeTypes'
  <2>1. lastModified' \in [Registers -> Int]
    BY <1>1, <1>6 DEF IInv, CodeTypes, Modifies
  <2>2. \A j \in 0 .. i' - 1 : native'[j].start \in Int
    <3>1. \A j \in 0 .. i' - 1 : j = i \/ j \in 0 .. i - 1
      BY <1>1
    <3>2. QED
      BY <1>1, <1>2, <3>1 DEF IInv, CodeTypes
  <2>3. QED
    BY <1>1, <1>2, <2>1, <2>2 DEF IInv, CodeTypes
<1>8. NotedRight'
  <2>1. ASSUME NEW r \in Registers PROVE \E t \in 0 .. i' : Noted(r, t)'
    <3>1. PICK t \in 0 .. i : Noted(r, t)
      BY DEF IInv, NotedRight
    <3>2. CASE r \in Modified(prog[i])
      <4>1. FollowsLastModifier(prog, r, i + 1, i + 1)
        BY <1>1, <3>2, JustModified
      <4>2. lastModified'[r] = IF ByNumber THEN i ELSE end
        BY <1>6, <3>2 DEF Modifies
      <4>3. Noted(r, i)'
        BY <1>1, <1>5, <4>1, <4>2 DEF Noted, StartOf
      <4>4. i' \in 0 .. i'
        BY <1>1
      <4>5. QED
        BY <4>3, <4>4 DEF Noted, StartOf
    <3>3. CASE r \notin Modified(prog[i])
      <4>1. FollowsLastModifier(prog, r, i + 1, t)
        BY <1>1, <3>1, <3>3, LeftAlone DEF Noted
      <4>2. lastModified'[r] = lastModified[r]
        BY <3>3 DEF Modifies
      <4>3. Noted(r, t)'
        BY <1>1, <1>4, <1>5, <3>1, <4>1, <4>2 DEF Noted
      <4>4. t \in 0 .. i'
        BY <1>1
      <4>5. QED
        BY <4>3, <4>4
    <3>4. QED
      BY <3>2, <3>3
  <2>2. QED
    BY <2>1 DEF NotedRight
<1>9. ASSUME prog[i].op = "CBRANCH"
      PROVE  Target(prog, i) \in 0 .. i /\ native'[i].from + native'[i].disp = StartOf(Target(prog, i))
  <2>1. prog[i].dst \in Registers
    BY <1>1, InstrsAssumption DEF IInv, CodeTypes
  <2>2. PICK t \in 0 .. i : Noted(prog[i].dst, t)
    BY <2>1 DEF IInv, NotedRight
  <2>3. Target(prog, i) = t
    BY <1>1, <2>2, TargetFound DEF Noted
  <2>4. from + disp = StartOf(t)
    BY <1>9, <2>1, <2>2, DestinationRight
  <2>5. QED
    BY <1>2, <2>3, <2>4
<1>10. ASSUME NEW j \in 0 .. i, prog[j].op = "CBRANCH"
       PROVE  /\ Target(prog, j) \in 0 .. j
              /\ native'[j].from + native'[j].disp = native'[Target(prog, j)].start
  <2>1. CASE j = i
    BY <1>3, <1>9, <1>10, <2>1
  <2>2. CASE j # i
    <3>1. j \in 0 .. i - 1
      BY <1>1, <2>2
    <3>2. Target(prog, j) \in 0 .. j
      BY <1>10, <3>1 DEF IInv, TargetsExist
    <3>3. Target(prog, j) \in 0 .. i - 1
      BY <1>1, <3>1, <3>2
    <3>4. QED
      BY <1>2, <1>10, <3>1, <3>2, <3>3 DEF IInv, BranchesLand
  <2>3. QED
    BY <2>1, <2>2
<1>11. TargetsExist' /\ BranchesLand'
  BY <1>1, <1>10 DEF TargetsExist, BranchesLand
<1>12. QED
  BY <1>7, <1>8, <1>11 DEF IInv

\* Code without a branch.
LEMMA StraightInv ==
    ASSUME IInv, i < Size, prog[i].op # "CBRANCH",
           NEW used, used \cap Registers = Modified(prog[i]) \cap Registers,
           NEW lengths \in SUBSET Nat, Straight(used, lengths)
    PROVE  IInv'
<1>1. PICK n \in lengths : Emit(codePos + n, None, 0) /\ Modifies(used, codePos + n)
  BY DEF Straight
<1>2. codePos + n \in Int
  BY DEF IInv, CodeTypes
<1>3. QED
  BY <1>1, <1>2, EmittedInv

\* The code of a branch that goes where Destination says.
LEMMA BranchInv ==
    ASSUME IInv, Compiles("CBRANCH"), NEW end \in Int, NEW from \in Int,
           NEW disp, Branch(end, from, disp),
           Destination(prog[i].dst) \in Int => from + disp = Destination(prog[i].dst)
    PROVE  IInv'
<1>1. i < Size /\ prog[i].op = "CBRANCH"
  BY DEF Compiles, Instruction
<1>2. i \in Indices /\ prog[i].dst \in Registers
  BY <1>1, SizeAssumption, InstrsAssumption DEF IInv, CodeTypes, Indices
<1>3. PICK t \in 0 .. i : Noted(prog[i].dst, t)
  BY <1>2 DEF IInv, NotedRight
<1>4. from + disp = Destination(prog[i].dst)
  BY <1>1, <1>2, <1>3, DestinationRight
<1>5. Registers \cap Registers = Modified(prog[i]) \cap Registers
  BY <1>1 DEF Modified, IsNop
<1>6. QED
  BY <1>1, <1>4, <1>5, EmittedInv DEF Branch

\* The four ways to generate a branch.
LEMMA BranchesInv ==
    ASSUME IInv,
           \/ CompileBranchX86 \/ CompileBranchA64
           \/ CompileBranchRv64 \/ CompileBranchRv64Vector
    PROVE  IInv'
<1> DEFINE D == Destination(prog[i].dst)
<1>1. Compiles("CBRANCH") /\ codePos \in Int
  BY DEF CompileBranchX86, CompileBranchA64, CompileBranchRv64, CompileBranchRv64Vector, IInv, CodeTypes
<1>2. D \in Int
  <2>1. i \in Indices /\ i < Size /\ prog[i].dst \in Registers
    BY <1>1, SizeAssumption, InstrsAssumption DEF IInv, CodeTypes, Indices, Compiles
  <2>2. PICK t \in 0 .. i : Noted(prog[i].dst, t)
    BY <2>1 DEF IInv, NotedRight
  <2>3. QED
    BY <2>1, <2>2, DestinationRight
<1> HIDE DEF D
<1>3. CASE CompileBranchX86
  <2>1. PICK n \in Lengths : Branch(codePos + n + 3, codePos + n + 3, D - (codePos + n + 3))
    <3>1. PICK n \in Lengths : Branch((codePos + n + 1) + 2, (codePos + n + 1) + 2, D - ((codePos + n + 1) + 2))
      BY <1>3 DEF CompileBranchX86, D, Instruction
    <3>2. (codePos + n + 1) + 2 = codePos + n + 3
      BY <1>1, LengthsAssumption
    <3>3. QED
      BY <3>1, <3>2
  <2>2. /\ codePos + n + 3 \in Int
        /\ (codePos + n + 3) + (D - (codePos + n + 3)) = D
    BY <1>1, <1>2, LengthsAssumption
  <2>3. QED
    BY <1>1, <2>1, <2>2, BranchInv DEF D
<1>4. CASE CompileBranchA64
  <2>1. PICK n \in Lengths : Branch(codePos + n + 2, codePos + n, D - (codePos + n))
    BY <1>4 DEF CompileBranchA64, D, Instruction
  <2>2. /\ codePos + n \in Int /\ codePos + n + 2 \in Int
        /\ (codePos + n) + (D - (codePos + n)) = D
    BY <1>1, <1>2, LengthsAssumption
  <2>3. QED
    BY <1>1, <2>1, <2>2, BranchInv DEF D
<1>5. CASE CompileBranchRv64
  <2>1. PICK n \in Lengths :
           \/ Branch((codePos + n) + 1, codePos + n, D - (codePos + n))
           \/ Branch((codePos + n) + 2, codePos + n, D - (codePos + n))
           \/ Branch((codePos + n) + 3, (codePos + n) + 1, D - ((codePos + n) + 1))
    BY <1>5 DEF CompileBranchRv64, D, Instruction, JumpFrom
  <2> DEFINE p == codePos + n
  <2>2. p \in Int
    BY <1>1, LengthsAssumption
  <2> HIDE DEF p
  <2>3. /\ p + 1 \in Int /\ p + 2 \in Int /\ p + 3 \in Int
        /\ p + (D - p) = D /\ (p + 1) + (D - (p + 1)) = D
    BY <1>2, <2>2
  <2>4. \/ Branch(p + 1, p, D - p)
        \/ Branch(p + 2, p, D - p)
        \/ Branch(p + 3, p + 1, D - (p + 1))
    BY <2>1 DEF p
  <2>5. CASE Branch(p + 1, p, D - p)
    BY <1>1, <2>2, <2>3, <2>5, BranchInv DEF D
  <2>6. CASE Branch(p + 2, p, D - p)
    BY <1>1, <2>2, <2>3, <2>6, BranchInv DEF D
  <2>7. CASE Branch(p + 3, p + 1, D - (p + 1))
    BY <1>1, <2>2, <2>3, <2>7, BranchInv DEF D
  <2>8. QED
    BY <2>4, <2>5, <2>6, <2>7
<1>6. CASE CompileBranchRv64Vector
  <2>1. PICK n \in Lengths :
           \/ Branch((codePos + n) + 2, codePos + n, D - (codePos + n))
           \/ Branch((codePos + n) + 4, (codePos + n) + 2, (D - (codePos + n)) - 2)
    BY <1>6 DEF CompileBranchRv64Vector, D, Instruction
  <2> DEFINE p == codePos + n
  <2>2. p \in Int
    BY <1>1, LengthsAssumption
  <2> HIDE DEF p
  <2>3. /\ p + 2 \in Int /\ p + 4 \in Int
        /\ p + (D - p) = D /\ (p + 2) + ((D - p) - 2) = D
    BY <1>2, <2>2
  <2>4. Branch(p + 2, p, D - p) \/ Branch(p + 4, p + 2, (D - p) - 2)
    BY <2>1 DEF p
  <2>5. CASE Branch(p + 2, p, D - p)
    BY <1>1, <2>2, <2>3, <2>5, BranchInv DEF D
  <2>6. CASE Branch(p + 4, p + 2, (D - p) - 2)
    BY <1>1, <2>2, <2>3, <2>6, BranchInv DEF D
  <2>7. QED
    BY <2>4, <2>5, <2>6
<1>7. QED
  BY <1>3, <1>4, <1>5, <1>6

LEMMA NextInv == IInv /\ [Next]_vars => IInv'
<1> SUFFICES ASSUME IInv, [Next]_vars PROVE IInv'
  OBVIOUS
<1>1. Lengths \in SUBSET Nat /\ {0} \in SUBSET Nat
  BY LengthsAssumption
<1>2. ASSUME CompileInt PROVE IInv'
  <2>1. /\ i < Size /\ prog[i].op = "INT" /\ Straight({prog[i].dst}, Lengths)
        /\ Modified(prog[i]) = {prog[i].dst}
    BY <1>2 DEF CompileInt, Compiles, Instruction, Modified, IsNop
  <2>2. QED
    BY <1>1, <2>1, StraightInv
<1>3. ASSUME CompileRcp PROVE IInv'
  <2>1. i < Size /\ prog[i].op = "IMUL_RCP"
    BY <1>3 DEF CompileRcp, Compiles, Instruction
  <2>2. \/ Straight({}, {0}) /\ Modified(prog[i]) = {}
        \/ Straight({prog[i].dst}, Lengths) /\ Modified(prog[i]) = {prog[i].dst}
    BY <1>3, <2>1 DEF CompileRcp, Instruction, Modified, IsNop
  <2>3. QED
    BY <1>1, <2>1, <2>2, StraightInv
<1>4. ASSUME CompileSwap PROVE IInv'
  <2>1. i < Size /\ prog[i].op = "ISWAP_R"
    BY <1>4 DEF CompileSwap, Compiles, Instruction
  <2>2. \/ Straight({}, {0}) /\ Modified(prog[i]) = {}
        \/ Straight({prog[i].dst, prog[i].src}, Lengths) /\ Modified(prog[i]) = {prog[i].dst, prog[i].src}
    BY <1>4, <2>1 DEF CompileSwap, Instruction, Modified, IsNop, SwapUses
  <2>3. QED
    BY <1>1, <2>1, <2>2, StraightInv
<1>5. ASSUME CompileOther PROVE IInv'
  <2>1. /\ i < Size /\ prog[i].op \in {"OTHER", "NOP"}
        /\ Straight({}, Lengths) \/ Straight({}, {0})
    BY <1>5 DEF CompileOther, Compiles, Instruction
  <2>2. Modified(prog[i]) = {}
    BY <2>1 DEF Modified, IsNop
  <2>3. QED
    BY <1>1, <2>1, <2>2, StraightInv
<1>6. ASSUME Run \/ UNCHANGED vars PROVE IInv'
  <2>1. UNCHANGED <<backend, prog, i, codePos, lastModified, native>>
    BY <1>6 DEF Run, RunInt, RunSwap, RunBranch, RunOther, GoOn, vars
  <2>2. ByNumber' = ByNumber /\ \A t : StartOf(t)' = StartOf(t)
    BY <2>1 DEF ByNumber, StartOf
  <2>3. CodeTypes' /\ TargetsExist' /\ BranchesLand'
    BY <2>1 DEF IInv, CodeTypes, TargetsExist, BranchesLand
  <2>4. NotedRight'
    BY <2>1, <2>2 DEF IInv, NotedRight, Noted
  <2>5. QED
    BY <2>3, <2>4 DEF IInv
<1>7. QED
  BY <1>2, <1>3, <1>4, <1>5, <1>6, BranchesInv DEF Next, Compile

\* Whatever the program, the lengths of code and the forms of the branches: each
\* of the four compilers sends every branch to the code of the instruction the
\* interpreter resumes at.
THEOREM BranchesLandRight == Spec => []BranchesLand
<1>1. IInv => BranchesLand
  BY DEF IInv
<1>2. QED
  BY InitInv, NextInv, <1>1, PTL DEF Spec


-----------------------------------------------------------------------------
(* The code as a whole: every instruction's follows the one before, and    *)
(* where it is empty the instruction has no effect.                        *)

\* Where an instruction's code may end: after its start, unless it has no effect.
Sized(ins, start, end) ==
    /\ end \in Int /\ start <= end
    /\ start = end => IsNop(ins)
    /\ IsNop(ins) /\ ins.op \in {"IMUL_RCP", "ISWAP_R"} => start = end

\* From everywhere code starts the next code that is not empty starts there, too.
Continues ==
    \A k \in 0 .. i :
        StartOf(k) = codePos \/ \E j \in k .. i - 1 : native[j].start = StartOf(k) /\ StartOf(k) < native[j].end

Layout ==
    /\ codePos \in Int /\ \A j \in 0 .. i - 1 : native[j].start \in Int
    /\ StartOf(0) = 0
    /\ \A a \in 0 .. i, b \in 0 .. i : a <= b => StartOf(a) <= StartOf(b)
    /\ \A j \in 0 .. i - 1 : /\ native[j].end = StartOf(j + 1)
                             /\ Sized(prog[j], native[j].start, native[j].end)
    /\ Continues

\* The processor is always where the code of some instruction starts.
IpAtStart == (i < Size => ip = 0) /\ \E k \in 0 .. i : ip = StartOf(k)

\* The code of one more instruction.
LEMMA EmittedLayout ==
    ASSUME IInv, Layout, i < Size, NEW end, NEW from, NEW disp, Emit(end, from, disp),
           Sized(prog[i], codePos, end)
    PROVE  Layout' /\ \A t \in 0 .. i : StartOf(t)' = StartOf(t)
<1>1. /\ i \in Nat /\ i' = i + 1 /\ i \in Indices
      /\ prog' = prog /\ codePos' = end /\ codePos \in Int /\ end \in Int /\ codePos <= end
  BY SizeAssumption DEF IInv, CodeTypes, Emit, Indices, Sized
<1>2. /\ native'[i] = [start |-> codePos, end |-> end, from |-> from, disp |-> disp]
      /\ \A j \in 0 .. i - 1 : native'[j] = native[j]
  BY <1>1 DEF IInv, CodeTypes, Emit, Indices
<1>3. \A t \in 0 .. i : StartOf(t)' = StartOf(t)
  <2>1. \A t \in 0 .. i : StartOf(t) = native'[t].start
    BY <1>1, <1>2 DEF StartOf
  <2>2. QED
    BY <1>1, <2>1 DEF StartOf
<1>4. (\A t : t = i + 1 => StartOf(t)' = end) /\ StartOf(i) = codePos
  BY <1>1 DEF StartOf
<1>5. \A t \in 0 .. i : StartOf(t) \in Int /\ StartOf(t) <= codePos
  <2>1. TAKE t \in 0 .. i
  <2>2. StartOf(t) \in Int
    BY <1>1 DEF StartOf, Layout
  <2>3. QED
    BY <1>1, <1>4, <2>2 DEF Layout
<1>6. \A j \in 0 .. i' - 1 : j = i \/ j \in 0 .. i - 1
  BY <1>1
<1>7. \A j \in 0 .. i' - 1 : native'[j].start \in Int
  BY <1>1, <1>2, <1>6 DEF Layout
<1>8. StartOf(0)' = 0
  BY <1>1, <1>3 DEF Layout
<1>9. ASSUME NEW a \in 0 .. i', NEW b \in 0 .. i', a <= b
      PROVE  StartOf(a)' <= StartOf(b)'
  <2>1. CASE b \in 0 .. i
    <3>1. a \in 0 .. i
      BY <1>1, <1>9, <2>1
    <3>2. QED
      BY <1>3, <1>9, <2>1, <3>1 DEF Layout
  <2>2. CASE b = i + 1 /\ a \in 0 .. i
    BY <1>1, <1>3, <1>4, <1>5, <2>2
  <2>3. CASE b = i + 1 /\ a = i + 1
    BY <1>1, <1>4, <2>3
  <2>4. QED
    BY <1>1, <1>9, <2>1, <2>2, <2>3
<1>10. ASSUME NEW j \in 0 .. i' - 1
       PROVE  /\ native'[j].end = StartOf(j + 1)'
              /\ Sized(prog[j], native'[j].start, native'[j].end)
  <2>1. CASE j = i
    BY <1>1, <1>2, <1>4, <2>1
  <2>2. CASE j \in 0 .. i - 1
    <3>1. j + 1 \in 0 .. i
      BY <1>1, <2>2
    <3>2. QED
      BY <1>2, <1>3, <2>2, <3>1 DEF Layout
  <2>3. QED
    BY <1>6, <2>1, <2>2
<1>11. Continues'
  <2>1. SUFFICES ASSUME NEW k \in 0 .. i + 1
                 PROVE  \/ StartOf(k)' = end
                        \/ \E j \in k .. i : native'[j].start = StartOf(k)' /\ StartOf(k)' < native'[j].end
    BY <1>1 DEF Continues
  <2>2. CASE k = i + 1
    BY <1>4, <2>2
  <2>3. CASE k \in 0 .. i /\ StartOf(k) = codePos
    <3>1. StartOf(k)' = codePos /\ i \in k .. i
      BY <1>1, <1>3, <2>3
    <3>2. CASE codePos = end
      BY <3>1, <3>2
    <3>3. CASE codePos # end
      <4>1. native'[i].start = codePos /\ codePos < native'[i].end
        BY <1>1, <1>2, <3>3
      <4>2. QED
        BY <3>1, <4>1
    <3>4. QED
      BY <3>2, <3>3
  <2>4. CASE k \in 0 .. i /\ StartOf(k) # codePos
    <3>1. PICK j \in k .. i - 1 : native[j].start = StartOf(k) /\ StartOf(k) < native[j].end
      BY <2>4 DEF Layout, Continues
    <3>2. j \in 0 .. i - 1 /\ j \in k .. i
      BY <1>1, <3>1
    <3>3. QED
      BY <1>2, <1>3, <2>4, <3>1, <3>2
  <2>5. QED
    BY <1>1, <2>2, <2>3, <2>4
<1>12. QED
  BY <1>1, <1>3, <1>7, <1>8, <1>9, <1>10, <1>11 DEF Layout

\* Every handler emits one piece of code, of a length that fits its instruction.
LEMMA CompileEmits ==
    ASSUME IInv, Layout, Compile
    PROVE  /\ i < Size
           /\ \E end, from, disp : Emit(end, from, disp) /\ Sized(prog[i], codePos, end)
<1>1. codePos \in Int
  BY DEF Layout
<1>2. \A n \in Lengths : n \in Nat /\ n > 0
  BY LengthsAssumption
<1>3. ASSUME NEW used, NEW lengths \in SUBSET Nat, Straight(used, lengths),
             \A n \in lengths : Sized(prog[i], codePos, codePos + n)
      PROVE  \E end, from, disp : Emit(end, from, disp) /\ Sized(prog[i], codePos, end)
  <2>1. PICK n \in lengths : Emit(codePos + n, None, 0)
    BY <1>3 DEF Straight
  <2>2. QED
    BY <1>3, <2>1
<1>4. ASSUME ~(IsNop(prog[i]) /\ prog[i].op \in {"IMUL_RCP", "ISWAP_R"})
      PROVE  \A n \in Lengths : Sized(prog[i], codePos, codePos + n)
  BY <1>1, <1>2, <1>4 DEF Sized
<1>5. ASSUME IsNop(prog[i])
      PROVE  \A n \in {0} : Sized(prog[i], codePos, codePos + n)
  BY <1>1, <1>5 DEF Sized
<1>6. Lengths \in SUBSET Nat /\ {0} \in SUBSET Nat
  BY LengthsAssumption
<1>7. CASE CompileInt
  <2>1. i < Size /\ prog[i].op = "INT" /\ Straight({prog[i].dst}, Lengths)
    BY <1>7 DEF CompileInt, Compiles, Instruction
  <2>2. QED
    BY <1>3, <1>4, <1>6, <2>1
<1>8. CASE CompileRcp
  <2>1. i < Size /\ prog[i].op = "IMUL_RCP"
    BY <1>8 DEF CompileRcp, Compiles, Instruction
  <2>2. CASE isZeroOrPowerOf2(prog[i].imm)
    <3>1. IsNop(prog[i]) /\ Straight({}, {0})
      BY <1>8, <2>1, <2>2 DEF CompileRcp, Instruction, IsNop
    <3>2. QED
      BY <1>3, <1>5, <1>6, <2>1, <3>1
  <2>3. CASE ~isZeroOrPowerOf2(prog[i].imm)
    <3>1. ~IsNop(prog[i]) /\ Straight({prog[i].dst}, Lengths)
      BY <1>8, <2>1, <2>3 DEF CompileRcp, Instruction, IsNop
    <3>2. QED
      BY <1>3, <1>4, <1>6, <2>1, <3>1
  <2>4. QED
    BY <2>2, <2>3
<1>9. CASE CompileSwap
  <2>1. i < Size /\ prog[i].op = "ISWAP_R"
    BY <1>9 DEF CompileSwap, Compiles, Instruction
  <2>2. CASE prog[i].src = prog[i].dst
    <3>1. IsNop(prog[i]) /\ Straight({}, {0})
      BY <1>9, <2>1, <2>2 DEF CompileSwap, Instruction, IsNop
    <3>2. QED
      BY <1>3, <1>5, <1>6, <2>1, <3>1
  <2>3. CASE prog[i].src # prog[i].dst
    <3>1. ~IsNop(prog[i]) /\ Straight(SwapUses, Lengths)
      BY <1>9, <2>1, <2>3 DEF CompileSwap, Instruction, IsNop
    <3>2. QED
      BY <1>3, <1>4, <1>6, <2>1, <3>1
  <2>4. QED
    BY <2>2, <2>3
<1>10. CASE CompileOther
  <2>1. /\ i < Size /\ prog[i].op \in {"OTHER", "NOP"}
        /\ \/ Straight({}, Lengths)
           \/ prog[i].op = "NOP" /\ Straight({}, {0})
    BY <1>10 DEF CompileOther, Compiles, Instruction
  <2>2. CASE Straight({}, Lengths)
    BY <1>3, <1>4, <1>6, <2>1, <2>2
  <2>3. CASE prog[i].op = "NOP" /\ Straight({}, {0})
    <3>1. IsNop(prog[i])
      BY <2>3 DEF IsNop
    <3>2. QED
      BY <1>3, <1>5, <1>6, <2>1, <2>3, <3>1
  <2>4. QED
    BY <2>1, <2>2, <2>3
<1>11. CASE \/ CompileBranchX86 \/ CompileBranchA64 \/ CompileBranchRv64 \/ CompileBranchRv64Vector
  <2>1. i < Size /\ ~IsNop(prog[i]) /\ prog[i].op = "CBRANCH"
    BY <1>11 DEF CompileBranchX86, CompileBranchA64, CompileBranchRv64, CompileBranchRv64Vector,
                 Compiles, Instruction, IsNop
  <2>2. ASSUME NEW n \in Nat, n > 0
        PROVE  Sized(prog[i], codePos, codePos + n)
    BY <1>1, <2>1, <2>2 DEF Sized
  <2>3. \E n \in Lengths : \E from, disp : \/ Emit(codePos + n + 1 + 2, from, disp)
                                           \/ Emit(codePos + n + 1, from, disp)
                                           \/ Emit(codePos + n + 2, from, disp)
                                           \/ Emit(codePos + n + 3, from, disp)
                                           \/ Emit(codePos + n + 4, from, disp)
    BY <1>11 DEF CompileBranchX86, CompileBranchA64, CompileBranchRv64, CompileBranchRv64Vector, Branch
  <2>4. PICK n \in Lengths, k \in 1 .. 4 : \E from, disp : Emit(codePos + (n + k), from, disp)
    <3>1. PICK n \in Lengths : \E from, disp : \/ Emit(codePos + n + 1 + 2, from, disp)
                                               \/ Emit(codePos + n + 1, from, disp)
                                               \/ Emit(codePos + n + 2, from, disp)
                                               \/ Emit(codePos + n + 3, from, disp)
                                               \/ Emit(codePos + n + 4, from, disp)
      BY <2>3
    <3>2. /\ codePos + n + 1 + 2 = codePos + (n + 3) /\ codePos + n + 1 = codePos + (n + 1)
          /\ codePos + n + 2 = codePos + (n + 2) /\ codePos + n + 3 = codePos + (n + 3)
          /\ codePos + n + 4 = codePos + (n + 4)
      BY <1>1, <1>2
    <3>3. {1, 2, 3, 4} \subseteq 1 .. 4
      OBVIOUS
    <3>4. QED
      BY <3>1, <3>2, <3>3
  <2>5. n + k \in Nat /\ n + k > 0
    BY <1>2
  <2>6. QED
    BY <2>1, <2>2, <2>4, <2>5
<1>12. QED
  BY <1>7, <1>8, <1>9, <1>10, <1>11 DEF Compile

\* What is known of the code and of the place in it.
PlaceInv == IInv /\ Layout /\ IpAtStart

LEMMA InitPlace == Init => PlaceInv
<1> SUFFICES ASSUME Init PROVE PlaceInv
  OBVIOUS
<1>1. i = 0 /\ codePos = 0 /\ ip = 0
  BY DEF Init
<1>2. StartOf(0) = 0 /\ \A t \in 0 .. i : t = 0
  BY <1>1 DEF StartOf
<1>3. Continues
  BY <1>1, <1>2 DEF Continues
<1>4. Layout /\ IpAtStart
  BY <1>1, <1>2, <1>3 DEF Layout, IpAtStart
<1>5. QED
  BY <1>4, InitInv DEF PlaceInv

\* Instructions whose code is empty have no effect on where the program goes on.
LEMMA NoCodeNoEffect ==
    ASSUME IInv, Layout, i = Size, NEW a \in 0 .. Size, NEW b \in a .. Size, StartOf(a) = StartOf(b)
    PROVE  Effective(prog, a) = Effective(prog, b)
<1>1. ASSUME NEW j \in a .. b - 1 PROVE IsNop(prog[j])
  <2>1. /\ j \in 0 .. i - 1 /\ j \in 0 .. i /\ j + 1 \in 0 .. i /\ a \in 0 .. i /\ b \in 0 .. i
        /\ a <= j /\ j <= j + 1 /\ j + 1 <= b
    BY <1>1, SizeAssumption
  <2>2. StartOf(a) <= StartOf(j) /\ StartOf(j) <= StartOf(j + 1) /\ StartOf(j + 1) <= StartOf(b)
    BY <2>1 DEF Layout
  <2>3. StartOf(j) = native[j].start /\ native[j].end = StartOf(j + 1) /\ native[j].start \in Int
    <3>1. j # i
      BY <2>1, SizeAssumption
    <3>2. StartOf(j) = native[j].start
      BY <3>1 DEF StartOf
    <3>3. QED
      BY <2>1, <3>2 DEF Layout
  <2>4. StartOf(a) \in Int
    <3>1. CASE a = i
      BY <3>1 DEF StartOf, Layout
    <3>2. CASE a # i
      <4>1. a \in 0 .. i - 1
        BY <2>1, <3>2, SizeAssumption
      <4>2. QED
        BY <3>2, <4>1 DEF StartOf, Layout
    <3>3. QED
      BY <3>1, <3>2
  <2>5. Sized(prog[j], native[j].start, native[j].end)
    BY <2>1 DEF Layout
  <2>6. native[j].start = native[j].end
    BY <2>2, <2>3, <2>4, <2>5 DEF Sized
  <2>7. QED
    BY <2>5, <2>6 DEF Sized
<1>2. QED
  BY <1>1, EffectiveIsPast

\* The instruction whose code the processor is at.
LEMMA HereIsThere ==
    ASSUME IInv, Layout, i = Size, NEW k \in 0 .. Size, ip = StartOf(k), ip # codePos
    PROVE  /\ Here \in k .. Size - 1
           /\ native[Here].start = ip /\ native[Here].end > ip
<1>1. PICK j \in k .. i - 1 : native[j].start = ip /\ ip < native[j].end
  BY DEF Layout, Continues
<1>2. j \in Indices /\ native[j].end > ip
  <2>1. j \in 0 .. i - 1
    BY <1>1, SizeAssumption
  <2>2. native[j].end \in Int /\ ip \in Int
    BY <1>1, <2>1 DEF Layout, Sized
  <2>3. QED
    BY <1>1, <2>1, <2>2 DEF Indices
<1> DEFINE h == CHOOSE x \in Indices : native[x].start = ip /\ native[x].end > ip
<1>3. h \in Indices /\ native[h].start = ip /\ native[h].end > ip
  BY <1>1, <1>2
<1>4. Here = h
  BY DEF Here
<1> HIDE DEF h
<1>5. k <= h
  <2>1. SUFFICES ASSUME h < k PROVE FALSE
    BY <1>3, SizeAssumption DEF Indices
  <2>2. h \in 0 .. i - 1 /\ h + 1 \in 0 .. i /\ k \in 0 .. i /\ h + 1 <= k
    BY <1>3, <2>1, SizeAssumption DEF Indices
  <2>3. StartOf(h + 1) <= StartOf(k) /\ native[h].end = StartOf(h + 1)
    BY <2>2 DEF Layout
  <2>4. native[h].end \in Int /\ ip \in Int
    BY <1>3, <2>2 DEF Layout, Sized
  <2>5. QED
    BY <1>3, <2>3, <2>4
<1>6. QED
  BY <1>3, <1>4, <1>5, SizeAssumption DEF Indices

\* Wherever code starts, the processor is at the next instruction that has an effect.
AtTheEffect ==
    i = Size => \A k \in 0 .. Size : ip = StartOf(k) => Effective(prog, Here) = Effective(prog, k)

LEMMA PlaceGivesEffect == PlaceInv => AtTheEffect
<1> SUFFICES ASSUME PlaceInv, i = Size, NEW k \in 0 .. Size, ip = StartOf(k)
             PROVE  Effective(prog, Here) = Effective(prog, k)
  BY DEF AtTheEffect
<1> USE DEF PlaceInv
<1>1. CASE ip = codePos
  <2>1. Here = Size /\ StartOf(Size) = codePos /\ Size \in k .. Size
    BY <1>1, SizeAssumption DEF Here, StartOf
  <2>2. QED
    BY <1>1, <2>1, NoCodeNoEffect
<1>2. CASE ip # codePos
  <2>1. Here \in k .. Size - 1 /\ native[Here].start = ip
    BY <1>2, HereIsThere
  <2>2. PICK h : h = Here
    OBVIOUS
  <2>3. h \in k .. Size /\ StartOf(h) = ip
    BY <2>1, <2>2, SizeAssumption DEF StartOf
  <2>4. QED
    BY <2>2, <2>3, NoCodeNoEffect
<1>3. QED
  BY <1>1, <1>2

\* What a step of the code finds where it is.
LEMMA RunsThere ==
    ASSUME PlaceInv, NEW op, Runs(op)
    PROVE  /\ i = Size /\ Here \in 0 .. Size - 1 /\ Here + 1 \in 0 .. Size
           /\ prog[Here].op = op
           /\ native[Here].end = StartOf(Here + 1)
           /\ IsNop(prog[Here]) => op \notin {"IMUL_RCP", "ISWAP_R"}
<1>1. i = Size /\ Here < Size /\ prog[Here].op = op
  BY DEF Runs
<1>2. PICK k \in 0 .. Size : ip = StartOf(k)
  BY <1>1 DEF PlaceInv, IpAtStart
<1>3. ip # codePos
  BY <1>1, SizeAssumption DEF Here
<1>4. Here \in k .. Size - 1 /\ native[Here].start = ip /\ native[Here].end > ip
  BY <1>1, <1>2, <1>3, HereIsThere DEF PlaceInv
<1>5. PICK h : h = Here
  OBVIOUS
<1>6. h \in 0 .. i - 1
  BY <1>1, <1>4, <1>5, SizeAssumption
<1>7. native[h].end = StartOf(h + 1) /\ Sized(prog[h], native[h].start, native[h].end) /\ native[h].start \in Int
  BY <1>6 DEF PlaceInv, Layout
<1>8. native[h].start # native[h].end
  BY <1>4, <1>5, <1>7 DEF Sized
<1>9. QED
  BY <1>1, <1>5, <1>6, <1>7, <1>8, SizeAssumption DEF Sized

-----------------------------------------------------------------------------
(* Running the code is running the program.                                *)

RunsOn == UNCHANGED <<backend, prog, i, codePos, lastModified, native>>

\* Running the code leaves it as it is, and ends where code starts.
LEMMA RunGoesOn ==
    ASSUME PlaceInv, Run
    PROVE  /\ RunsOn /\ i = Size /\ Here \in 0 .. Size - 1
           /\ \/ ip' = StartOf(Here + 1)
              \/ /\ prog[Here].op = "CBRANCH" /\ Target(prog, Here) \in 0 .. Here
                 /\ ip' = StartOf(Target(prog, Here))
<1>1. PICK op : Runs(op)
  BY DEF Run, RunInt, RunSwap, RunBranch, RunOther
<1>2. i = Size /\ Here \in 0 .. Size - 1 /\ native[Here].end = StartOf(Here + 1)
  BY <1>1, RunsThere
<1>3. RunsOn
  BY DEF Run, RunInt, RunSwap, RunBranch, RunOther, GoOn, RunsOn
<1>4. CASE ip' = native[Here].end
  BY <1>2, <1>3, <1>4
<1>5. CASE ip' # native[Here].end
  <2>1. prog[Here].op = "CBRANCH" /\ ip' = native[Here].from + native[Here].disp
    BY <1>5 DEF Run, RunInt, RunSwap, RunBranch, RunOther, GoOn, Runs
  <2>2. PICK h : h = Here
    OBVIOUS
  <2>3. h \in 0 .. i - 1
    BY <1>2, <2>2
  <2>4. Target(prog, h) \in 0 .. h /\ ip' = native[Target(prog, h)].start
    BY <2>1, <2>2, <2>3 DEF PlaceInv, IInv, TargetsExist, BranchesLand
  <2>5. Target(prog, h) # i
    BY <1>2, <2>3, <2>4, SizeAssumption
  <2>6. ip' = StartOf(Target(prog, h))
    BY <2>4, <2>5 DEF StartOf
  <2>7. QED
    BY <1>2, <1>3, <2>1, <2>2, <2>4, <2>6
<1>6. QED
  BY <1>4, <1>5

LEMMA NextPlace == PlaceInv /\ [Next]_vars => PlaceInv'
<1> SUFFICES ASSUME PlaceInv, [Next]_vars PROVE PlaceInv'
  OBVIOUS
<1>1. IInv'
  BY NextInv DEF PlaceInv
<1>2. ASSUME RunsOn
      PROVE  Layout' /\ \A t : StartOf(t)' = StartOf(t)
  <2>1. \A t : StartOf(t)' = StartOf(t)
    BY <1>2 DEF RunsOn, StartOf
  <2>2. Continues'
    BY <1>2, <2>1 DEF RunsOn, PlaceInv, Layout, Continues
  <2>3. \A j \in 0 .. i - 1 : native'[j].end = StartOf(j + 1)
    BY <1>2 DEF RunsOn, PlaceInv, Layout
  <2>4. QED
    BY <1>2, <2>1, <2>2, <2>3 DEF RunsOn, PlaceInv, Layout
<1>3. CASE Compile
  <2>1. i < Size /\ \E end, from, disp : Emit(end, from, disp) /\ Sized(prog[i], codePos, end)
    BY <1>3, CompileEmits DEF PlaceInv
  <2>2. PICK end, from, disp : Emit(end, from, disp) /\ Sized(prog[i], codePos, end)
    BY <2>1
  <2>3. Layout' /\ \A t \in 0 .. i : StartOf(t)' = StartOf(t)
    BY <2>1, <2>2, EmittedLayout DEF PlaceInv
  <2>4. ip' = 0 /\ i \in Nat /\ i' = i + 1
    BY <2>1, <2>2, SizeAssumption DEF Emit, PlaceInv, IpAtStart, IInv, CodeTypes
  <2>5. ip' = StartOf(0)' /\ 0 \in 0 .. i'
    BY <2>3, <2>4 DEF PlaceInv, Layout
  <2>6. QED
    BY <1>1, <2>3, <2>4, <2>5 DEF PlaceInv, IpAtStart
<1>4. CASE Run
  <2>1. PICK h : h = Here
    OBVIOUS
  <2>2. /\ RunsOn /\ i = Size /\ h \in 0 .. Size - 1
        /\ \/ ip' = StartOf(h + 1)
           \/ Target(prog, h) \in 0 .. h /\ ip' = StartOf(Target(prog, h))
    BY <1>4, <2>1, RunGoesOn
  <2>3. PICK k \in 0 .. Size : ip' = StartOf(k)
    <3>1. h + 1 \in 0 .. Size /\ \A t \in 0 .. h : t \in 0 .. Size
      BY <2>2, SizeAssumption
    <3>2. QED
      BY <2>2, <3>1
  <2>4. i' = Size /\ ip' = StartOf(k)' /\ ~(i' < Size)
    BY <1>2, <2>2, <2>3, SizeAssumption DEF RunsOn
  <2>5. IpAtStart'
    BY <2>3, <2>4 DEF IpAtStart
  <2>6. QED
    BY <1>1, <1>2, <2>2, <2>5 DEF PlaceInv
<1>5. CASE UNCHANGED vars
  <2>1. RunsOn /\ ip' = ip
    BY <1>5 DEF vars, RunsOn
  <2>2. Layout' /\ \A t : StartOf(t)' = StartOf(t)
    BY <1>2, <2>1
  <2>3. IpAtStart'
    BY <2>1, <2>2 DEF PlaceInv, IpAtStart, RunsOn
  <2>4. QED
    BY <1>1, <2>2, <2>3 DEF PlaceInv
<1>6. QED
  BY <1>3, <1>4, <1>5 DEF Next

\* The abstract program and this module mean the same by an instruction's operands.
LEMMA SameMeaning ==
    /\ \A p, k : Program!Effective(p, k) = Effective(p, k)
    /\ \A p, k : Program!Target(p, k) = Target(p, k)
    /\ \A x : Program!Word(x) = Word(x)
    /\ \A ins : Program!BranchImm(ins) = BranchImm(ins) /\ Program!Shift(ins) = Shift(ins)
    /\ \A x, s : Program!ConditionMet(x, s) <=> ConditionMet(x, s)
<1>1. \A p, k : Program!Effective(p, k) = Effective(p, k)
  BY DEF Program!Effective, Effective, Program!IsNop, IsNop, Program!isZeroOrPowerOf2,
         isZeroOrPowerOf2, Program!Bit, Bit
<1>2. \A p, k : Program!Target(p, k) = Target(p, k)
  BY DEF Program!Target, Target, Program!FollowsLastModifier, FollowsLastModifier,
         Program!Modified, Modified, Program!IsNop, IsNop, Program!isZeroOrPowerOf2,
         isZeroOrPowerOf2, Program!Bit, Bit
<1>3. \A x : Program!Word(x) = Word(x)
  BY DEF Program!Word, Word, Program!Bit, Bit
<1>4. \A ins : Program!BranchImm(ins) = BranchImm(ins) /\ Program!Shift(ins) = Shift(ins)
  BY DEF Program!BranchImm, BranchImm, Program!Shift, Shift, Program!WithoutCarryBit, WithoutCarryBit,
         Program!WithoutBit, WithoutBit, Program!WithBit, WithBit, Program!IsSet, IsSet, Program!Bit, Bit
<1>5. \A x, s : Program!ConditionMet(x, s) <=> ConditionMet(x, s)
  BY DEF Program!ConditionMet, ConditionMet, Program!Bit, Bit
<1>6. QED
  BY <1>1, <1>2, <1>3, <1>4, <1>5

\* Where the program is while the code is made and run.
At == IF i = Size THEN Effective(prog, Here) ELSE Effective(prog, 0)

LEMMA InitProgram == Init => Program!Init
<1> SUFFICES ASSUME Init PROVE Program!Init
  OBVIOUS
<1>1. At = Effective(prog, 0)
  <2>1. CASE i = Size
    <3>1. ip = StartOf(0) /\ 0 \in 0 .. Size
      BY SizeAssumption DEF Init, StartOf
    <3>2. AtTheEffect
      BY InitPlace, PlaceGivesEffect
    <3>3. QED
      BY <2>1, <3>1, <3>2 DEF At, AtTheEffect
  <2>2. CASE i # Size
    BY <2>2 DEF At
  <2>3. QED
    BY <2>1, <2>2
<1>2. QED
  BY <1>1, SameMeaning DEF At, Init, Program!Init, Indices, Program!Indices

\* Making the code shows as nothing, running it as steps of the program: the code
\* after an instruction is that of the next one with an effect, and the place a
\* branch jumps to that of its target.
LEMMA StepProgram ==
    PlaceInv /\ PlaceInv' /\ AtTheEffect /\ AtTheEffect' /\ [Next]_vars => [Program!Next]_Program!programVars
<1> SUFFICES ASSUME PlaceInv, PlaceInv', AtTheEffect, AtTheEffect', [Next]_vars
             PROVE  Program!Next \/ UNCHANGED Program!programVars
  OBVIOUS
<1>1. CASE Compile
  <2>1. i < Size /\ \E end, from, disp : Emit(end, from, disp)
    BY <1>1, CompileEmits DEF PlaceInv
  <2>2. UNCHANGED <<prog, ip, regs>> /\ ip = 0 /\ i # Size
    BY <2>1, SizeAssumption DEF Emit, PlaceInv, IpAtStart, IInv, CodeTypes
  <2>3. At = Effective(prog, 0)
    BY <2>2 DEF At
  <2>4. At' = Effective(prog, 0)
    <3>1. CASE i' = Size
      <4>1. ip' = StartOf(0)' /\ 0 \in 0 .. Size
        BY <2>2, SizeAssumption DEF PlaceInv, Layout
      <4>2. QED
        BY <2>2, <3>1, <4>1 DEF At, AtTheEffect
    <3>2. CASE i' # Size
      BY <2>2, <3>2 DEF At
    <3>3. QED
      BY <3>1, <3>2
  <2>5. QED
    BY <2>2, <2>3, <2>4 DEF Program!programVars, At
<1>2. CASE UNCHANGED vars
  <2>1. At' = At
    BY <1>2 DEF vars, At, Here
  <2>2. QED
    BY <1>2, <2>1 DEF vars, Program!programVars, At
<1>3. CASE Run
  <2>1. PICK h : h = Here
    OBVIOUS
  <2>2. RunsOn /\ i = Size /\ h \in 0 .. Size - 1
    BY <1>3, <2>1, RunGoesOn
  <2>3. At = Effective(prog, h) /\ prog' = prog /\ i' = Size
    BY <2>1, <2>2 DEF At, RunsOn
  <2>4. ASSUME NEW k \in 0 .. h + 1, ip' = StartOf(k)
        PROVE  At' = Effective(prog, k)
    <3>1. StartOf(k)' = StartOf(k)
      BY <2>2 DEF RunsOn, StartOf
    <3>2. k \in 0 .. Size
      BY <2>2, SizeAssumption
    <3>3. QED
      BY <2>3, <2>4, <3>1, <3>2 DEF At, AtTheEffect
  <2>5. ASSUME ip' = native[h].end
        PROVE  At' = Effective(prog, h + 1)
    <3>1. native[h].end = StartOf(h + 1)
      BY <2>2 DEF PlaceInv, Layout
    <3>2. h + 1 \in 0 .. h + 1
      BY <2>2
    <3>3. QED
      BY <2>4, <2>5, <3>1, <3>2
  <2>6. ASSUME NEW op, Runs(op)
        PROVE  prog[h].op = op /\ (IsNop(prog[h]) => op = "NOP")
    BY <2>1, <2>6, RunsThere DEF IsNop
  <2>7. ~IsNop(prog[h]) => At = h
    BY <2>2, <2>3, EffectiveIsHere
  <2>8. CASE RunInt
    <3>1. /\ prog[h].op \in {"INT", "IMUL_RCP"} /\ ~IsNop(prog[h])
          /\ \E x \in Values : regs' = [regs EXCEPT ![prog[h].dst] = x]
          /\ ip' = native[h].end
      <4>1. Runs("INT") \/ Runs("IMUL_RCP")
        BY <2>8 DEF RunInt
      <4>2. (\E x \in Values : regs' = [regs EXCEPT ![prog[h].dst] = x]) /\ ip' = native[h].end
        BY <2>1, <2>8 DEF RunInt, GoOn
      <4>3. CASE Runs("INT")
        BY <2>6, <4>2, <4>3
      <4>4. CASE Runs("IMUL_RCP")
        BY <2>6, <4>2, <4>4
      <4>5. QED
        BY <4>1, <4>3, <4>4
    <3>2. At = h /\ At' = Effective(prog, h + 1)
      BY <2>5, <2>7, <3>1
    <3>3. Program!Compute
      BY <3>1, <3>2, SameMeaning DEF At, Program!Compute, Program!GoOn
    <3>4. QED
      BY <2>2, <2>3, <3>2, <3>3, SizeAssumption DEF At, Program!Next
  <2>9. CASE RunSwap
    <3>1. /\ prog[h].op = "ISWAP_R" /\ ~IsNop(prog[h])
          /\ regs' = [regs EXCEPT ![prog[h].dst] = regs[prog[h].src], ![prog[h].src] = regs[prog[h].dst]]
          /\ ip' = native[h].end
      BY <2>1, <2>6, <2>9 DEF RunSwap, GoOn
    <3>2. At = h /\ At' = Effective(prog, h + 1)
      BY <2>5, <2>7, <3>1
    <3>3. Program!Swap
      BY <3>1, <3>2, SameMeaning DEF At, Program!Swap, Program!GoOn
    <3>4. QED
      BY <2>2, <2>3, <3>2, <3>3, SizeAssumption DEF At, Program!Next
  <2>10. CASE RunBranch
    <3> DEFINE x == Word(regs[prog[h].dst] + BranchImm(prog[h]))
    <3>1. /\ prog[h].op = "CBRANCH" /\ ~IsNop(prog[h])
          /\ regs' = [regs EXCEPT ![prog[h].dst] = x]
          /\ IF ConditionMet(x, Shift(prog[h])) THEN ip' = native[h].from + native[h].disp
                                                ELSE ip' = native[h].end
      BY <2>1, <2>6, <2>10 DEF RunBranch
    <3>2. ASSUME ip' = native[h].from + native[h].disp
          PROVE  At' = Effective(prog, Target(prog, h))
      <4>1. Target(prog, h) \in 0 .. h /\ ip' = native[Target(prog, h)].start
        BY <2>2, <3>1, <3>2 DEF PlaceInv, IInv, TargetsExist, BranchesLand
      <4>2. Target(prog, h) # i /\ Target(prog, h) \in 0 .. h + 1
        BY <2>2, <4>1, SizeAssumption
      <4>3. ip' = StartOf(Target(prog, h))
        BY <4>1, <4>2 DEF StartOf
      <4>4. QED
        BY <2>4, <4>2, <4>3
    <3>3. At = h /\ IF ConditionMet(x, Shift(prog[h])) THEN At' = Effective(prog, Target(prog, h))
                                                      ELSE At' = Effective(prog, h + 1)
      BY <2>5, <2>7, <3>1, <3>2
    <3>4. Program!Branch
      BY <3>1, <3>3, SameMeaning DEF At, Program!Branch, Program!GoOn
    <3>5. QED
      BY <2>2, <2>3, <3>3, <3>4, SizeAssumption DEF At, Program!Next
  <2>11. CASE RunOther
    <3>1. regs' = regs /\ ip' = native[h].end /\ (Runs("OTHER") \/ Runs("NOP"))
      BY <2>1, <2>11 DEF RunOther, GoOn
    <3>2. At' = Effective(prog, h + 1)
      BY <2>5, <3>1
    <3>3. CASE Runs("OTHER")
      <4>1. prog[h].op = "OTHER" /\ ~IsNop(prog[h])
        BY <2>6, <3>3
      <4>2. At = h
        BY <2>7, <4>1
      <4>3. Program!Other
        BY <3>1, <3>2, <4>1, <4>2, SameMeaning DEF At, Program!Other, Program!GoOn
      <4>4. QED
        BY <2>2, <2>3, <4>2, <4>3, SizeAssumption DEF At, Program!Next
    <3>4. CASE Runs("NOP")
      <4>1. IsNop(prog[h])
        BY <2>6, <3>4 DEF IsNop
      <4>2. At = Effective(prog, h + 1)
        BY <2>2, <2>3, <4>1, EffectiveIsLater
      <4>3. QED
        BY <2>3, <3>1, <3>2, <4>2 DEF At, Program!programVars
    <3>5. QED
      BY <3>1, <3>3, <3>4
  <2>12. QED
    BY <1>3, <2>8, <2>9, <2>10, <2>11 DEF Run
<1>4. QED
  BY <1>1, <1>2, <1>3 DEF Next

\* Whatever the program, the lengths of code and the forms of the branches: running
\* the code of each of the four compilers takes the steps of the program, and
\* instructions whose code is empty have no effect in it.
THEOREM NativeCodeImplementsProgram == Spec => ImplementsProgram
<1>1. Spec => [](PlaceInv /\ AtTheEffect)
  BY InitPlace, NextPlace, PlaceGivesEffect, PTL DEF Spec
<1>2. Spec => Program!Init /\ [][Program!Next]_Program!programVars
  BY <1>1, InitProgram, StepProgram, PTL DEF Spec
<1>3. QED
  BY <1>2 DEF ImplementsProgram, Program!Spec
=============================================================================
