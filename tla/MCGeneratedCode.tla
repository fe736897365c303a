---------------------------- MODULE MCGeneratedCode ----------------------------
(***************************************************************************)
(* Instances of CompiledCode, SuperscalarCode and LoopCode, of which one   *)
(* is at work and the others have nothing to do.  In the programs every    *)
(* immediate a form depends on occurs, in chunks of 32 instructions so     *)
(* that the registers keep changing and literals pile up; the long         *)
(* programs fill the pools of literals.                                    *)
(***************************************************************************)
EXTENDS CompiledCode

ChunkSize == 32
Chunks == 0 .. Half \div ChunkSize - 1
At(chunk, k) == ChunkSize * chunk + k - 1
Positions == 1 .. ChunkSize

RegisterPrograms ==
    {[k \in Positions |-> Instruction(op, k % 8, k % 8, At(chunk, k), 0, 0, 0)] :
        op \in {"ISUB_R", "IMUL_R", "IXOR_R"}, chunk \in Chunks}
    \cup {[k \in Positions |-> Instruction("IADD_RS", IF k % 2 = 0 THEN 5 ELSE k % 8, (k + 3) % 8,
                                   At(chunk, k), 0, (k \div 2) % 4, 0)] : chunk \in Chunks}
    \cup {[k \in Positions |-> Instruction(op, k % 8, (k + k \div 8) % 8, k, 0, 0, 0)] :
        op \in {"ISUB_R", "IMUL_R", "IXOR_R", "IROR_R", "IROL_R", "IMULH_R", "ISMULH_R",
                "ISWAP_R", "INEG_R"}}
    \cup {[k \in Positions |-> Instruction("IMUL_RCP", k % 8, 0, At(chunk, k), 0, 0, 0)] : chunk \in Chunks}

\* src = dst once in four instructions
Source(k) == IF k % 4 = 0 THEN k % 8 ELSE (k + 1) % 8
MemoryPrograms ==
    {[k \in Positions |-> Instruction(op, k % 8, Source(k), At(chunk, k), (k \div 4) % 2, 0, 0)] :
        op \in {"IADD_M", "ISUB_M", "IXOR_M"}, chunk \in Chunks}
    \cup {[k \in Positions |-> Instruction(op, k % 8, Source(k), (8 * k + 3) % Half, (k \div 4) % 2, 0, 0)] :
        op \in {"IMUL_M", "IMULH_M", "ISMULH_M"}}
    \cup {[k \in Positions |-> Instruction("ISTORE", Source(k), k % 8, At(chunk, k), (k \div 2) % 2, 0, 2 + (k % 2))] :
        chunk \in Chunks}

FloatPrograms ==
    {[k \in Positions |-> Instruction(op, k % 8, Source(k), At(chunk, k), (k \div 4) % 2, 0, 0)] :
        op \in {"FADD_M", "FSUB_M", "FDIV_M"}, chunk \in {0, 3, 5, 7}}
    \cup {[k \in Positions |-> Instruction(op, k % 8, (k + k \div 8) % 8, k, 0, 0, 0)] :
        op \in {"FADD_R", "FSUB_R", "FMUL_R", "FSCAL_R", "FSQRT_R", "FSWAP_R"}}

ControlPrograms ==
    {[k \in Positions |-> Instruction("CBRANCH", k % 8, 0, At(chunk, k), 0, 0, k % 4)] : chunk \in Chunks}
    \* The modes change and floating point follows.
    \cup {[k \in Positions |-> IF k % 2 = 0 THEN Instruction("CFROUND", 0, (k \div 2 + s) % 8, (k \div 2 + t) % 256, 0, 0, 0)
                               ELSE Instruction("FADD_R", k % 4, 0, 0, 0, 0, 0)] :
        s \in {0, 3, 5}, t \in {0, 63, 12}}

\* All literals of their kind a program of this size can need: reciprocals that are
\* odd, so that no register ends up zero; immediates of which most need a literal.
HasOddReciprocal(d) == ~isZeroOrPowerOf2(d) /\ randomx_reciprocal(d) % 2 = 1
OddDivisors == SelectSeq([d \in 1 .. Half - 1 |-> d], HasOddReciprocal)
\* As many reciprocals as there are instructions, in either version.
Reciprocals(size) ==
    [k \in 1 .. size |-> Instruction("IMUL_RCP", k % 8, 0, OddDivisors[1 + (k % Len(OddDivisors))], 0, 0, 0)]
VersionsPrograms == {Reciprocals(RANDOMX_PROGRAM_SIZE_V1), Reciprocals(RANDOMX_PROGRAM_SIZE_V2)}
LongPrograms ==
    VersionsPrograms
    \cup {[k \in 1 .. 100 |-> IF k % 9 = 0 THEN Instruction("IMUL_RCP", k % 8, 0, 7 + 2 * k, 0, 0, 0)
                              ELSE Instruction("IXOR_R", k % 8, k % 8, (7 * k) % Half, 0, 0, 0)],
          <<Instruction("NOP", 0, 0, 0, 0, 0, 0)>>}

NoProgram == <<>>
MCPrograms ==
    RegisterPrograms \cup MemoryPrograms \cup FloatPrograms \cup ControlPrograms \cup LongPrograms
        \cup {NoProgram}

\* The start: one that hits the conditions of a branch and of CFROUND and wraps, one
\* that does not.
StartRegisters ==
    {[i \in 0 .. 7 |-> <<0, 256, 65535, 32769, 4660, 65024, 21, 40961>>[i + 1]]}
StartGroups ==
    {[f |-> [i \in 0 .. 3 |-> <<1000 + i, 2000 + 3 * i>>],
      e |-> [i \in 0 .. 3 |-> <<3000 + 5 * i, 4000 + 7 * i>>],
      a |-> [i \in 0 .. 3 |-> <<5000 + 11 * i, 6000 + 13 * i>>]]}

-----------------------------------------------------------------------------
(* SuperscalarHash.                                                        *)

CONSTANTS
    HashBackends,
    Numbers       \* of the items computed

VARIABLES
    hashBackend, history, programs, cache, hashState, hashCode, turns, numbers, hashPc, i, j, hashM

hashVars ==
    <<hashBackend, history, programs, cache, hashState, hashCode, turns, numbers, hashPc, i, j, hashM>>

ItemNumbers == <<0, 65533>>

\* Lists of programs for SuperscalarCode, as the generator can make them: no instruction
\* has its own register as source but the two long multiplications, r5 is not the
\* destination of IADD_RS, rotations and divisors are not trivial.  One list has every
\* immediate, one more reciprocals than a page of either pool of literals holds.
One(op, dst, src, imm, modShift) == Instruction(op, dst, src, imm, 0, modShift, 0)
Prog(addressRegister, isns) == [code |-> isns, addressRegister |-> addressRegister]

Registerwise(op) == [k \in 1 .. 16 |-> One(op, k % 8, (k + 1 + (k \div 8)) % 8, 0, 0)]
WithOwn(op) == [k \in 1 .. 9 |-> One(op, k % 8, (k + k \div 8) % 8, 0, 0)]
\* In an order that gives every register a source.
Sums == SelectSeq([k \in 1 .. 32 |-> One("IADD_RS", k % 8, (k + 3) % 8, 0, (k \div 8) % 4)],
                  LAMBDA isn : isn.dst # 5)
Constants(op) == [k \in 1 .. Half |-> One(op, k % 8, 0, k - 1, 0)]
Rotations == [k \in 1 .. 45 |-> One("IROR_C", k % 8, 0, 16 * (k % 7) + 1 + (k % 15), 0)]

\* Products by odd numbers keep the registers from becoming zero.
Products(count, from) ==
    [k \in 1 .. count |-> One("IMUL_RCP", k % 8, 0, OddDivisors[1 + ((k + from) % Len(OddDivisors))], 0)]

Various ==
    <<Prog(3, Registerwise("ISUB_R") \o Sums \o WithOwn("IMULH_R") \o Registerwise("IXOR_R")),
      Prog(0, Constants("IADD_C") \o Products(3, 0) \o WithOwn("ISMULH_R")),
      Prog(6, Constants("IXOR_C") \o Rotations \o Registerwise("IMUL_R") \o Products(5, 7))>>
\* 520 reciprocals: a page of the vector code's pool holds 255, of the other 512.
Long == <<Prog(1, Products(200, 0)), Prog(7, Products(200, 5) \o Constants("IADD_C")), Prog(2, Products(120, 30))>>
Short == <<Prog(4, Products(2, 50)), Prog(5, Registerwise("IXOR_R")), Prog(1, Products(1, 90))>>

HashHistories == {<<Various>>, <<Short, Long, Short>>}

NoHistory == <<>>
Hash == INSTANCE SuperscalarCode WITH
    Backends <- HashBackends,
    Histories <- HashHistories \cup {NoHistory},
    backend <- hashBackend,
    state <- hashState,
    code <- hashCode,
    pc <- hashPc,
    m <- hashM

-----------------------------------------------------------------------------
(* The loop around a program.                                              *)

CONSTANTS
    LoopBackends,
    Iterations

VARIABLES
    loopBackend, light, hardAes, generations, generated, buffer, phase, ic, loopM

loopVars == <<loopBackend, light, hardAes, generations, generated, buffer, phase, ic, loopM>>

\* The addresses have bits outside of the masks; the offsets of the dataset need both
\* parts of an immediate, and one of them is negative.
Configs ==
    {[mx |-> 178, ma |-> 80, readReg |-> readReg, datasetOffset |-> offset, v2 |-> v,
      a |-> [k \in 0 .. 3 |-> <<5000 + 11 * k, 6000 + 13 * k>>], eMask |-> EMask] :
        readReg \in {<<0, 2, 4, 6>>, <<1, 3, 5, 7>>}, offset \in {0, 208}, v \in BOOLEAN}
\* Another program came before, of the same version or of the other.
Before(config, v) ==
    [config EXCEPT !.v2 = v, !.readReg = <<3, 4, 7, 0>>, !.datasetOffset = 48, !.ma = 21,
                   !.eMask = <<9, 10>>]
NoConfigs == <<[CHOOSE c \in Configs : c.v2 EXCEPT !.ma = 0]>>

Loop == INSTANCE LoopCode WITH
    Histories <- {<<Before(c, v), c>> : c \in Configs, v \in BOOLEAN} \cup {NoConfigs},
    backend <- loopBackend,
    history <- generations,
    m <- loopM

-----------------------------------------------------------------------------

NoLoop == generations = NoConfigs
IdleProgram == prog = NoProgram /\ backend = "x86" /\ v2 = FALSE
IdleHash == history = NoHistory /\ hashBackend = "interpreter"
IdleLoop == NoLoop /\ loopBackend = "x86" /\ light = FALSE /\ hardAes = FALSE
MCInit ==
    /\ \/ IdleHash /\ IdleLoop
       \/ IdleProgram /\ IdleLoop
       \/ IdleProgram /\ IdleHash
    /\ Init
    /\ Hash!Init
    /\ Loop!Init
MCNext ==
    \/ prog # NoProgram /\ Next /\ UNCHANGED <<hashVars, loopVars>>
    \/ Hash!Next /\ UNCHANGED <<vars, loopVars>>
    \/ ~NoLoop /\ Loop!Next /\ UNCHANGED <<vars, hashVars>>
MCSpec == MCInit /\ [][MCNext]_<<vars, hashVars, loopVars>>

\* SuperscalarCode's and LoopCode's properties.
ImplementsItem == Hash!ImplementsItem
HashCodeFits == Hash!HashCodeFits
ImplementsLoop == Loop!ImplementsLoop

\* The pieces keep what each of them expects of the others in registers: the code of
\* a program what the loop has loaded for it and has there itself, SuperscalarHash what
\* the loop has when it calls for an item, the loop what the program relies on, at each
\* of its iterations, and what its caller has a right to at the end.
RegistersKept == EnvironmentKept /\ Hash!RegistersKept /\ Loop!EnvironmentProvided

=============================================================================
