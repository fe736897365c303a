---------------------------- MODULE Instructions ----------------------------
(***************************************************************************)
(* The instructions of a RandomX program, as far as its branches depend on *)
(* them.  An integer instruction stores some value in its destination;     *)
(* which one is left open.  A floating point instruction, a store to the   *)
(* scratchpad and CFROUND are "OTHER": they touch no integer register.     *)
(* Registers are 2^RegisterBits wide, immediates are taken modulo that.    *)
(***************************************************************************)
EXTENDS Integers

CONSTANTS
    Registers,       \* integer registers
    Size,            \* instructions in a program
    Instrs,          \* instructions programs are made of
    Values,          \* what integer instructions compute
    RegisterBits,    \* width of a register
    ConditionBits,   \* RANDOMX_JUMP_BITS
    ConditionOffset, \* RANDOMX_JUMP_OFFSET
    None

Ops == {"INT", "IMUL_RCP", "ISWAP_R", "CBRANCH", "OTHER", "NOP"}

ASSUME SizeAssumption == Size \in Nat
ASSUME InstrsAssumption ==
    \A ins \in Instrs : /\ ins.op \in Ops
                        /\ ins.dst \in Registers /\ ins.src \in Registers
                        /\ ins.imm \in Nat /\ ins.cond \in Nat
ASSUME NoneAssumption == None \notin Registers

Indices == 0 .. Size - 1

\* 1 << k
Bit(k) == 2 ^ k

Word(x) == x % Bit(RegisterBits)

IsSet(x, k) == (x \div Bit(k)) % 2 = 1

WithBit(x, k) == IF IsSet(x, k) THEN x ELSE x + Bit(k)
WithoutBit(x, k) == IF IsSet(x, k) THEN x - Bit(k) ELSE x

isZeroOrPowerOf2(x) == x = 0 \/ \E k \in 0 .. RegisterBits - 1 : x = Bit(k)

\* An instruction that has no effect at all.
IsNop(ins) ==
    \/ ins.op = "NOP"
    \/ ins.op = "IMUL_RCP" /\ isZeroOrPowerOf2(ins.imm)
    \/ ins.op = "ISWAP_R" /\ ins.src = ins.dst

\* The lowest of the condition bits a branch tests.
Shift(ins) == ins.cond + ConditionOffset

\* Mutant: the bit below the condition stays as it is in the immediate.
CarryBitKept(x, shift) == x

\* The bit below the condition is cleared, if there is one.
WithoutCarryBit(x, shift) ==
    IF ConditionOffset > 0 \/ shift > 0 THEN WithoutBit(x, shift - 1) ELSE x

\* Mutant: the condition bit of the immediate is not set.
BranchImmUnset(ins) == WithoutCarryBit(ins.imm, Shift(ins))

\* What a branch adds to its register.
BranchImm(ins) == WithoutCarryBit(WithBit(ins.imm, Shift(ins)), Shift(ins))

\* (x & (ConditionMask << shift)) == 0
ConditionMet(x, shift) == (x \div Bit(shift)) % Bit(ConditionBits) = 0

-----------------------------------------------------------------------------
(* Reference definitions.                                                  *)

\* The registers an instruction changes; a branch counts for all of them.
Modified(ins) ==
    CASE IsNop(ins)                     -> {}
      [] ins.op \in {"INT", "IMUL_RCP"} /\ ~IsNop(ins) -> {ins.dst}
      [] ins.op = "ISWAP_R" /\ ~IsNop(ins) -> {ins.dst, ins.src}
      [] ins.op = "CBRANCH"             -> Registers
      [] ins.op = "OTHER"               -> {}

\* t follows the last instruction before i that modifies r; it is 0 if there is none.
FollowsLastModifier(prog, r, i, t) ==
    /\ t \in 0 .. i
    /\ t = 0 \/ r \in Modified(prog[t - 1])
    /\ \A j \in t .. i - 1 : r \notin Modified(prog[j])

Target(prog, i) == CHOOSE t \in 0 .. i : FollowsLastModifier(prog, prog[i].dst, i, t)

\* The first instruction from i on that has an effect.
Effective(prog, i) ==
    CHOOSE e \in i .. Size :
        /\ e = Size \/ ~IsNop(prog[e])
        /\ \A j \in i .. e - 1 : IsNop(prog[j])
=============================================================================
