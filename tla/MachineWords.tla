----------------------------- MODULE MachineWords -----------------------------
(***************************************************************************)
(* The words the generated code computes with, scaled down so that TLC can *)
(* go through every immediate: a register has 16 bits instead of 64 and an *)
(* immediate, or half of a memory word, has ImmBits = 8 instead of 32.     *)
(* The constants give the other widths the compilers depend on; the order  *)
(* between them is that of the real ones.  Floating-point results are      *)
(* stood for by fixed functions of the operands and the rounding mode:     *)
(* which operands meet in which mode is all the properties can tell apart. *)
(***************************************************************************)
EXTENDS Integers, Sequences, Folds, TLC

CONSTANTS
    ImmBits,           \* 32: an immediate, a half word
    L1Bits, L2Bits, L3Bits, \* 14, 18, 21: log2 of the sizes of the scratchpad levels
    ConditionOffset,   \* 8: RANDOMX_JUMP_OFFSET
    JumpBits,          \* 8: RANDOMX_JUMP_BITS
    StoreL3Condition,  \* 14
    CacheBits          \* 22: log2 of the number of lines of the cache

Size == 2^16
Half == 2^ImmBits

ASSUME WidthsAssumption ==
    /\ 2 * ImmBits = 16
    /\ 1 < L1Bits /\ L1Bits < L2Bits /\ L2Bits < L3Bits /\ L3Bits + 1 < ImmBits
    /\ ConditionOffset > 0 /\ JumpBits > 0
    /\ ConditionOffset + 2 + JumpBits <= ImmBits

\* The two operators on sequences the code is run and put together with.  SequencesExt
\* has them, but each of the seven instances of the compilers would copy the whole of
\* that module, which the proofs about them then carry through every step.
Largest(S) == CHOOSE x \in S : \A y \in S : y <= x
FoldLeft(op(_, _), base, seq) ==
    MapThenFoldSet(LAMBDA item, acc : op(acc, item), base, LAMBDA k : seq[k], Largest, DOMAIN seq)
FlattenSeq(pieces) == FoldLeft(LAMBDA whole, piece : whole \o piece, <<>>, pieces)

Word(x) == x % Size
Negative(x, n) == x % 2^n >= 2^(n - 1)
\* The low n bits of x read as a signed number.
SignedBits(x, n) == IF Negative(x, n) THEN (x % 2^n) - 2^n ELSE x % 2^n
Signed(w) == SignedBits(w, 16)
\* signExtend2sCompl
SignExtend(x) == Word(SignedBits(x, ImmBits))

Bit(x, k) == (x \div 2^k) % 2
And4 == [x \in 0 .. 15 |-> [y \in 0 .. 15 |->
            Bit(x, 0) * Bit(y, 0) + 2 * Bit(x, 1) * Bit(y, 1)
              + 4 * Bit(x, 2) * Bit(y, 2) + 8 * Bit(x, 3) * Bit(y, 3)]]
And(x, y) ==
    And4[x % 16][y % 16] + 16 * And4[(x \div 16) % 16][(y \div 16) % 16]
      + 256 * And4[(x \div 256) % 16][(y \div 256) % 16]
      + 4096 * And4[x \div 4096][y \div 4096]
Or(x, y) == x + y - And(x, y)
Xor(x, y) == x + y - 2 * And(x, y)
Not(x) == Size - 1 - x

\* Shifts and rotations take the low bits of their count, as the processors do.
Shl(x, n) == (x * 2^(n % 16)) % Size
Shr(x, n) == x \div 2^(n % 16)
Ror(x, n) == IF n % 16 = 0 THEN x ELSE Shl(x, 16 - (n % 16)) + Shr(x, n)
Rol(x, n) == Ror(x, 16 - (n % 16))
ReverseBits(x) == FoldLeft(LAMBDA acc, k : 2 * acc + Bit(x, k), 0, [k \in 1 .. 16 |-> k - 1])

Mul(x, y) == (x * (y % 256) + ((x * (y \div 256)) % 256) * 256) % Size
MulHigh(x, y) ==
    LET low == (x % 256) * (y % 256)
        mid == (x \div 256) * (y % 256) + (x % 256) * (y \div 256) + low \div 256
    IN  (x \div 256) * (y \div 256) + mid \div 256
MulHighSigned(x, y) == Word((Signed(x) * Signed(y)) \div Size)

-----------------------------------------------------------------------------
(* reciprocal.c.                                                           *)

isZeroOrPowerOf2(x) == x = 0 \/ \E k \in 0 .. ImmBits : x = 2^k

\* The position of the highest bit that is set.
Log2(x) == CHOOSE k \in 0 .. ImmBits : 2^k <= x /\ x < 2^(k + 1)

\* The portable form: two divisions of one word by the divisor.
randomx_reciprocal(divisor) ==
    LET shift == Log2(divisor) + 1
        q == 2^15 \div divisor
        r == 2^15 % divisor
    IN  Word(Shl(q, shift) + Shl(r, shift) \div divisor)

\* The assembly form: one division of two words.
ReciprocalAsm(divisor) == Word((Size * 2^Log2(divisor)) \div divisor)

-----------------------------------------------------------------------------
(* Floating point.                                                         *)

FAdd(x, y, rm) == Word(3 * x + 5 * y + 7 * rm + 11)
FSub(x, y, rm) == Word(3 * x + 9 * y + 13 * rm + 5)
FMul(x, y, rm) == Word(5 * x + 3 * y + 17 * rm + 23)
FDiv(x, y, rm) == Word(7 * x + 5 * y + 19 * rm + 31)
FSqrt(x, rm) == Word(9 * x + 21 * rm + 41)
\* An integer of half the width converts without rounding and leaves the lowest
\* bits of the mantissa zero.
Convert(x) == Word(4 * (5 * x + 9))

FscalMask == 33008      \* 80F0...
ExponentClear == 4095   \* dynamicMantissaMask
EMask == <<12290, 20481>> \* eMask[0], eMask[1]: an exponent and random lowest bits

-----------------------------------------------------------------------------
(* Instructions and the scratchpad.                                        *)

Instruction(op, dst, src, imm, modMem, modShift, modCond) ==
    [op |-> op, dst |-> dst, src |-> src, imm |-> imm,
     modMem |-> modMem, modShift |-> modShift, modCond |-> modCond]

\* Addresses count half words; a mask keeps an address inside its level and aligned.
ScratchpadMask(bits) == 2^bits - 2
ScratchpadL1Mask == ScratchpadMask(L1Bits)
ScratchpadL2Mask == ScratchpadMask(L2Bits)
ScratchpadL3Mask == ScratchpadMask(L3Bits)
Cells == 0 .. 2^L3Bits - 1
\* What the scratchpad holds before the program writes to it.
Content(cell) == (cell * 73 + 19) % Half

\* The cache: lines of eight words.
LineCells == 16
CacheMask == 2^CacheBits - 1
CacheCells == 0 .. 2^CacheBits * LineCells - 1
\* superscalarMul0, superscalarAdd1 to superscalarAdd7
superscalarMul0 == 32557
superscalarAdd == <<47612, 61862, 13468, 48034, 11213, 60014, 31365>>
CacheContent(cell) == (cell * 29 + 7 + cell \div LineCells) % Half

ConditionMask == 2^JumpBits - 1
Shift(isn) == isn.modCond + ConditionOffset
\* imm | (1 << shift), then & ~(1 << (shift - 1))
BranchImm(isn) ==
    LET shift == Shift(isn)
        set == IF Bit(isn.imm, shift) = 1 THEN isn.imm ELSE isn.imm + 2^shift
    IN  IF Bit(set, shift - 1) = 1 THEN set - 2^(shift - 1) ELSE set

-----------------------------------------------------------------------------
(* The main loop of a program.                                             *)

\* ScratchpadL3Mask64, CacheLineAlignMask: a line of the scratchpad, of the dataset
ScratchpadL3Mask64 == 2^L3Bits - LineCells
CacheLineAlignMask == Half \div 2 - LineCells
DatasetCell(cell) == (cell * 37 + 11 + cell \div LineCells) % Half
DatasetWord(item, q) ==
    DatasetCell(item * LineCells + 2 * q) + Half * DatasetCell(item * LineCells + 2 * q + 1)

\* A round of AES on 128 bits, and its inverse: the substitution with the shift of
\* the rows, and the mixing of the columns.
XorKey(x, key) == <<Xor(x[1], key[1]), Xor(x[2], key[2])>>
SubBytes(x) == <<Word(3 * x[1] + 5 * x[2] + 11), Word(7 * x[1] + 4 * x[2] + 29)>>
MixColumns(x) == <<Word(9 * x[1] + 2 * x[2]), Word(4 * x[1] + 3 * x[2])>>
InvSubBytes(x) == <<Word(5 * x[1] + 2 * x[2] + 47), Word(9 * x[1] + 7 * x[2] + 3)>>
InvMixColumns(x) == <<Word(3 * x[1] + 8 * x[2]), Word(6 * x[1] + 5 * x[2])>>
aesenc(x, key) == XorKey(MixColumns(SubBytes(x)), key)
aesdec(x, key) == XorKey(InvMixColumns(InvSubBytes(x)), key)

\* What the program itself does to the registers and the scratchpad, once for all.
ProgramR(r) == [k \in 0 .. 7 |-> Word(3 * r[k] + 1001 * k + 17)]
ProgramF(f, a) == [k \in 0 .. 3 |-> [lane \in 1 .. 2 |-> FAdd(f[k][lane], a[k][lane], 0)]]
ProgramE(e, a) == [k \in 0 .. 3 |-> [lane \in 1 .. 2 |-> FMul(e[k][lane], a[k][lane], 0)]]
ProgramStoreCell(r) == And(r[1], ScratchpadL3Mask)
ProgramStoreWord(r) == r[2]

=============================================================================
