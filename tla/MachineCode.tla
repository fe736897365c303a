------------------------------ MODULE MachineCode ------------------------------
(***************************************************************************)
(* The processors the compilers generate code for, as far as that code     *)
(* needs them.  A machine instruction is <<op, d, a, b, n>>: destination,   *)
(* two operands and its length in bytes.  Registers are numbers; an operand *)
(* from Imm(0) on is an immediate.                                         *)
(***************************************************************************)
EXTENDS MachineWords

CONSTANTS
    ScratchpadBase, \* where the scratchpad, the cache, the dataset and the literals are
    CacheBase,
    DatasetBase,
    PoolBase

I(op, d, a, b, n) == <<op, d, a, b, n>>
Imm(x) == 1000 + Word(x)
Bytes(ops) == FoldLeft(LAMBDA sum, u : sum + u[5], 0, ops)

\* Registers.  Lo and Hi are the two lanes of a vector register, F a scalar
\* floating-point register, Lane a half word of the vectors that hold literals.
Lo(i) == 32 + 2 * i
Hi(i) == 33 + 2 * i
F(i) == 96 + i
Lane(k) == 128 + k
\* From 192 on: the stack pointer of ARM64 and what is not a register of any machine.
Regs == 0 .. 199

\* One instruction on both lanes.
Both(op, d, a, b, n) == <<I(op, Lo(d), Lo(a), Lo(b), n), I(op, Hi(d), Hi(a), Hi(b), 0)>>

\* The state of a compiler: the code of the instruction it works on, how many
\* literals it has placed, and what it has written into the pool of literals; for
\* SuperscalarHash also the position of the code, of its next literal, and where
\* the literals begin that the pool register points to.
CompilerState ==
    [ops |-> <<>>, rcpCount |-> 0, num32bitLiterals |-> 0, literals |-> <<>>,
     codePos |-> 0, literalPos |-> 0, poolStart |-> 0]
Emit(state, ops) == [state EXCEPT !.ops = @ \o ops]
WithLiteral(state, address, x) ==
    [state EXCEPT !.literals = [k \in {address} \cup DOMAIN @ |-> IF k = address THEN x ELSE @[k]]]

-----------------------------------------------------------------------------

\* x: registers, written: the cells of memory written to, literals: the pool,
\* mode: the rounding mode, jump: whether the last branch of the program jumps,
\* skip: bytes of code a branch of the machine still has to pass over.
Machine(x, literals) ==
    [x |-> x, written |-> <<>>, literals |-> literals, mode |-> 0, jump |-> FALSE, skip |-> 0]

Val(m, o) == IF o >= 1000 THEN o - 1000 ELSE m.x[o]

\* Outside of the scratchpad, the cache and the dataset memory holds something else.
MemoryCell(m, address) ==
    IF address \in DOMAIN m.written THEN m.written[address]
    ELSE IF address - ScratchpadBase \in Cells THEN Content(address - ScratchpadBase)
    ELSE IF address - CacheBase \in CacheCells THEN CacheContent(address - CacheBase)
    ELSE IF address - DatasetBase \in 0 .. 2 * Half THEN DatasetCell(address - DatasetBase)
    ELSE (address * 29 + 7) % Half
Literal(m, address) ==
    IF address \in DOMAIN m.literals THEN m.literals[address] ELSE 0

\* Results of arithmetic instructions.
Alu(op, x, y, rm) ==
    CASE op = "mov"  -> x
      [] op = "add"  -> Word(x + y)
      [] op = "add2" -> Word(x + 2 * y)
      [] op = "add4" -> Word(x + 4 * y)
      [] op = "add8" -> Word(x + 8 * y)
      [] op = "sub"  -> Word(x - y)
      [] op = "and"  -> And(x, y)
      [] op = "or"   -> Or(x, y)
      [] op = "xor"  -> Xor(x, y)
      [] op = "mul"  -> Mul(x, y)
      [] op = "mulh" -> MulHigh(x, y)
      [] op = "smulh" -> MulHighSigned(x, y)
      [] op = "sll"  -> Shl(x, y)
      [] op = "srl"  -> Shr(x, y)
      [] op = "ror"  -> Ror(x, y)
      [] op = "rol"  -> Rol(x, y)
      \* on half words: the sum sign-extended, the sum and the conjunction zero-extended
      [] op = "addw"  -> SignExtend(x + y)
      [] op = "add32" -> (x + y) % Half
      [] op = "and32" -> And(x % Half, y)
      [] op = "sext"  -> SignExtend(x)
      [] op = "zext"  -> x % Half
      \* movk: the low quarter is replaced
      [] op = "movk" -> x - (x % 16) + y
      [] op = "rbit" -> ReverseBits(x)
      [] op = "cvt"  -> Convert(x)
      [] op = "fadd" -> FAdd(x, y, rm)
      [] op = "fsub" -> FSub(x, y, rm)
      [] op = "fmul" -> FMul(x, y, rm)
      [] op = "fdiv" -> FDiv(x, y, rm)
      [] op = "fsqrt" -> FSqrt(x, rm)

\* The rounding modes as RandomX numbers them: nearest, down, up, to zero.
NoMode == 9
\* mxcsr, scaled: the mode in bits 2 and 3, all other bits as 40896 leaves them.
MxcsrBits == 193
FromMxcsr(x) == IF x - (4 * ((x \div 4) % 4)) = MxcsrBits THEN (x \div 4) % 4 ELSE NoMode
\* fpcr, scaled: the mode in bits 4 and 5; ARM numbers up and down the other way round.
FromFpcr(x) == IF x \in {0, 16, 32, 48} THEN <<0, 2, 1, 3>>[x \div 16 + 1] ELSE NoMode
\* frm of RISC-V.
FromFrm(x) == IF x \in 0 .. 3 THEN <<0, 3, 1, 2>>[x + 1] ELSE NoMode

Store(m, address, x) ==
    [m EXCEPT !.written = (address :> x % Half) @@ (address + 1 :> x \div Half) @@ @]
\* Two registers in a row.
PairAt(m, k) == <<m.x[k], m.x[k + 1]>>
SetPair(m, k, x) == [m EXCEPT !.x[k] = x[1], !.x[k + 1] = x[2]]

Apply(m, u) ==
    LET d == u[2]  a == Val(m, u[3])  b == Val(m, u[4])
    IN CASE u[1] = "nop" -> m
         [] u[1] = "ld" ->
              [m EXCEPT !.x[d] = MemoryCell(m, Word(a + b)) + Half * MemoryCell(m, Word(a + b + 1))]
         [] u[1] = "lw" -> [m EXCEPT !.x[d] = SignExtend(MemoryCell(m, Word(a + b)))]
         [] u[1] = "lit" -> [m EXCEPT !.x[d] = Literal(m, Word(a + b))]
         [] u[1] = "lwu" -> [m EXCEPT !.x[d] = MemoryCell(m, Word(a + b))]
         \* d is the value stored
         [] u[1] = "sd" -> Store(m, Word(a + b), m.x[d])
         [] u[1] = "sw" -> [m EXCEPT !.written = (Word(a + b) :> m.x[d] % Half) @@ @]
         \* a word of an item, whichever way it is computed
         [] u[1] = "item" -> [m EXCEPT !.x[d] = DatasetWord(a, b)]
         \* AES, on a pair of registers; ARM has the key first and the mixing separately
         [] u[1] = "aesenc" -> SetPair(m, d, aesenc(PairAt(m, u[3]), PairAt(m, u[4])))
         [] u[1] = "aesdec" -> SetPair(m, d, aesdec(PairAt(m, u[3]), PairAt(m, u[4])))
         [] u[1] = "aese" -> SetPair(m, d, SubBytes(XorKey(PairAt(m, u[3]), PairAt(m, u[4]))))
         [] u[1] = "aesd" -> SetPair(m, d, InvSubBytes(XorKey(PairAt(m, u[3]), PairAt(m, u[4]))))
         [] u[1] = "aesmc" -> SetPair(m, d, MixColumns(PairAt(m, u[3])))
         [] u[1] = "aesimc" -> SetPair(m, d, InvMixColumns(PairAt(m, u[3])))
         \* RISC-V adds the key in between
         [] u[1] = "vaesdm" ->
              SetPair(m, d, InvMixColumns(XorKey(InvSubBytes(PairAt(m, u[3])), PairAt(m, u[4]))))
         \* the loop goes on
         [] u[1] = "loop" -> [m EXCEPT !.jump = a # 0]
         \* bits inserted: two of them at bit b, or those the mask b leaves out
         [] u[1] = "bfi" ->
              [m EXCEPT !.x[d] = And(@, Not(3 * 2^b)) + (a % 4) * 2^b]
         [] u[1] = "bif" -> [m EXCEPT !.x[d] = Or(And(@, b), And(a, Not(b)))]
         [] u[1] = "xchg" -> [m EXCEPT !.x[d] = a, !.x[u[3]] = m.x[d]]
         [] u[1] = "ldmxcsr" -> [m EXCEPT !.mode = FromMxcsr(a)]
         [] u[1] = "msr"  -> [m EXCEPT !.mode = FromFpcr(a)]
         [] u[1] = "fsrm" -> [m EXCEPT !.mode = FromFrm(a)]
         \* the branch of the program
         [] u[1] = "branch" -> [m EXCEPT !.jump = And(a, b) = 0]
         \* a forward branch, over d bytes from its own beginning
         [] u[1] = "bnez" -> IF And(a, b) = 0 THEN m ELSE [m EXCEPT !.skip = d - u[5]]
         [] OTHER -> [m EXCEPT !.x[d] = Alu(u[1], a, b, m.mode)]

Step(m, u) == IF m.skip = 0 THEN Apply(m, u) ELSE [m EXCEPT !.skip = @ - u[5]]
RunCode(m, ops) == FoldLeft(Step, m, ops)
\* Code in pieces, each of which begins where the one before has ended.
RunPieces(m, pieces) ==
    FoldLeft(LAMBDA before, ops : IF before.skip >= 0 THEN RunCode(before, ops) ELSE before, m, pieces)

-----------------------------------------------------------------------------
(* What the templates of the main loop have in common.  An address counts  *)
(* half words, so a word is two apart from the next, a line is sixteen and *)
(* an offset of n bytes in a template is n / 4 here.                       *)

O(op, d, a, b) == I(op, d, a, b, 0)
Each(n, ops(_)) == FlattenSeq([k \in 1 .. n |-> ops(k - 1)])

\* The fields of the register file and of the memory registers, in half words.
FileR == 0
FileF == 16
FileE == 32
FileA == 48
MemMemory == 2

\* Registers that no machine has, for code that is not translated.
Scratch == 193
Scratch2 == 194
Scratch3 == 195

\* The code of SuperscalarHash: the registers item[k] get the item of the number;
\* it needs the cache in its register.
ItemIn(item, number, cache) ==
    <<O("mov", Scratch, number, 0), O("sub", Scratch2, cache, Imm(CacheBase))>>
    \o Each(8, LAMBDA k : <<O("item", item[k], Scratch, Imm(k)), O("add", item[k], item[k], Scratch2)>>)
\* The same, with the item written to memory.
ItemAt(address, number, cache) ==
    <<O("mov", Scratch, number, 0), O("sub", Scratch2, cache, Imm(CacheBase))>>
    \o Each(8, LAMBDA k : <<O("item", Scratch3, Scratch, Imm(k)), O("add", Scratch3, Scratch3, Scratch2),
                            O("sd", Scratch3, address, Imm(2 * k))>>)
\* Registers a call leaves something in.
Clobber(registers) ==
    [k \in DOMAIN registers |-> O("mov", registers[k], Imm(7919 + 31 * registers[k]), 0)]

\* All registers after code that keeps those of a set, and holds the given ones.
Left(k) == Word(40503 + 257 * k)
AfterProgram(m, keeps, holds) ==
    [k \in Regs |-> IF k \in DOMAIN holds THEN holds[k] ELSE IF k \in keeps THEN m.x[k] ELSE Left(k)]

=============================================================================
