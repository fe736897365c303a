------------------------------ MODULE DatasetItem ------------------------------
(***************************************************************************)
(* How an item of the dataset is computed from the cache: initDatasetItem, *)
(* with the programs of SuperscalarHash as the generator made them.  The    *)
(* specification the code generated for SuperscalarHash has to implement,  *)
(* whatever list of programs the cache was initialised with before.        *)
(***************************************************************************)
EXTENDS MachineWords

CONSTANTS
    Lists,    \* lists of programs, of RANDOMX_CACHE_ACCESSES programs each
    Numbers   \* of items

VARIABLES
    programs,  \* of the cache: code and address register of each
    i, j,      \* executeSuperscalar is at instruction j + 1 of program i; i = 0: returned
    rl,
    mixBlock   \* the line of the cache; 0 when returned

itemVars == <<programs, i, j, rl, mixBlock>>

InitialRegisters(itemNumber) ==
    LET r0 == Mul(Word(itemNumber + 1), superscalarMul0)
    IN  [q \in 0 .. 7 |-> IF q = 0 THEN r0 ELSE Xor(r0, superscalarAdd[q])]

getMixBlock(registerValue) == registerValue % 2^CacheBits
MixWord(line, q) ==
    CacheContent(line * LineCells + 2 * q) + Half * CacheContent(line * LineCells + 2 * q + 1)

\* What dst becomes.
Result(isn, r) ==
    LET dst == r[isn.dst]  src == r[isn.src]
    IN CASE isn.op = "ISUB_R" -> Word(dst - src)
         [] isn.op = "IXOR_R" -> Xor(dst, src)
         [] isn.op = "IADD_RS" -> Word(dst + Shl(src, isn.modShift))
         [] isn.op = "IMUL_R" -> Mul(dst, src)
         [] isn.op = "IROR_C" -> Ror(dst, isn.imm)
         [] isn.op = "IADD_C" -> Word(dst + SignExtend(isn.imm))
         [] isn.op = "IXOR_C" -> Xor(dst, SignExtend(isn.imm))
         [] isn.op = "IMULH_R" -> MulHigh(dst, src)
         [] isn.op = "ISMULH_R" -> MulHighSigned(dst, src)
         [] isn.op = "IMUL_RCP" -> Mul(dst, randomx_reciprocal(isn.imm))

-----------------------------------------------------------------------------

Init ==
    /\ programs = <<>>
    /\ i = 0
    /\ j = 0
    /\ rl \in [0 .. 7 -> 0 .. Size - 1]
    /\ mixBlock = 0

\* The cache is initialised, for the first time or with another key.
initCache ==
    /\ i = 0
    /\ programs' \in Lists
    /\ UNCHANGED <<i, j, rl, mixBlock>>

initDatasetItem ==
    /\ programs # <<>>
    /\ i = 0
    /\ i' = 1
    /\ j' = 0
    /\ \E itemNumber \in Numbers :
          /\ rl' = InitialRegisters(itemNumber)
          /\ mixBlock' = getMixBlock(itemNumber)
    /\ UNCHANGED programs

executeSuperscalar ==
    /\ i \in DOMAIN programs
    /\ j < Len(programs[i].code)
    /\ LET isn == programs[i].code[j + 1]
       IN  rl' = [rl EXCEPT ![isn.dst] = Result(isn, rl)]
    /\ j' = j + 1
    /\ UNCHANGED <<programs, i, mixBlock>>

\* The line is mixed in; the last turn of the loop returns the registers.
Mix ==
    /\ i \in DOMAIN programs
    /\ j = Len(programs[i].code)
    /\ rl' = [q \in 0 .. 7 |-> Xor(rl[q], MixWord(mixBlock, q))]
    /\ IF i < Len(programs)
       THEN i' = i + 1 /\ mixBlock' = getMixBlock(rl'[programs[i].addressRegister])
       ELSE i' = 0 /\ mixBlock' = 0
    /\ j' = 0
    /\ UNCHANGED programs

Next == initCache \/ initDatasetItem \/ executeSuperscalar \/ Mix

Spec == Init /\ [][Next]_itemVars

=============================================================================
