------------------------------ MODULE ProgramLoop ------------------------------
(***************************************************************************)
(* The main loop of a program run, InterpretedVm::execute: the registers   *)
(* are mixed with a line of the scratchpad, the program is executed, an    *)
(* item of the dataset is mixed in and the registers are stored, and so    *)
(* many times over.  The specification the code every compiler puts around *)
(* a program has to implement.  Of mx and ma only the bits are kept that   *)
(* every use masks.                                                        *)
(***************************************************************************)
EXTENDS MachineWords

CONSTANTS
    Iterations,  \* RANDOMX_PROGRAM_ITERATIONS
    Configs      \* of a program: its entropy, the version, and registers a of the file

VARIABLES
    config,
    phase,       \* what execute does next
    ic,
    r, f, e, a,  \* nreg
    mx, ma,      \* mem
    spAddr0, spAddr1,
    written,     \* cells of the scratchpad
    file         \* reg, once stored

loopVars == <<config, phase, ic, r, f, e, a, mx, ma, spAddr0, spAddr1, written, file>>

Unset == <<>>
Masked(x) == And(x, CacheLineAlignMask)

Init ==
    /\ config \in Configs
    /\ phase = "enter"
    /\ ic = 0
    /\ r = [k \in 0 .. 7 |-> 0]
    /\ f = Unset /\ e = Unset /\ a = Unset
    /\ mx = Masked(config.mx)
    /\ ma = Masked(config.ma)
    /\ spAddr0 = 0
    /\ spAddr1 = 0
    /\ written = <<>>
    /\ file = Unset

-----------------------------------------------------------------------------

Cell(c) == IF c \in DOMAIN written THEN written[c] ELSE Content(c)
Load64(c) == Cell(c) + Half * Cell(c + 1)
\* rx_cvt_packed_int_vec_f128
PackedInts(c) == <<Convert(SignExtend(Cell(c))), Convert(SignExtend(Cell(c + 1)))>>
\* maskRegisterExponentMantissa
Masking(x) == [lane \in 1 .. 2 |-> Or(And(x[lane], ExponentClear), config.eMask[lane])]
\* The cells of a word, and those of several words in a row.
Words(c, words) ==
    [cell \in c .. c + 2 * Len(words) - 1 |->
        LET w == words[(cell - c) \div 2 + 1]
        IN  IF (cell - c) % 2 = 0 THEN w % Half ELSE w \div Half]
Ints == [k \in 1 .. 8 |-> r[k - 1]]

Enter ==
    /\ phase = "enter"
    /\ phase' = "load"
    /\ a' = config.a
    /\ spAddr0' = mx
    /\ spAddr1' = ma
    /\ UNCHANGED <<config, ic, r, f, e, mx, ma, written, file>>

Load ==
    /\ phase = "load"
    /\ phase' = "execute"
    /\ LET spMix == Xor(r[config.readReg[1]], r[config.readReg[2]])
       IN  /\ spAddr0' = And(Xor(spAddr0, spMix), ScratchpadL3Mask64)
           /\ spAddr1' = And(Xor(spAddr1, Shr(spMix, ImmBits)), ScratchpadL3Mask64)
    /\ r' = [k \in 0 .. 7 |-> Xor(r[k], Load64(spAddr0' + 2 * k))]
    /\ f' = [k \in 0 .. 3 |-> PackedInts(spAddr1' + 2 * k)]
    /\ e' = [k \in 0 .. 3 |-> Masking(PackedInts(spAddr1' + 2 * (4 + k)))]
    /\ UNCHANGED <<config, ic, a, mx, ma, written, file>>

\* executeBytecode
Execute ==
    /\ phase = "execute"
    /\ phase' = "read"
    /\ r' = ProgramR(r)
    /\ f' = ProgramF(f, a)
    /\ e' = ProgramE(e, a)
    /\ written' = Words(ProgramStoreCell(r), <<ProgramStoreWord(r)>>) @@ written
    /\ UNCHANGED <<config, ic, a, mx, ma, spAddr0, spAddr1, file>>

\* The item is that of ma as it was; mx is changed, in RandomX v2 ma, and the two
\* are exchanged.
DatasetRead ==
    /\ phase = "read"
    /\ phase' = "store"
    /\ LET item == (config.datasetOffset + ma) \div LineCells
           mix == Masked(Xor(r[config.readReg[3]], r[config.readReg[4]]))
       IN  /\ r' = [k \in 0 .. 7 |-> Xor(r[k], DatasetWord(item, k))]
           /\ ma' = IF config.v2 THEN mx ELSE Xor(mx, mix)
           /\ mx' = IF config.v2 THEN Xor(ma, mix) ELSE ma
    /\ UNCHANGED <<config, ic, f, e, a, spAddr0, spAddr1, written, file>>

\* Four rounds of AES per register in v2, under the registers e one after the other.
EncF(k) == FoldLeft(aesenc, f[k], [q \in 1 .. 4 |-> e[q - 1]])
DecF(k) == FoldLeft(aesdec, f[k], [q \in 1 .. 4 |-> e[q - 1]])
MixedF ==
    [k \in 0 .. 3 |-> IF ~config.v2 THEN XorKey(f[k], e[k])
                      ELSE IF k % 2 = 0 THEN EncF(k) ELSE DecF(k)]
\* Registers f go over registers r where the two lines are the same.
Store ==
    /\ phase = "store"
    /\ ic' = ic + 1
    /\ phase' = IF ic + 1 < Iterations THEN "load" ELSE "return"
    /\ f' = MixedF
    /\ written' =
         Words(spAddr0, FlattenSeq([k \in 1 .. 4 |-> MixedF[k - 1]])) @@ Words(spAddr1, Ints) @@ written
    /\ spAddr0' = 0
    /\ spAddr1' = 0
    /\ UNCHANGED <<config, r, e, a, mx, ma, file>>

\* nreg is local; mem is set anew before the next program.
Return ==
    /\ phase = "return"
    /\ phase' = "done"
    /\ file' = [r |-> r, f |-> f, e |-> e]
    /\ r' = Unset /\ f' = Unset /\ e' = Unset /\ a' = Unset
    /\ mx' = 0 /\ ma' = 0
    /\ UNCHANGED <<config, ic, spAddr0, spAddr1, written>>

Next == Enter \/ Load \/ Execute \/ DatasetRead \/ Store \/ Return

Spec == Init /\ [][Next]_loopVars

=============================================================================
