---------------------------- MODULE SuperscalarCode ----------------------------
(***************************************************************************)
(* The native code of SuperscalarHash, from the initialisation of a cache  *)
(* to the items of the dataset: initCache replaces divisors by indices of  *)
(* their reciprocals, generateSuperscalarHash of each compiler turns the   *)
(* list of programs into one piece of code with its literals, and that     *)
(* code computes items.  A cache is initialised more than once, and        *)
(* everything is written over what the list before has left behind.  The    *)
(* text of the assembly generator, which has a program and no frame, runs   *)
(* in that of the x86 compiler.                                            *)
(***************************************************************************)
EXTENDS MachineCode, FiniteSets

CONSTANTS
    Backends,  \* among AllBackends
    Histories, \* the lists of programs a cache is initialised with, one after the other
    Numbers,   \* items computed, in this order
    LowBits, LuiBits,            \* CodeRv64, CodeRv64Vector
    MovBits, AddLowBits, AddBits \* CodeA64

X86 == INSTANCE CodeX86
Asm == INSTANCE CodeAssembly
A64 == INSTANCE CodeA64
Rv64 == INSTANCE CodeRv64 WITH HasZba <- FALSE, HasZbb <- FALSE
Rv64Z == INSTANCE CodeRv64 WITH HasZba <- TRUE, HasZbb <- TRUE
Rvv == INSTANCE CodeRv64Vector WITH HasZba <- FALSE, HasZbb <- FALSE, HasZvkb <- FALSE
RvvZ == INSTANCE CodeRv64Vector WITH HasZba <- TRUE, HasZbb <- TRUE, HasZvkb <- TRUE

AllBackends == {"interpreter", "assembly", "c", "x86", "a64", "rv64", "rv64z", "rvv", "rvvz"}

VARIABLES
    backend,
    history,  \* lists still to come
    programs, \* as the generator made them
    cache,    \* cache->programs and cache->reciprocalCache
    state,    \* the compiler
    code,     \* of the items: one piece per step
    turns,    \* of the compiler's loops still to come
    numbers,  \* items still to be computed from this cache
    pc,       \* pieces executed
    i, j,     \* the program they belong to, and the instruction
    m

vars == <<backend, history, programs, cache, state, code, turns, numbers, pc, i, j, m>>

-----------------------------------------------------------------------------
(* initCache.                                                              *)

IsRcp(isn) == isn.op = "IMUL_RCP"
CountRcp(list, p, k) ==
    FoldLeft(LAMBDA sum, q : sum + Len(SelectSeq(list[q].code, IsRcp)), 0, [q \in 1 .. p - 1 |-> q])
      + Len(SelectSeq(SubSeq(list[p].code, 1, k), IsRcp))
Indexed(list) ==
    [p \in DOMAIN list |->
        [list[p] EXCEPT !.code =
            [k \in DOMAIN @ |-> IF IsRcp(@[k]) THEN [@[k] EXCEPT !.imm = CountRcp(list, p, k - 1)] ELSE @[k]]]]
Reciprocals(list) ==
    LET divisors == SelectSeq(FlattenSeq([p \in DOMAIN list |-> list[p].code]), IsRcp)
    IN  [k \in DOMAIN divisors |-> randomx_reciprocal(divisors[k].imm)]

-----------------------------------------------------------------------------
(* The backends.                                                           *)

\* executeSuperscalar, with the registers of the x86 code.
Interpreted(isn) ==
    IF IsRcp(isn)
    THEN <<I("mul", X86!regR(isn.dst), X86!regR(isn.dst), Imm(cache.reciprocalCache[isn.imm + 1]), 0)>>
    ELSE Asm!generateC(isn)

CleanState(s) ==
    CASE backend = "a64" -> A64!SshCompilerState(s)
      [] backend \in {"rv64", "rv64z"} -> Rv64!SshCompilerState(s)
      [] backend \in {"rvv", "rvvz"} -> Rvv!SshCompilerState(s)
      [] OTHER -> s
\* Up to the first program.
Begun(s) ==
    CASE backend = "a64" -> A64!SshPrefetch(A64!SshInit(s), cache.programs[1], cache.reciprocalCache)
      [] backend \in {"rv64", "rv64z"} -> Emit(s, Rv64!SshInit)
      [] backend \in {"rvv", "rvvz"} -> Emit(s, Rvv!SshInit)
      [] OTHER -> Emit(s, X86!SshInit)
Compiled(s, p, k) ==
    LET isn == cache.programs[p].code[k]
    IN CASE backend = "interpreter" -> Emit(s, Interpreted(isn))
         [] backend = "assembly" -> Emit(s, Asm!generateAsm(programs[p].code[k]))
         [] backend = "c" -> Emit(s, Asm!generateC(programs[p].code[k]))
         [] backend = "x86" -> Emit(s, X86!generateSuperscalarCode(isn, cache.reciprocalCache))
         [] backend = "a64" -> A64!generateSuperscalarCode(s, isn)
         [] backend = "rv64" -> Rv64!generateSuperscalarCode(s, isn, cache.reciprocalCache)
         [] backend = "rv64z" -> Rv64Z!generateSuperscalarCode(s, isn, cache.reciprocalCache)
         [] backend = "rvv" -> Rvv!generateSuperscalarCode(s, isn, cache.reciprocalCache)
         [] backend = "rvvz" -> RvvZ!generateSuperscalarCode(s, isn, cache.reciprocalCache)
\* From one program to the next.
Mixed(s, p) ==
    LET last == p = Len(cache.programs)
        register == cache.programs[p].addressRegister
    IN CASE backend = "a64" ->
              (LET mixed == A64!SshMix(s, register)
               IN  IF last THEN mixed ELSE A64!SshPrefetch(mixed, cache.programs[p + 1], cache.reciprocalCache))
         [] backend \in {"rv64", "rv64z"} -> Emit(s, Rv64!SshMix(register, last))
         [] backend \in {"rvv", "rvvz"} -> Emit(s, Rvv!SshMix(register, last))
         [] OTHER -> Emit(s, X86!SshMix(register, last))

\* The turns of the loops of generateSuperscalarHash: one per instruction and one
\* more per program.
Turns ==
    FlattenSeq([p \in DOMAIN cache.programs |->
                   [k \in 1 .. Len(cache.programs[p].code) + 1 |-> <<p, k>>]])
\* The vector compiler reckons with programs as a whole: 2048 words for each.
MaxSuperscalarInstrSize ==
    CASE backend = "x86" -> X86!MaxSuperscalarInstrSize
      [] backend = "a64" -> A64!MaxSuperscalarInstrSize
      [] backend \in {"rv64", "rv64z"} -> Rv64!MaxSuperscalarInstrSize

\* Where r0-r7, the line and the item number are; what the caller passes on.
HashReg(q) ==
    CASE backend = "a64" -> q
      [] backend \in {"rv64", "rv64z"} -> Rv64!regSS(q)
      [] backend \in {"rvv", "rvvz"} -> Rvv!v(q)
      [] OTHER -> X86!regR(q)
LineOf(x) ==
    CASE backend = "a64" -> (x[11] - CacheBase) \div LineCells
      [] backend \in {"rv64", "rv64z"} -> (x[Rv64!SuperscalarReg] - CacheBase) \div LineCells
      [] backend \in {"rvv", "rvvz"} -> x[Rvv!v(9)] \div LineCells
      [] OTHER -> (x[X86!rbx] - CacheBase) \div LineCells
Called(x, number) ==
    CASE backend = "a64" -> [x EXCEPT ![0] = CacheBase, ![2] = number]
      [] backend \in {"rv64", "rv64z"} -> [x EXCEPT ![Rv64!SuperscalarReg] = number]
      [] backend \in {"rvv", "rvvz"} -> [x EXCEPT ![Rvv!v(8)] = number]
      [] OTHER -> [x EXCEPT ![X86!rbx] = number]
Clobbered ==
    CASE backend = "a64" -> A64!SshClobbered
      [] backend \in {"rv64", "rv64z"} -> Rv64!SshClobbered
      [] backend \in {"rvv", "rvvz"} -> Rvv!SshClobbered
      [] OTHER -> X86!SshClobbered
\* What the registers hold when the code is called: the caller's own, and the cache.
Caller(k) ==
    CASE backend \in {"rv64", "rv64z", "rvv", "rvvz"} /\ k = 0 -> 0
      [] backend = "a64" /\ k = A64!xzr -> 0
      [] backend \in {"rv64", "rv64z"} /\ k = Rv64!DataReg -> CacheBase
      [] backend \in {"rvv", "rvvz"} /\ k \in {Rvv!CachePointer, Rvv!CacheMaskReg} \cup {Rvv!v(q) : q \in 10 .. 17} ->
           Rvv!SshEnvironment(k)
      [] backend \in {"interpreter", "assembly", "c", "x86"} /\ k = X86!rdi -> CacheBase
      [] OTHER -> Word(977 * k + 3)

-----------------------------------------------------------------------------

Init ==
    /\ backend \in Backends
    /\ history \in Histories
    /\ programs = <<>>
    /\ cache = [programs |-> <<>>, reciprocalCache |-> <<>>]
    /\ state = CompilerState
    /\ code = <<>>
    /\ turns = <<>>
    /\ numbers = <<>>
    /\ pc = 0
    /\ i = 0
    /\ j = 0
    /\ m = Machine([k \in Regs |-> Caller(k)], <<>>)

\* The reciprocals of the list before are dropped.
initCache ==
    /\ history # <<>>
    /\ i = 0
    /\ numbers = <<>>
    /\ turns = <<>>
    /\ programs' = Head(history)
    /\ cache' = [programs |-> Indexed(Head(history)), reciprocalCache |-> Reciprocals(Head(history))]
    /\ history' = Tail(history)
    /\ code' = <<>>
    /\ UNCHANGED <<backend, state, turns, numbers, pc, i, j, m>>

\* generateSuperscalarHash
StartHash ==
    /\ programs # <<>>
    /\ code = <<>>
    /\ LET s == Begun(CleanState([state EXCEPT !.ops = <<>>]))
       IN  state' = s /\ code' = <<s.ops>>
    /\ turns' = Turns
    /\ UNCHANGED <<backend, history, programs, cache, numbers, pc, i, j, m>>
generateSuperscalarHash ==
    /\ turns # <<>>
    /\ LET p == turns[1][1]
           k == turns[1][2]
           clean == [state EXCEPT !.ops = <<>>]
           s == IF k <= Len(programs[p].code) THEN Compiled(clean, p, k) ELSE Mixed(clean, p)
       IN  state' = s /\ code' = Append(code, s.ops)
    /\ turns' = Tail(turns)
    /\ IF turns' = <<>> THEN numbers' = Numbers /\ m' = [m EXCEPT !.literals = state'.literals]
                        ELSE UNCHANGED <<numbers, m>>
    /\ UNCHANGED <<backend, history, programs, cache, pc, i, j>>

\* The code is called for the next item.
initDatasetItem ==
    /\ numbers # <<>>
    /\ i = 0
    /\ m' = RunCode([m EXCEPT !.x = Called(@, Head(numbers))], code[1])
    /\ numbers' = Tail(numbers)
    /\ pc' = 1
    /\ i' = 1
    /\ j' = 0
    /\ UNCHANGED <<backend, history, programs, cache, state, code, turns>>

\* The code of one instruction.
executeSuperscalar ==
    /\ i # 0
    /\ j < Len(programs[i].code)
    /\ m' = RunCode(m, code[pc + 1])
    /\ pc' = pc + 1
    /\ j' = j + 1
    /\ UNCHANGED <<backend, history, programs, cache, state, code, turns, numbers, i>>

\* The code between two programs, or after the last one.
Mix ==
    /\ i # 0
    /\ j = Len(programs[i].code)
    /\ m' = RunCode(m, code[pc + 1])
    /\ IF i < Len(programs) THEN pc' = pc + 1 /\ i' = i + 1
                            ELSE pc' = 0 /\ i' = 0
    /\ j' = 0
    /\ UNCHANGED <<backend, history, programs, cache, state, code, turns, numbers>>

Next == initCache \/ StartHash \/ generateSuperscalarHash \/ initDatasetItem \/ executeSuperscalar \/ Mix

Spec == Init /\ [][Next]_vars

-----------------------------------------------------------------------------
(* Properties.                                                             *)

Item == INSTANCE DatasetItem WITH
    Lists <- UNION {{h[k] : k \in DOMAIN h} : h \in Histories},
    Numbers <- {Numbers[k] : k \in DOMAIN Numbers},
    rl <- [q \in 0 .. 7 |-> m.x[HashReg(q)]],
    mixBlock <- IF i = 0 THEN 0 ELSE LineOf(m.x)

\* Native code, interpreted programs and printed text compute the same item from
\* the same cache, whatever the cache was initialised with before and whatever item
\* was computed before: every literal is found where the code looks for it, however
\* many there are.  generateSuperscalarHash against initDatasetItem.
ImplementsItem == Item!Spec

\* The code is called between the instructions of a program in light mode: of the
\* registers it changes no others than its callers reckon with, and it writes to no
\* memory.
RegistersKept ==
    /\ \A k \in Regs \ Clobbered : m.x[k] = Caller(k)
    /\ m.written = <<>>

\* The code generated for an instruction, its literal included where that is part of
\* the code, is no longer than the share of the buffer the compiler reckons with.
HashCodeFits ==
    [][turns # <<>> /\ turns' = Tail(turns) /\ backend \in {"x86", "a64", "rv64", "rv64z"} =>
        LET isns == programs[turns[1][1]].code
            k == turns[1][2]
            literal == IF backend = "a64" /\ IsRcp(isns[k]) THEN 8 ELSE 0
        IN  k <= Len(isns) => Bytes(code'[Len(code')]) + literal <= MaxSuperscalarInstrSize]_vars

=============================================================================
