---------------------------- MODULE HashPipeline ----------------------------
(***************************************************************************)
(* randomx_calculate_hash and the pipelined randomx_calculate_hash_first,  *)
(* _next and _last on several machines and several threads: the steps      *)
(* before the first program, one program of a chain at a time, and the     *)
(* blocks of the scratchpad that _next hashes and overwrites.              *)
(*                                                                         *)
(* Blake2b, the AES generators and a program's execution are free          *)
(* functions: their results are terms that name everything they were       *)
(* computed from.  Two terms are equal only if the code computed them from *)
(* the same data in the same way, so an equality that holds here holds for *)
(* whatever these functions compute.  The floating point environment is a  *)
(* term as well: CFROUND makes it depend on the program that ran.          *)
(***************************************************************************)
EXTENDS Naturals, Sequences

CONSTANTS
    Threads,       \* threads of the client
    VMs,           \* virtual machines
    Inputs,        \* messages to be hashed
    Configs,       \* key and version a machine is attached to
    CallerModes,   \* rounding modes the client sets for its own purposes
    ProgramCount,  \* RANDOMX_PROGRAM_COUNT
    BlockCount,    \* blocks of 64 bytes in a scratchpad
    PrefetchCount, \* PREFETCH_DISTANCE of hashAndFillAes1Rx4, in blocks
    None

ASSUME ProgramCountAssumption == ProgramCount \in Nat \ {0}
ASSUME BlockCountAssumption == BlockCount \in Nat \ {0} /\ PrefetchCount \in 0 .. BlockCount
ASSUME NoneAssumption == None \notin Inputs \cup VMs \cup CallerModes

VARIABLES
    attached,    \* each machine's cache or dataset and version
    tempHash,    \* randomx_vm::tempHash
    scratchpad,  \* contents of the machine's scratchpad
    regFile,     \* the machine's register file
    round,       \* each thread's floating point environment
    call,        \* the call a thread is in and its local variables
    output,      \* the output buffer of the last call on each machine
    begun        \* ghost: the input the client has begun on each machine

vars == <<attached, tempHash, scratchpad, regFile, round, call, output, begun>>

-----------------------------------------------------------------------------
(* Terms.                                                                  *)

Blake(x) == [blake2b |-> x]

\* The state of the generator of fillAes1Rx4 and hashAndFillAes1Rx4 after i
\* steps.  Each state is a block of the scratchpad; the last one is written
\* back to the seed the generator was given.
FillState(seed, i) == [seed |-> seed, steps |-> i]
Fill(seed) == [i \in 1 .. BlockCount |-> FillState(seed, i)]
Advanced(seed) == FillState(seed, BlockCount)

\* One program: no register, address or configuration bit survives from the
\* program before it.  It is generated from the seed and run on the
\* scratchpad in the rounding mode the thread is in, against the dataset of the machine.
Execution(seed, pad, mode, config) == [seed |-> seed, pad |-> pad, mode |-> mode, config |-> config]
Registers(e) == [registersOf |-> e]
ScratchpadAfter(e) == [i \in 1 .. BlockCount |-> [scratchpadOf |-> e, block |-> i]]
CfRound(e) == [leftBy |-> e]

Nearest == CfRound(None)        \* resetRoundingMode
SetByCaller(m) == CfRound(m)

\* The hash of the blocks, in the order in which it takes them, goes into the
\* register file, which is hashed.
FinalResult(blocks, regs) == [scratchpad |-> blocks, registers |-> regs]

-----------------------------------------------------------------------------
(* The calls.                                                              *)

Idle == [op |-> "none", vm |-> None, input |-> None, did |-> 0, chain |-> 0, pass |-> 0,
         seed |-> None, saved |-> None, hashed |-> <<>>, entered |-> None]

Free(v) == \A t \in Threads : call[t].vm # v

\* randomx_calculate_hash works on a seed of its own, the others on tempHash.
OwnSeed(t) == call[t].op = "hash"
Seed(t) == IF OwnSeed(t) THEN call[t].seed ELSE tempHash[call[t].vm]

\* entered is a ghost: the environment in which the caller made the call.
Enter(t, op, v, x) ==
    call' = [call EXCEPT ![t] = [op |-> op, vm |-> v, input |-> x, did |-> 0, chain |-> 0, pass |-> 0,
                                 seed |-> None, saved |-> None, hashed |-> <<>>, entered |-> round[t]]]

\* Mutant: the environment is saved when the call has already changed it.
PrologueSavesLate(op) == IF op = "hash" THEN <<"fill", "reset", "save">> ELSE <<"reset">>

\* What a call does before its first program, in this order.
Prologue(op) == IF op = "hash" THEN <<"save", "fill", "reset">> ELSE <<"reset">>

Before(t, what) ==
    /\ call[t] # Idle
    /\ call[t].did < Len(Prologue(call[t].op))
    /\ Prologue(call[t].op)[call[t].did + 1] = what

\* The call has come to its programs.
Ready(t) == call[t] # Idle /\ call[t].did = Len(Prologue(call[t].op))

\* initScratchpad leaves the generator's state in the seed.
InitSeed(x) == Advanced(Blake(x))

\* randomx_calculate_hash is called.
HashBegin(t, v, x) ==
    /\ call[t] = Idle /\ Free(v)
    /\ Enter(t, "hash", v, x)
    /\ begun' = [begun EXCEPT ![v] = None]
    /\ UNCHANGED <<attached, tempHash, scratchpad, regFile, round, output>>

\* fegetenv(&fpstate)
Save(t) ==
    /\ Before(t, "save")
    /\ call' = [call EXCEPT ![t].did = @ + 1, ![t].saved = round[t]]
    /\ UNCHANGED <<attached, tempHash, scratchpad, regFile, round, output, begun>>

\* blake2b and initScratchpad in randomx_calculate_hash.
InitScratchpad(t) ==
    /\ Before(t, "fill")
    /\ scratchpad' = [scratchpad EXCEPT ![call[t].vm] = Fill(Blake(call[t].input))]
    /\ call' = [call EXCEPT ![t].did = @ + 1, ![t].seed = InitSeed(call[t].input)]
    /\ UNCHANGED <<attached, tempHash, regFile, round, output, begun>>

ResetRoundingMode(t) ==
    /\ Before(t, "reset")
    /\ round' = [round EXCEPT ![t] = Nearest]
    /\ call' = [call EXCEPT ![t].did = @ + 1]
    /\ UNCHANGED <<attached, tempHash, scratchpad, regFile, output, begun>>

\* randomx_calculate_hash_first.
First(t, v, x) ==
    /\ call[t] = Idle /\ Free(v)
    /\ tempHash' = [tempHash EXCEPT ![v] = InitSeed(x)]
    /\ scratchpad' = [scratchpad EXCEPT ![v] = Fill(Blake(x))]
    /\ begun' = [begun EXCEPT ![v] = x]
    /\ UNCHANGED <<attached, regFile, round, call, output>>

\* randomx_calculate_hash_next or _last is called, by a client that does so only
\* on a machine on which it has begun an input.
PipelineBegin(t, op, v, x) ==
    /\ call[t] = Idle /\ Free(v)
    /\ begun[v] # None
    /\ Enter(t, op, v, x)
    /\ UNCHANGED <<attached, tempHash, scratchpad, regFile, round, output, begun>>

\* RANDOMX_PROGRAM_COUNT programs have run.
ChainOver(t) == call[t].chain = ProgramCount

\* randomx_vm::run, and after every program but the last the seed of the next.
Run(t) ==
    LET v == call[t].vm
        e == Execution(Seed(t), scratchpad[v], round[t], attached[v])
        next == Blake(Registers(e))
        more == call[t].chain + 1 < ProgramCount
    IN  /\ Ready(t)
        /\ ~ChainOver(t)
        /\ regFile' = [regFile EXCEPT ![v] = Registers(e)]
        /\ scratchpad' = [scratchpad EXCEPT ![v] = ScratchpadAfter(e)]
        /\ round' = [round EXCEPT ![t] = CfRound(e)]
        /\ tempHash' = [tempHash EXCEPT ![v] = IF more /\ ~OwnSeed(t) THEN next ELSE @]
        /\ call' = [call EXCEPT ![t].chain = @ + 1,
                                ![t].seed = IF more /\ OwnSeed(t) THEN next ELSE @]
        /\ UNCHANGED <<attached, output, begun>>

Ended(t) == Ready(t) /\ ChainOver(t)

Deliver(v) == output' = [output EXCEPT ![v] = FinalResult(scratchpad[v], regFile[v])]

\* getFinalResult and fesetenv(&fpstate) at the end of randomx_calculate_hash.
HashEnd(t) ==
    /\ Ended(t) /\ call[t].op = "hash"
    /\ Deliver(call[t].vm)
    /\ round' = [round EXCEPT ![t] = call[t].saved]
    /\ call' = [call EXCEPT ![t] = Idle]
    /\ UNCHANGED <<attached, tempHash, scratchpad, regFile, begun>>

\* randomx_calculate_hash_next hashes the next input into tempHash, which is the
\* seed hashAndFill is given.
HashAndFill(t) ==
    /\ Ended(t) /\ call[t].op = "next" /\ call[t].pass = 0
    /\ tempHash' = [tempHash EXCEPT ![call[t].vm] = Blake(call[t].input)]
    /\ call' = [call EXCEPT ![t].pass = 1]
    /\ UNCHANGED <<attached, scratchpad, regFile, round, output, begun>>

\* Where the two passes of the loop end: the first has a distance left for its
\* prefetches.
PassEnd(pass) == IF pass = 1 THEN BlockCount - PrefetchCount ELSE BlockCount

\* Blocks the loop has come past.
Position(t) == Len(call[t].hashed)

\* Mutant: a block is overwritten before it is hashed.
HashedAfterFill(t, i) == FillState(tempHash[call[t].vm], i)

\* Each block is hashed and then overwritten.
Hashed(t, i) == scratchpad[call[t].vm][i]

\* One block of hashAndFillAes1Rx4.
HashAndFillBlock(t) ==
    LET v == call[t].vm
        i == Position(t) + 1
    IN  /\ Ended(t) /\ call[t].pass > 0
        /\ Position(t) < PassEnd(call[t].pass)
        /\ call' = [call EXCEPT ![t].hashed = Append(@, Hashed(t, i))]
        /\ scratchpad' = [scratchpad EXCEPT ![v] = [@ EXCEPT ![i] = FillState(tempHash[v], i)]]
        /\ UNCHANGED <<attached, tempHash, regFile, round, output, begun>>

SecondPass(t) ==
    /\ Ended(t) /\ call[t].pass = 1
    /\ Position(t) >= PassEnd(1)
    /\ call' = [call EXCEPT ![t].pass = 2]
    /\ UNCHANGED <<attached, tempHash, scratchpad, regFile, round, output, begun>>

\* The end of hashAndFill and of randomx_calculate_hash_next.
NextEnd(t) ==
    LET v == call[t].vm
    IN  /\ Ended(t) /\ call[t].pass = 2
        /\ Position(t) >= PassEnd(2)
        /\ output' = [output EXCEPT ![v] = FinalResult(call[t].hashed, regFile[v])]
        /\ tempHash' = [tempHash EXCEPT ![v] = FillState(@, Position(t))]
        /\ begun' = [begun EXCEPT ![v] = call[t].input]
        /\ call' = [call EXCEPT ![t] = Idle]
        /\ UNCHANGED <<attached, scratchpad, regFile, round>>

\* The end of randomx_calculate_hash_last.
LastEnd(t) ==
    LET v == call[t].vm
    IN  /\ Ended(t) /\ call[t].op = "last"
        /\ Deliver(v)
        /\ call' = [call EXCEPT ![t] = Idle]
        /\ begun' = [begun EXCEPT ![v] = None]
        /\ UNCHANGED <<attached, tempHash, scratchpad, regFile, round>>

-----------------------------------------------------------------------------
(* The client between calls.                                               *)

\* randomx_vm_set_cache, randomx_vm_set_dataset, setFlagV2: also on a machine
\* on which an input has been begun.
Attach(v, k) ==
    /\ Free(v)
    /\ attached' = [attached EXCEPT ![v] = k]
    /\ UNCHANGED <<tempHash, scratchpad, regFile, round, call, output, begun>>

SetRound(t, m) ==
    /\ call[t] = Idle
    /\ round' = [round EXCEPT ![t] = SetByCaller(m)]
    /\ UNCHANGED <<attached, tempHash, scratchpad, regFile, call, output, begun>>

Init ==
    /\ attached \in [VMs -> Configs]
    /\ tempHash = [v \in VMs |-> None]
    /\ scratchpad = [v \in VMs |-> None]
    /\ regFile = [v \in VMs |-> None]
    /\ round = [t \in Threads |-> Nearest]
    /\ call = [t \in Threads |-> Idle]
    /\ output = [v \in VMs |-> None]
    /\ begun = [v \in VMs |-> None]

Calls(t) ==
    \E v \in VMs, x \in Inputs :
        \/ HashBegin(t, v, x)
        \/ First(t, v, x)
        \/ PipelineBegin(t, "next", v, x)
        \/ PipelineBegin(t, "last", v, None)

Steps(t) ==
    \/ Save(t) \/ InitScratchpad(t) \/ ResetRoundingMode(t)
    \/ Run(t)
    \/ HashAndFill(t) \/ HashAndFillBlock(t) \/ SecondPass(t)
    \/ HashEnd(t) \/ NextEnd(t) \/ LastEnd(t)

Next ==
    \/ \E t \in Threads : Calls(t) \/ Steps(t)
    \/ \E t \in Threads, m \in CallerModes : SetRound(t, m)
    \/ \E v \in VMs, k \in Configs : Attach(v, k)

Spec == Init /\ [][Next]_vars

-----------------------------------------------------------------------------
(* Correctness.                                                            *)

\* The chain of executions that defines the RandomX hash of x: the programs
\* follow each other without anything in between.
Chain(config, x) ==
    LET run[i \in 0 .. ProgramCount - 1] ==
            IF i = 0
            THEN Execution(Advanced(Blake(x)), Fill(Blake(x)), Nearest, config)
            ELSE Execution(Blake(Registers(run[i - 1])), ScratchpadAfter(run[i - 1]),
                           CfRound(run[i - 1]), config)
    IN  run

RandomXHash(config, x) ==
    LET last == Chain(config, x)[ProgramCount - 1]
    IN  FinalResult(ScratchpadAfter(last), Registers(last))

\* A hash is a hash.
ASSUME HashAssumption == \A k \in Configs, x \in Inputs : RandomXHash(k, x) # None

\* randomx_calculate_hash returns with the floating point environment in which
\* it was called, which its own resetRoundingMode and every program change
\* (the pipelined calls do not: the warning of randomx.h:260).
EnvironmentKept ==
    [][\A t \in Threads :
          call[t].op = "hash" /\ call'[t] = Idle => round'[t] = call[t].entered]_vars

\* Which hash a machine has put out, as the client sees it; <<None, None>> for
\* an output that is no hash.
Shown(o) ==
    IF o = None THEN None
    ELSE IF \E k \in Configs, x \in Inputs : o = RandomXHash(k, x)
    THEN CHOOSE p \in Configs \X Inputs : o = RandomXHash(p[1], p[2])
    ELSE <<None, None>>

\* The calls implement their promise: "next" and "last" return the hash of the
\* input begun one call before, in the configuration of the moment.
Sequence == INSTANCE HashSequence WITH output <- [v \in VMs |-> Shown(output[v])]
ImplementsSequence == Sequence!Spec

-----------------------------------------------------------------------------
(* Inductive invariant (HashPipelineProofs).                               *)

Over(S, f) == f = [s \in S |-> f[s]]

IsCall(c) ==
    \E op \in {"hash", "next", "last"}, v \in VMs, x \in Inputs \cup {None} :
    \E did \in 0 .. 3, i \in 0 .. ProgramCount, pass \in 0 .. 2 :
    \E seed, saved, hashed, entered :
        c = [op |-> op, vm |-> v, input |-> x, did |-> did, chain |-> i, pass |-> pass,
             seed |-> seed, saved |-> saved, hashed |-> hashed, entered |-> entered]

Shapes ==
    /\ attached \in [VMs -> Configs]
    /\ begun \in [VMs -> Inputs \cup {None}]
    /\ Over(VMs, tempHash) /\ Over(VMs, scratchpad) /\ Over(VMs, regFile) /\ Over(VMs, output)
    /\ Over(Threads, round) /\ Over(Threads, call)
    /\ \A t \in Threads : call[t] = Idle \/ IsCall(call[t])

\* No machine is in two calls.
OneCallEach == \A t, u \in Threads : t # u /\ call[t] # Idle => call[t].vm # call[u].vm

\* The input whose hash a call computes, and the executions of that hash.
Underway(t) == IF OwnSeed(t) THEN call[t].input ELSE begun[call[t].vm]
Runs(t) == Chain(attached[call[t].vm], Underway(t))

\* What First and NextEnd leave behind is where a hash begins, also when other
\* machines and other threads have worked since.
BegunKept ==
    \A v \in VMs :
        Free(v) /\ begun[v] # None =>
            /\ tempHash[v] = InitSeed(begun[v])
            /\ scratchpad[v] = Fill(Blake(begun[v]))

\* The scratchpad and the seed are those with which the hash begins.
Filled(t) == call[t].op = "hash" => call[t].did >= 2

\* The first n blocks of a scratchpad, and a scratchpad with these overwritten.
Leading(n, pad) == [i \in 1 .. n |-> pad[i]]
Overwritten(n, seed, pad) == [i \in 1 .. BlockCount |-> IF i <= n THEN FillState(seed, i) ELSE pad[i]]

\* The blocks hashed are what the last program left, the blocks before them are
\* the next input's.
BlocksRight(t, last) ==
    LET v == call[t].vm
        n == Position(t)
    IN  /\ n \in 0 .. BlockCount
        /\ call[t].pass = 0 => n = 0
        /\ call[t].hashed = Leading(n, last)
        /\ scratchpad[v] = Overwritten(n, tempHash[v], last)

\* The program that runs next is the one the hash goes on with; after the last
\* one the machine holds what it left, as far as it is not yet hashed.
ChainRight(t) ==
    LET v == call[t].vm
        i == call[t].chain
    IN  /\ Underway(t) \in Inputs
        /\ call[t].op = "hash" => begun[v] = None
        /\ call[t].op = "next" => call[t].input \in Inputs
        /\ ~Ready(t) => i = 0
        /\ ~Ready(t) /\ Filled(t) =>
              Seed(t) = InitSeed(Underway(t)) /\ scratchpad[v] = Fill(Blake(Underway(t)))
        /\ Ready(t) /\ i < ProgramCount =>
              Execution(Seed(t), scratchpad[v], round[t], attached[v]) = Runs(t)[i]
        /\ i < ProgramCount => call[t].pass = 0 /\ call[t].hashed = <<>>
        /\ i = ProgramCount =>
              /\ BlocksRight(t, ScratchpadAfter(Runs(t)[ProgramCount - 1]))
              /\ regFile[v] = Registers(Runs(t)[ProgramCount - 1])
        /\ call[t].pass > 0 => call[t].op = "next" /\ tempHash[v] = Blake(call[t].input)

\* What randomx_calculate_hash has saved is the environment of its caller; until
\* then the thread is in it.
EnvironmentRight(t) ==
    call[t].op = "hash" =>
        IF call[t].did = 0 THEN round[t] = call[t].entered ELSE call[t].saved = call[t].entered

PipelineInv ==
    /\ Shapes
    /\ OneCallEach
    /\ BegunKept
    /\ \A t \in Threads : call[t] # Idle => ChainRight(t) /\ EnvironmentRight(t)
=============================================================================
