------------------------------- MODULE Mining -------------------------------
(***************************************************************************)
(* The threads of tests/benchmark.cpp: each takes nonces from one atomic   *)
(* counter, hashes them on its own machine and adds every hash to one      *)
(* accumulator by exclusive or, one atomic word after another.  In batch   *)
(* mode the machine returns the hash of the nonce it was given one call    *)
(* before.                                                                 *)
(*                                                                         *)
(* The hash of a nonce is the nonce: a word of the accumulator is the set  *)
(* of the nonces it has been combined with an odd number of times.         *)
(***************************************************************************)
EXTENDS Naturals, FiniteSets

CONSTANTS
    Miners,      \* mining threads, each with its own virtual machine
    NoncesCount,  \* --nonces
    Words,        \* words of a hash
    NoNonce

ASSUME MinersAssumption == Miners # {} /\ IsFiniteSet(Miners)
ASSUME CountAssumption == NoncesCount \in Nat
ASSUME WordsAssumption == Words \in Nat \ {0}
ASSUME NoNonceAssumption == NoNonce \notin Nat

VARIABLES
    batch,        \* batch mode: mine<true, false>; otherwise mine<false, _>
    atomicNonce,  \* next nonce
    result,       \* AtomicHash
    nonce,        \* the nonce in each thread's block template
    begunNonce,   \* the nonce whose hash a thread's machine has begun
    hash,         \* the hash a thread's machine returned
    word,         \* the word a thread combines next
    pc

miningVars == <<batch, atomicNonce, result, nonce, begunNonce, hash, word, pc>>

XorWith(s, n) == IF n \in s THEN s \ {n} ELSE s \cup {n}

\* Where a thread goes once it has a nonce.
Then(t, where) == pc' = [pc EXCEPT ![t] = where]

\* Mutant: the counter is read and not advanced.
FetchAddLost(t) ==
    /\ nonce' = [nonce EXCEPT ![t] = atomicNonce]
    /\ UNCHANGED atomicNonce

\* atomicNonce.fetch_add(1)
FetchAdd(t) ==
    /\ nonce' = [nonce EXCEPT ![t] = atomicNonce]
    /\ atomicNonce' = atomicNonce + 1

\* The first nonce; in batch mode its hash is begun at once.
Start(t) ==
    /\ pc[t] = "start"
    /\ FetchAdd(t)
    /\ begunNonce' = [begunNonce EXCEPT ![t] = IF batch THEN atomicNonce ELSE @]
    /\ Then(t, "test")
    /\ UNCHANGED <<batch, result, hash, word>>

\* Mutant: the limit itself is hashed too.
GoesOnTooFar(t) == nonce[t] <= NoncesCount

\* while (nonce < noncesCount)
GoesOn(t) == nonce[t] < NoncesCount

Test(t) ==
    /\ pc[t] = "test"
    /\ Then(t, IF ~GoesOn(t) THEN "done" ELSE IF batch THEN "fetch" ELSE "hash")
    /\ UNCHANGED <<batch, atomicNonce, result, nonce, begunNonce, hash, word>>

\* The next nonce: before the hash in batch mode, after it otherwise.
Fetch(t) ==
    /\ pc[t] = "fetch"
    /\ FetchAdd(t)
    /\ Then(t, IF batch THEN "hash" ELSE "test")
    /\ UNCHANGED <<batch, result, begunNonce, hash, word>>

\* Mutant: the hash is taken for that of the nonce just stored.
ReturnedNew(t) == nonce[t]

\* What randomx_calculate_hash or randomx_calculate_hash_next returns.
Returned(t) == IF batch THEN begunNonce[t] ELSE nonce[t]

Hash(t) ==
    /\ pc[t] = "hash"
    /\ hash' = [hash EXCEPT ![t] = Returned(t)]
    /\ begunNonce' = [begunNonce EXCEPT ![t] = IF batch THEN nonce[t] ELSE @]
    /\ word' = [word EXCEPT ![t] = 0]
    /\ Then(t, "xor")
    /\ UNCHANGED <<batch, atomicNonce, result, nonce>>

AfterXor(t) == IF batch THEN "test" ELSE "fetch"

LastWord(t) == word[t] + 1 = Words

\* One fetch_xor of AtomicHash::xorWith.
Xor(t) ==
    /\ pc[t] = "xor"
    /\ result' = [result EXCEPT ![word[t]] = XorWith(@, hash[t])]
    /\ word' = [word EXCEPT ![t] = @ + 1]
    /\ Then(t, IF LastWord(t) THEN AfterXor(t) ELSE "xor")
    /\ UNCHANGED <<batch, atomicNonce, nonce, begunNonce, hash>>

MiningInit ==
    /\ batch \in BOOLEAN
    /\ atomicNonce = 0
    /\ result = [w \in 0 .. Words - 1 |-> {}]
    /\ nonce = [t \in Miners |-> 0]
    /\ begunNonce = [t \in Miners |-> NoNonce]
    /\ hash = [t \in Miners |-> NoNonce]
    /\ word = [t \in Miners |-> 0]
    /\ pc = [t \in Miners |-> "start"]

Step(t) == Start(t) \/ Test(t) \/ Fetch(t) \/ Hash(t) \/ Xor(t)

MiningNext == \E t \in Miners : Step(t)

\* A mining thread waits for nobody.
Fairness == \A t \in Miners : WF_miningVars(Step(t))

MiningSpec == MiningInit /\ [][MiningNext]_miningVars /\ Fairness

-----------------------------------------------------------------------------
(* Correctness.                                                            *)

TypeOK ==
    /\ batch \in BOOLEAN
    /\ atomicNonce \in Nat
    /\ result \in [0 .. Words - 1 -> SUBSET Nat]
    /\ nonce \in [Miners -> Nat]
    /\ begunNonce \in [Miners -> Nat \cup {NoNonce}]
    /\ hash \in [Miners -> Nat \cup {NoNonce}]
    /\ word \in [Miners -> 0 .. Words]
    /\ pc \in [Miners -> {"start", "test", "fetch", "hash", "xor", "done"}]

AllDone == \A t \in Miners : pc[t] = "done"

\* main prints the accumulator after joining the threads: every word then
\* combines the hash of every nonce below the limit, each once and no other,
\* however many threads there were and in whatever order they ran.
ResultComplete == AllDone => \A w \in 0 .. Words - 1 : result[w] = 0 .. NoncesCount - 1

\* The nonces a thread has taken whose hash is still to be combined with word w.
Owes(t, w) ==
    CASE pc[t] \in {"start", "done"} -> {}
      [] pc[t] = "test"              -> {nonce[t]}
      [] pc[t] = "fetch"             -> IF batch THEN {begunNonce[t]} ELSE {}
      [] pc[t] = "hash"              -> IF batch THEN {begunNonce[t], nonce[t]} ELSE {nonce[t]}
      [] pc[t] = "xor"               -> (IF batch THEN {begunNonce[t]} ELSE {})
                                        \cup (IF w >= word[t] THEN {hash[t]} ELSE {})

\* No nonce is hashed by two threads, and none that is on its way is in the
\* accumulator already: an exclusive or with it would take it out again.
NothingTwice ==
    \A w \in 0 .. Words - 1, t \in Miners :
        /\ result[w] \cap Owes(t, w) = {}
        /\ \A u \in Miners \ {t} : Owes(t, w) \cap Owes(u, w) = {}

\* A nonce taken from the counter is not lost while threads are running.
NothingLost ==
    \A w \in 0 .. Words - 1, n \in 0 .. NoncesCount - 1 :
        n < atomicNonce => n \in result[w] \/ \E t \in Miners : n \in Owes(t, w)

(* The inductive invariant.                                                *)

\* Threads and words in step; what a thread has under way lies below the limit,
\* and a thread that is done has seen the counter beyond it.
InStep ==
    \A t \in Miners :
        /\ \A w \in 0 .. Words - 1 : \A n \in Owes(t, w) : n \in Nat /\ n < atomicNonce
        /\ pc[t] = "test" /\ batch => begunNonce[t] = nonce[t]
        /\ pc[t] = "fetch" /\ batch => begunNonce[t] \in Nat /\ begunNonce[t] < NoncesCount
        /\ pc[t] = "hash" /\ batch => /\ begunNonce[t] \in Nat /\ begunNonce[t] < NoncesCount
                                      /\ begunNonce[t] < nonce[t]
        /\ pc[t] = "hash" /\ ~batch => nonce[t] < NoncesCount
        /\ pc[t] = "xor" => /\ hash[t] \in Nat /\ hash[t] < NoncesCount
                            /\ word[t] < Words
                            /\ batch => begunNonce[t] = nonce[t] /\ hash[t] < begunNonce[t]
        /\ pc[t] = "done" => NoncesCount <= atomicNonce

\* Only hashes of nonces taken and below the limit are combined.
ResultInRange ==
    \A w \in 0 .. Words - 1 : \A n \in result[w] : n < NoncesCount /\ n < atomicNonce

IInv ==
    /\ TypeOK
    /\ InStep
    /\ ResultInRange
    /\ NothingTwice
    /\ NothingLost

\* The threads that have taken a nonce at the limit or beyond it.
Late == {t \in Miners : pc[t] # "start" /\ nonce[t] >= NoncesCount}

\* A thread that goes on has a nonce below the limit, so each thread overshoots
\* the limit at most once; only batch mode begins a hash ahead.
Overshoot ==
    /\ atomicNonce <= NoncesCount + Cardinality(Late)
    /\ \A t \in Miners :
         /\ pc[t] # "start" => nonce[t] < atomicNonce
         /\ pc[t] = "fetch" => nonce[t] < NoncesCount
         /\ ~batch /\ pc[t] \in {"hash", "xor"} => nonce[t] < NoncesCount
         /\ ~batch => begunNonce[t] = NoNonce

\* A thread uses its machine as randomx.h allows, and the hash it takes for
\* that of a nonce is that nonce's: in batch mode of the nonce before.
Machines == INSTANCE HashSequence WITH
    VMs <- Miners,
    None <- NoNonce,
    begun <- begunNonce,
    Inputs <- 0 .. NoncesCount + Cardinality(Miners),
    Configs <- {"v1"},
    attached <- [t \in Miners |-> "v1"],
    output <- [t \in Miners |-> IF hash[t] = NoNonce THEN NoNonce ELSE <<"v1", hash[t]>>]
DrivesMachines == Machines!Spec

\* Mining ends.
EventuallyDone == <>AllDone
=============================================================================
