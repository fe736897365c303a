---------------------------- MODULE DatasetInit ----------------------------
(***************************************************************************)
(* Initialising one dataset from several threads: the split of the items   *)
(* that tests/benchmark.cpp and tests/runtime-distr.cpp compute, and in    *)
(* each thread one call of randomx_init_dataset, which turns any sequence  *)
(* of items into calls of a datasetInit kernel that takes whole groups of  *)
(* four.                                                                   *)
(*                                                                         *)
(* The value of an item is its number: item i is right when the dataset    *)
(* holds i at i.  The kernel stores one item at a time in the interpreter  *)
(* and the scalar compilers, four in the RISC-V vector compiler, and tests *)
(* for the end only after a group.                                         *)
(***************************************************************************)
EXTENDS Integers, FiniteSets

CONSTANTS
    MaxItems,    \* bound on the number of dataset items
    MaxThreads,  \* bound on initThreadCount
    None         \* an item that was not written yet

ASSUME BoundsAssumption == MaxItems \in Nat \ {0} /\ MaxThreads \in Nat \ {0}
ASSUME NoneAssumption == None \notin Nat

VARIABLES
    itemCount,    \* randomx_dataset_item_count
    threadCount,  \* initThreadCount
    lanes,        \* items one kernel iteration stores
    dataset,      \* item values in dataset->memory
    buf,          \* each thread's buffer for calls of less than four items
    call,         \* the kernel call a thread is in
    pc,
    joined        \* the main thread has joined all threads

vars == <<itemCount, threadCount, lanes, dataset, buf, call, pc, joined>>

config == <<itemCount, threadCount, lanes>>

Group == 4

Items == 0 .. itemCount - 1
Threads == 0 .. threadCount - 1

-----------------------------------------------------------------------------
(* The split: equal shares, the remainder goes to the last thread.         *)

perThread == itemCount \div threadCount
remainder == itemCount % threadCount

\* Mutant: every thread gets an equal share and the remainder is forgotten.
CountEqual(t) == perThread

StartItem(t) == t * perThread
Count(t) == perThread + (IF t = threadCount - 1 THEN remainder ELSE 0)

\* The items thread t was asked to initialise.
Share(t) == StartItem(t) .. StartItem(t) + Count(t) - 1

-----------------------------------------------------------------------------
(* One thread: randomx_init_dataset(dataset, cache, StartItem(t), Count(t)) *)

NoCall == [toBuf |-> FALSE, tail |-> FALSE, dst |-> 0, cur |-> 0, end |-> 0]

\* datasetInit(cache, memory + dst * CacheLineSize, first, last).
CallInPlace(dst, first, last, tail) ==
    [toBuf |-> FALSE, tail |-> tail, dst |-> dst, cur |-> first, end |-> last]

\* datasetInit(cache, buf, first, first + 4).
CallToBuf(first) ==
    [toBuf |-> TRUE, tail |-> FALSE, dst |-> 0, cur |-> first, end |-> first + Group]

\* The first kernel call: a short sequence is computed into the buffer, a long
\* one in place up to the last whole group.
FirstCall(t) ==
    IF Count(t) < Group
    THEN CallToBuf(StartItem(t))
    ELSE CallInPlace(StartItem(t), StartItem(t),
                     StartItem(t) + Count(t) - (Count(t) % Group), FALSE)

\* Mutant: startItem, but not the destination, moves back from the end.
TailCallStaleDst(t) ==
    LET first == StartItem(t) + Count(t) - Group
    IN  CallInPlace(StartItem(t), first, first + Group, TRUE)

\* The call for what is left over: the last four items, some of them again.
TailCall(t) ==
    LET first == StartItem(t) + Count(t) - Group
    IN  CallInPlace(first, first, first + Group, TRUE)

Enter(t) ==
    /\ pc[t] = "entry"
    /\ call' = [call EXCEPT ![t] = FirstCall(t)]
    /\ pc' = [pc EXCEPT ![t] = "kernel"]
    /\ UNCHANGED <<config, dataset, buf, joined>>

\* Where the next kernel iteration stores, as indices of its destination.
KernelStores(t) == call[t].dst .. call[t].dst + lanes - 1

\* A destination with the items of one iteration stored: the item at index i
\* is the one as far from call.cur as i is from call.dst.
Stored(memory, t) ==
    [i \in DOMAIN memory |-> IF i \in KernelStores(t) THEN call[t].cur + (i - call[t].dst)
                             ELSE memory[i]]

\* One iteration of the kernel.
Kernel(t) ==
    /\ pc[t] = "kernel"
    /\ IF call[t].toBuf
       THEN buf' = [buf EXCEPT ![t] = Stored(@, t)] /\ UNCHANGED dataset
       ELSE dataset' = Stored(dataset, t) /\ UNCHANGED buf
    /\ call' = [call EXCEPT ![t].dst = @ + lanes, ![t].cur = @ + lanes]
    /\ pc' = [pc EXCEPT ![t] = IF call[t].cur + lanes < call[t].end THEN "kernel" ELSE "return"]
    /\ UNCHANGED <<config, joined>>

\* Mutant: the tail is followed by another tail.
NeedsTailAgain(t) == ~call[t].toBuf /\ Count(t) % Group # 0

\* Back from the kernel: copy the buffer, start the tail or finish.
NeedsTail(t) == ~call[t].toBuf /\ ~call[t].tail /\ Count(t) % Group # 0

Return(t) ==
    /\ pc[t] = "return"
    /\ call' = [call EXCEPT ![t] = IF NeedsTail(t) THEN TailCall(t) ELSE @]
    /\ pc' = [pc EXCEPT ![t] = IF call[t].toBuf THEN "copy"
                               ELSE IF NeedsTail(t) THEN "kernel" ELSE "done"]
    /\ UNCHANGED <<config, dataset, buf, joined>>

\* Mutant: the whole buffer is copied.
CopiedGroup(t) == StartItem(t) .. StartItem(t) + Group - 1

\* The items memcpy takes from the buffer.
Copied(t) == StartItem(t) .. StartItem(t) + Count(t) - 1

Copy(t) ==
    /\ pc[t] = "copy"
    /\ dataset' = [i \in Items |-> IF i \in Copied(t) THEN buf[t][i - StartItem(t)] ELSE dataset[i]]
    /\ pc' = [pc EXCEPT ![t] = "done"]
    /\ UNCHANGED <<config, buf, call, joined>>

\* The main thread joins the initialisation threads.
Join ==
    /\ ~joined
    /\ \A t \in Threads : pc[t] = "done"
    /\ joined' = TRUE
    /\ UNCHANGED <<config, dataset, buf, call, pc>>

Init ==
    /\ itemCount \in 1 .. MaxItems
    /\ threadCount \in 1 .. MaxThreads
    /\ lanes \in {1, Group}
    /\ dataset = [i \in Items |-> None]
    /\ buf = [t \in Threads |-> [j \in 0 .. Group - 1 |-> None]]
    /\ call = [t \in Threads |-> NoCall]
    /\ pc = [t \in Threads |-> "entry"]
    /\ joined = FALSE

Step(t) == Enter(t) \/ Kernel(t) \/ Return(t) \/ Copy(t)

Next == Join \/ \E t \in Threads : Step(t)

\* Threads are scheduled by the operating system and none waits for another.
Fairness == WF_vars(Join) /\ \A t \in 0 .. MaxThreads - 1 : WF_vars(t \in Threads /\ Step(t))

Spec == Init /\ [][Next]_vars /\ Fairness

-----------------------------------------------------------------------------
(* Correctness.                                                            *)

Value == Nat \cup {None}

TypeOK ==
    /\ itemCount \in 1 .. MaxItems
    /\ threadCount \in 1 .. MaxThreads
    /\ lanes \in {1, Group}
    /\ dataset \in [Items -> Value]
    /\ buf \in [Threads -> [0 .. Group - 1 -> Value]]
    /\ call \in [Threads -> [toBuf: BOOLEAN, tail: BOOLEAN, dst: Nat, cur: Nat, end: Nat]]
    /\ pc \in [Threads -> {"entry", "kernel", "return", "copy", "done"}]
    /\ joined \in BOOLEAN

\* The items the next step of thread t stores to.
NextStores(t) ==
    IF pc[t] = "kernel" /\ ~call[t].toBuf THEN KernelStores(t)
    ELSE IF pc[t] = "copy" THEN Copied(t)
    ELSE {}

\* A thread stores to its own share only, whatever groups the kernel works in:
\* not to a neighbour's items and not behind the end of the dataset.
StoresOwnShare == \A t \in Threads : NextStores(t) \subseteq Share(t)

\* No two threads are ever about to store to the same item, so the threads
\* need no lock and the overlapping tail is no race.
NoRace ==
    \A t, u \in Threads : t # u => NextStores(t) \cap NextStores(u) = {}

\* Every item holds its own value or none, also while threads are running.
ItemsRight == \A i \in Items : dataset[i] \in {None, i}

(* The inductive invariant.                                                *)

\* How far thread t is: what it calls the kernel for is fixed by its share,
\* and the kernel never stops in the middle of a group.
CallRight(t) == pc[t] # "entry" =>
    /\ call[t].toBuf <=> Count(t) < Group
    /\ call[t].toBuf => /\ ~call[t].tail
                        /\ call[t].cur = StartItem(t) + call[t].dst
                        /\ call[t].end = StartItem(t) + Group
    /\ ~call[t].toBuf => /\ call[t].dst = call[t].cur
                         /\ StartItem(t) <= call[t].cur
    /\ ~call[t].toBuf /\ ~call[t].tail =>
           call[t].end = StartItem(t) + Count(t) - (Count(t) % Group)
    /\ call[t].tail => call[t].end = StartItem(t) + Count(t)
    /\ pc[t] = "kernel" => call[t].cur < call[t].end
    /\ pc[t] # "kernel" => call[t].cur = call[t].end
    /\ lanes = Group => (call[t].end - call[t].cur) % Group = 0
    /\ pc[t] = "copy" => call[t].toBuf
    /\ pc[t] = "done" => ~NeedsTail(t)

\* What lies behind the cursor of thread t is computed.
Behind(t) == pc[t] # "entry" =>
    /\ call[t].toBuf => \A j \in 0 .. Group - 1 : j < call[t].dst => buf[t][j] = StartItem(t) + j
    /\ ~call[t].toBuf =>
           \A i \in Items : StartItem(t) <= i /\ i < call[t].cur => dataset[i] = i
    /\ pc[t] = "done" => \A i \in Items : i \in Share(t) => dataset[i] = i

JoinedLast == joined => \A t \in Threads : pc[t] = "done"

IInv ==
    /\ TypeOK
    /\ ItemsRight
    /\ \A t \in Threads : CallRight(t) /\ Behind(t)
    /\ JoinedLast

\* However the items are split and grouped, the initialisation implements the
\* plain filling of a dataset: the main thread continues with every item set.
Fill == INSTANCE DatasetFill WITH ready <- {i \in Items : dataset[i] = i}
ImplementsFill == Fill!Spec

\* The initialisation ends.
EventuallyJoined == <>joined
=============================================================================
