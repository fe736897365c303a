--------------------------- MODULE DatasetProofs ---------------------------
(***************************************************************************)
(* Proofs about what fills a dataset: DatasetInit, for any number of items *)
(* and threads, and Superscalar, the generator of the programs that items  *)
(* are computed with, for any registers, latency and limits.               *)
(***************************************************************************)
EXTENDS DatasetInit, Superscalar, WellFoundedInduction, TLAPS

USE DEF Group

-----------------------------------------------------------------------------
(* The split.                                                              *)

LEMMA Monotone ==
    ASSUME NEW a \in Nat, NEW b \in Nat, NEW p \in Nat, a <= b
    PROVE  a * p <= b * p
<1>1. PICK k \in Nat : b = a + k
  <2>1. b - a \in Nat /\ b = a + (b - a)
    OBVIOUS
  <2>2. QED
    BY <2>1
<1>2. b * p = a * p + k * p
  BY <1>1
<1>3. k * p \in Nat
  OBVIOUS
<1>4. a * p \in Nat
  OBVIOUS
<1>5. QED
  BY <1>2, <1>3, <1>4

LEMMA SplitType ==
    ASSUME itemCount \in Nat, threadCount \in Nat \ {0}
    PROVE  /\ perThread \in Nat
           /\ remainder \in Nat
           /\ itemCount = threadCount * perThread + remainder
<1>1. perThread \in Nat /\ remainder \in Nat
  BY DEF perThread, remainder
<1>2. itemCount = threadCount * perThread + remainder
  BY DEF perThread, remainder
<1>3. QED
  BY <1>1, <1>2

LEMMA ShareType ==
    ASSUME itemCount \in Nat, threadCount \in Nat \ {0}, NEW t \in Threads
    PROVE  StartItem(t) \in Nat /\ Count(t) \in Nat
<1>1. t \in Nat
  BY DEF Threads
<1>2. QED
  BY <1>1, SplitType DEF StartItem, Count

\* No share reaches into the next one.
LEMMA SharesInOrder ==
    ASSUME itemCount \in Nat, threadCount \in Nat \ {0},
           NEW t \in Threads, NEW u \in Threads, t < u
    PROVE  StartItem(t) + Count(t) <= StartItem(u)
<1>1. t \in Nat /\ u \in Nat /\ t + 1 <= u /\ t # threadCount - 1
  BY DEF Threads
<1>2. perThread \in Nat
  BY SplitType
<1>3. (t + 1) * perThread <= u * perThread
  BY <1>1, <1>2, Monotone
<1>4. (t + 1) * perThread = t * perThread + perThread
  BY <1>1, <1>2
<1>5. Count(t) = perThread
  BY <1>1, <1>2 DEF Count
<1>6. QED
  BY <1>3, <1>4, <1>5 DEF StartItem

\* The last share ends with the last item.
LEMMA LastShareEnds ==
    ASSUME itemCount \in Nat, threadCount \in Nat \ {0}
    PROVE  /\ threadCount - 1 \in Threads
           /\ StartItem(threadCount - 1) + Count(threadCount - 1) = itemCount
<1>1. threadCount - 1 \in Threads
  BY DEF Threads
<1>2. perThread \in Nat /\ remainder \in Nat /\ itemCount = threadCount * perThread + remainder
  BY SplitType
<1>3. (threadCount - 1) * perThread + perThread = threadCount * perThread
  BY <1>2
<1>4. QED
  BY <1>1, <1>2, <1>3 DEF StartItem, Count

LEMMA ShareInDataset ==
    ASSUME itemCount \in Nat, threadCount \in Nat \ {0}, NEW t \in Threads
    PROVE  StartItem(t) + Count(t) <= itemCount
<1>1. CASE t = threadCount - 1
  BY <1>1, LastShareEnds
<1>2. CASE t < threadCount - 1
  <2>1. StartItem(t) + Count(t) <= StartItem(threadCount - 1)
    BY <1>2, LastShareEnds, SharesInOrder
  <2>2. StartItem(threadCount - 1) \in Nat /\ Count(threadCount - 1) \in Nat
    BY LastShareEnds, ShareType
  <2>3. QED
    BY <2>1, <2>2, LastShareEnds, ShareType
<1>3. QED
  BY <1>1, <1>2 DEF Threads
-----------------------------------------------------------------------------
(* What a step stores.                                                     *)

\* The next stores of a thread lie in its share.
LEMMA StoresInShare ==
    ASSUME TypeOK, NEW t \in Threads, CallRight(t)
    PROVE  NextStores(t) \subseteq Share(t)
<1>. DEFINE c == call[t]
<1>1. itemCount \in Nat /\ threadCount \in Nat \ {0}
  BY BoundsAssumption DEF TypeOK
<1>2. StartItem(t) \in Nat /\ Count(t) \in Nat
  BY <1>1, ShareType
<1>3. c.dst \in Nat /\ c.cur \in Nat /\ c.end \in Nat /\ lanes \in {1, 4}
  BY DEF TypeOK
<1>4. CASE pc[t] = "kernel" /\ ~c.toBuf
  <2>1. /\ c.dst = c.cur
        /\ StartItem(t) <= c.cur
        /\ c.cur < c.end
        /\ lanes = 4 => (c.end - c.cur) % 4 = 0
    BY <1>4 DEF CallRight
  <2>2. c.end <= StartItem(t) + Count(t)
    BY <1>2, <1>3, <1>4 DEF CallRight
  <2>3. c.cur + lanes <= c.end
    BY <1>3, <2>1
  <2>4. QED
    BY <1>2, <1>3, <1>4, <2>1, <2>2, <2>3 DEF NextStores, KernelStores, Share
<1>5. CASE ~(pc[t] = "kernel" /\ ~c.toBuf)
  BY <1>5 DEF NextStores, Copied, Share
<1>6. QED
  BY <1>4, <1>5

\* Shares of different threads are disjoint.
LEMMA SharesDisjoint ==
    ASSUME itemCount \in Nat, threadCount \in Nat \ {0},
           NEW t \in Threads, NEW u \in Threads, t # u
    PROVE  Share(t) \cap Share(u) = {}
<1>1. /\ StartItem(t) \in Nat /\ Count(t) \in Nat
      /\ StartItem(u) \in Nat /\ Count(u) \in Nat
  BY ShareType
<1>2. t < u \/ u < t
  BY DEF Threads
<1>3. CASE t < u
  BY <1>1, <1>3, SharesInOrder DEF Share
<1>4. CASE u < t
  BY <1>1, <1>4, SharesInOrder DEF Share
<1>5. QED
  BY <1>2, <1>3, <1>4

\* Every item is in some share.
LEMMA SharesCover ==
    ASSUME itemCount \in Nat, threadCount \in Nat \ {0}, NEW i \in Items
    PROVE  \E t \in Threads : i \in Share(t)
<1>1. perThread \in Nat /\ remainder \in Nat /\ itemCount = threadCount * perThread + remainder
  BY SplitType
<1>2. i \in Nat /\ i < itemCount
  BY DEF Items
<1>. DEFINE last == threadCount - 1
<1>3. last \in Threads /\ StartItem(last) + Count(last) = itemCount /\ StartItem(last) \in Nat
  BY LastShareEnds, ShareType
<1>4. CASE i >= StartItem(last)
  BY <1>2, <1>3, <1>4, ShareType DEF Share
<1>5. CASE i < StartItem(last)
  <2>. DEFINE t == i \div perThread
  <2>1. perThread > 0
    <3>1. perThread = 0 => StartItem(last) = 0
      BY <1>3 DEF StartItem, Threads
    <3>2. QED
      BY <1>1, <1>2, <1>5, <3>1
  <2>2. /\ t \in Nat
        /\ t * perThread <= i
        /\ i < t * perThread + perThread
    <3>1. t \in Nat /\ i % perThread \in 0 .. perThread - 1
      BY <1>1, <1>2, <2>1
    <3>2. i = perThread * t + (i % perThread)
      BY <1>1, <1>2, <2>1
    <3>3. perThread * t = t * perThread
      BY <1>1, <3>1
    <3>. HIDE DEF t
    <3>4. perThread * t \in Nat
      BY <1>1, <3>1
    <3>5. QED
      BY <1>1, <1>2, <3>1, <3>2, <3>3, <3>4
  <2>. HIDE DEF t
  <2>3. t < last
    <3>1. SUFFICES ASSUME last <= t PROVE FALSE
      BY <2>2 DEF Threads
    <3>2. last * perThread <= t * perThread
      BY <1>1, <3>1, <2>2, Monotone
    <3>3. last * perThread \in Nat /\ t * perThread \in Nat
      BY <1>1, <2>2
    <3>4. QED
      BY <1>2, <1>5, <2>2, <3>2, <3>3 DEF StartItem
  <2>4. t \in Threads /\ Count(t) = perThread
    BY <1>1, <2>2, <2>3 DEF Threads, Count
  <2>5. t * perThread \in Nat
    BY <1>1, <2>2
  <2>6. i \in Share(t)
    BY <1>1, <1>2, <2>2, <2>4, <2>5 DEF Share, StartItem
  <2>7. QED
    BY <2>4, <2>6
<1>6. QED
  BY <1>2, <1>3, <1>4, <1>5
-----------------------------------------------------------------------------
(* The inductive invariant.                                                *)

LEMMA InitIInv == Init => IInv
<1>. SUFFICES ASSUME Init PROVE IInv
  OBVIOUS
<1>1. TypeOK
  BY DEF Init, TypeOK, Value, NoCall
<1>2. ItemsRight
  BY DEF Init, ItemsRight
<1>3. ASSUME NEW t \in Threads PROVE CallRight(t) /\ Behind(t)
  BY DEF Init, CallRight, Behind
<1>4. JoinedLast
  BY DEF Init, JoinedLast
<1>5. QED
  BY <1>1, <1>2, <1>3, <1>4 DEF IInv

\* The configuration, and with it the split, never changes.
LEMMA ConfigFixed ==
    ASSUME UNCHANGED config
    PROVE  /\ itemCount' = itemCount /\ threadCount' = threadCount /\ lanes' = lanes
           /\ Items' = Items /\ Threads' = Threads
           /\ \A t : StartItem(t)' = StartItem(t) /\ Count(t)' = Count(t) /\ Share(t)' = Share(t)
BY DEF config, Items, Threads, StartItem, Count, Share, perThread, remainder

\* What a thread is about to store is right, and overwrites nothing right.
LEMMA StoresRight ==
    ASSUME IInv, NEW t \in Threads, Step(t)
    PROVE  /\ dataset' \in [Items -> Value]
           /\ \A i \in Items : dataset'[i] \in {None, i}
           /\ \A i \in Items : dataset[i] = i => dataset'[i] = i
<1>. DEFINE c == call[t]
<1>1. /\ dataset \in [Items -> Value]
      /\ \A i \in Items : dataset[i] \in {None, i}
      /\ Items \subseteq Nat
      /\ CallRight(t) /\ Behind(t)
      /\ c.dst \in Nat /\ c.cur \in Nat /\ c.end \in Nat /\ lanes \in {1, 4}
  BY DEF IInv, TypeOK, ItemsRight, Items
<1>2. /\ itemCount \in Nat /\ threadCount \in Nat \ {0}
      /\ StartItem(t) \in Nat /\ Count(t) \in Nat
  BY ShareType, BoundsAssumption DEF IInv, TypeOK
<1>3. CASE UNCHANGED dataset
  BY <1>1, <1>3
<1>4. CASE Kernel(t) /\ ~c.toBuf
  <2>1. /\ dataset' = Stored(dataset, t)
        /\ c.dst = c.cur
    BY <1>1, <1>4 DEF Kernel, CallRight
  <2>2. ASSUME NEW i \in Items PROVE dataset'[i] = IF i \in KernelStores(t) THEN i ELSE dataset[i]
    BY <1>1, <2>1 DEF Stored
  <2>3. dataset' \in [Items -> Value]
    BY <1>1, <2>1, <2>2 DEF Stored, Value
  <2>4. QED
    BY <1>1, <2>2, <2>3
<1>5. CASE Copy(t)
  <2>1. /\ c.toBuf
        /\ c.dst = 4
        /\ Count(t) < 4
    BY <1>1, <1>2, <1>5 DEF Copy, CallRight
  <2>2. ASSUME NEW i \in Copied(t) PROVE buf[t][i - StartItem(t)] = i
    BY <1>1, <1>2, <1>5, <2>1 DEF Copied, Behind, Copy
  <2>3. dataset' = [i \in Items |-> IF i \in Copied(t) THEN buf[t][i - StartItem(t)] ELSE dataset[i]]
    BY <1>5 DEF Copy
  <2>4. ASSUME NEW i \in Items PROVE dataset'[i] = IF i \in Copied(t) THEN i ELSE dataset[i]
    BY <2>2, <2>3
  <2>5. dataset' \in [Items -> Value]
    BY <1>1, <2>3, <2>4 DEF Value
  <2>6. QED
    BY <1>1, <2>4, <2>5
<1>6. QED
  BY <1>3, <1>4, <1>5 DEF Step, Enter, Kernel, Return

\* A thread that does not take the step is not affected by it.
LEMMA OthersKept ==
    ASSUME IInv, NEW t \in Threads, Step(t), NEW u \in Threads, u # t
    PROVE  CallRight(u)' /\ Behind(u)'
<1>1. UNCHANGED config /\ pc'[u] = pc[u] /\ call'[u] = call[u] /\ buf'[u] = buf[u]
  BY DEF IInv, TypeOK, Step, Enter, Kernel, Return, Copy
<1>2. CallRight(u) /\ Behind(u)
  BY DEF IInv
<1>3. CallRight(u)'
  BY <1>1, <1>2, ConfigFixed DEF CallRight, NeedsTail
<1>4. Behind(u)'
  BY <1>1, <1>2, ConfigFixed, StoresRight DEF Behind
<1>5. QED
  BY <1>3, <1>4

LEMMA EnterKeeps ==
    ASSUME IInv, NEW t \in Threads, Enter(t)
    PROVE  TypeOK' /\ CallRight(t)' /\ Behind(t)'
<1>1. /\ itemCount \in Nat /\ threadCount \in Nat \ {0}
      /\ StartItem(t) \in Nat /\ Count(t) \in Nat
  BY ShareType, BoundsAssumption DEF IInv, TypeOK
<1>2. /\ UNCHANGED <<config, dataset, buf, joined>>
      /\ call'[t] = FirstCall(t) /\ pc'[t] = "kernel"
  BY DEF IInv, TypeOK, Enter
<1>3. Count(t) % 4 \in 0 .. 3 /\ (Count(t) - (Count(t) % 4)) % 4 = 0
  BY <1>1
<1>. DEFINE r == Count(t) % 4
<1>4. /\ FirstCall(t) \in [toBuf: BOOLEAN, tail: BOOLEAN, dst: Nat, cur: Nat, end: Nat]
      /\ FirstCall(t).toBuf <=> Count(t) < 4
      /\ ~FirstCall(t).tail
      /\ Count(t) < 4 => /\ FirstCall(t).dst = 0
                         /\ FirstCall(t).cur = StartItem(t)
                         /\ FirstCall(t).end = StartItem(t) + 4
      /\ Count(t) >= 4 => /\ FirstCall(t).dst = StartItem(t)
                          /\ FirstCall(t).cur = StartItem(t)
                          /\ FirstCall(t).end = StartItem(t) + Count(t) - r
  <2>1. CASE Count(t) < 4
    BY <1>1, <2>1 DEF FirstCall, CallToBuf
  <2>2. CASE Count(t) >= 4
    <3>1. StartItem(t) + Count(t) - r \in Nat
      BY <1>1, <1>3, <2>2
    <3>2. FirstCall(t) = [toBuf |-> FALSE, tail |-> FALSE, dst |-> StartItem(t),
                          cur |-> StartItem(t), end |-> StartItem(t) + Count(t) - r]
      BY <1>1, <2>2 DEF FirstCall, CallInPlace
    <3>. HIDE DEF r
    <3>3. QED
      BY <1>1, <2>2, <3>1, <3>2
  <2>3. QED
    BY <1>1, <2>1, <2>2
<1>5. TypeOK'
  BY <1>2, <1>4, ConfigFixed DEF IInv, TypeOK, Enter
<1>6. CallRight(t)'
  BY <1>1, <1>2, <1>3, <1>4, ConfigFixed DEF CallRight
<1>7. Behind(t)'
  BY <1>1, <1>2, <1>4, ConfigFixed DEF Behind, Items
<1>8. QED
  BY <1>5, <1>6, <1>7

LEMMA KernelKeeps ==
    ASSUME IInv, NEW t \in Threads, Kernel(t)
    PROVE  TypeOK' /\ CallRight(t)' /\ Behind(t)'
<1>. DEFINE c == call[t]
<1>1. /\ itemCount \in Nat /\ threadCount \in Nat \ {0}
      /\ StartItem(t) \in Nat /\ Count(t) \in Nat
  BY ShareType, BoundsAssumption DEF IInv, TypeOK
<1>2. /\ UNCHANGED <<config, joined>>
      /\ pc[t] = "kernel"
      /\ call'[t].toBuf = c.toBuf /\ call'[t].tail = c.tail /\ call'[t].end = c.end
      /\ call'[t].dst = c.dst + lanes /\ call'[t].cur = c.cur + lanes
      /\ pc'[t] = IF c.cur + lanes < c.end THEN "kernel" ELSE "return"
  BY DEF IInv, TypeOK, Kernel
<1>3. /\ CallRight(t) /\ Behind(t)
      /\ c.toBuf \in BOOLEAN /\ c.tail \in BOOLEAN
      /\ c.dst \in Nat /\ c.cur \in Nat /\ c.end \in Nat /\ lanes \in {1, 4}
  BY DEF IInv, TypeOK
<1>4. /\ c.cur < c.end /\ c.cur + lanes <= c.end
      /\ lanes = 4 => (c.end - (c.cur + lanes)) % 4 = 0
  BY <1>2, <1>3 DEF CallRight
<1>5. buf' \in [Threads -> [0 .. 3 -> Value]]
  <2>1. CASE ~c.toBuf
    BY <2>1 DEF IInv, TypeOK, Kernel
  <2>2. CASE c.toBuf
    <3>1. Stored(buf[t], t) \in [0 .. 3 -> Value]
      BY <1>3 DEF IInv, TypeOK, Stored, KernelStores, Value
    <3>2. QED
      BY <2>2, <3>1 DEF IInv, TypeOK, Kernel
  <2>3. QED
    BY <2>1, <2>2
<1>6. TypeOK'
  <2>1. call' \in [Threads -> [toBuf: BOOLEAN, tail: BOOLEAN, dst: Nat, cur: Nat, end: Nat]]
    BY <1>3 DEF IInv, TypeOK, Kernel
  <2>2. pc' \in [Threads -> {"entry", "kernel", "return", "copy", "done"}]
    BY DEF IInv, TypeOK, Kernel
  <2>3. dataset' \in [Items -> Value]
    BY StoresRight DEF Step
  <2>4. QED
    BY <1>2, <1>5, <2>1, <2>2, <2>3, ConfigFixed DEF IInv, TypeOK
<1>7. CallRight(t)'
  BY <1>1, <1>2, <1>3, <1>4, ConfigFixed DEF CallRight
<1>8. Behind(t)'
  <2>1. CASE c.toBuf
    <3>1. buf'[t] = Stored(buf[t], t)
      BY <2>1 DEF IInv, TypeOK, Kernel
    <3>2. DOMAIN buf[t] = 0 .. 3
      BY DEF IInv, TypeOK
    <3>3. c.cur = StartItem(t) + c.dst
      BY <1>2, <1>3, <2>1 DEF CallRight
    <3>4. ASSUME NEW j \in 0 .. 3, j < c.dst + lanes PROVE buf'[t][j] = StartItem(t) + j
      BY <1>1, <1>2, <1>3, <2>1, <3>1, <3>2, <3>3, <3>4 DEF Stored, KernelStores, Behind
    <3>5. QED
      BY <1>2, <2>1, <3>4, ConfigFixed DEF Behind
  <2>2. CASE ~c.toBuf
    <3>1. dataset' = Stored(dataset, t) /\ DOMAIN dataset = Items /\ Items \subseteq Nat
      BY <2>2 DEF IInv, TypeOK, Kernel, Items
    <3>2. c.dst = c.cur
      BY <1>2, <1>3, <2>2 DEF CallRight
    <3>3. ASSUME NEW i \in Items, StartItem(t) <= i, i < c.cur + lanes PROVE dataset'[i] = i
      BY <1>1, <1>2, <1>3, <2>2, <3>1, <3>2, <3>3 DEF Stored, KernelStores, Behind
    <3>4. QED
      BY <1>2, <2>2, <3>3, ConfigFixed DEF Behind
  <2>3. QED
    BY <2>1, <2>2
<1>9. QED
  BY <1>6, <1>7, <1>8
LEMMA ReturnKeeps ==
    ASSUME IInv, NEW t \in Threads, Return(t)
    PROVE  TypeOK' /\ CallRight(t)' /\ Behind(t)'
<1>. DEFINE c == call[t]
<1>1. /\ itemCount \in Nat /\ threadCount \in Nat \ {0}
      /\ StartItem(t) \in Nat /\ Count(t) \in Nat
  BY ShareType, BoundsAssumption DEF IInv, TypeOK
<1>2. /\ UNCHANGED <<config, dataset, buf, joined>>
      /\ pc[t] = "return"
      /\ call'[t] = IF NeedsTail(t) THEN TailCall(t) ELSE c
      /\ pc'[t] = IF c.toBuf THEN "copy" ELSE IF NeedsTail(t) THEN "kernel" ELSE "done"
  BY DEF IInv, TypeOK, Return
<1>3. /\ CallRight(t) /\ Behind(t)
      /\ c \in [toBuf: BOOLEAN, tail: BOOLEAN, dst: Nat, cur: Nat, end: Nat]
      /\ lanes \in {1, 4}
      /\ call \in [Threads -> [toBuf: BOOLEAN, tail: BOOLEAN, dst: Nat, cur: Nat, end: Nat]]
      /\ pc \in [Threads -> {"entry", "kernel", "return", "copy", "done"}]
  BY DEF IInv, TypeOK
<1>4. Count(t) % 4 \in 0 .. 3
  BY <1>1
<1>5. CASE NeedsTail(t)
  <2>1. /\ ~c.toBuf /\ ~c.tail /\ Count(t) % 4 # 0 /\ Count(t) >= 4
        /\ c.cur = StartItem(t) + Count(t) - (Count(t) % 4)
    BY <1>1, <1>2, <1>3, <1>5 DEF CallRight, NeedsTail
  <2>. DEFINE f == StartItem(t) + Count(t) - 4
  <2>2. f \in Nat /\ StartItem(t) <= f /\ f + 4 = StartItem(t) + Count(t) /\ f < c.cur
    BY <1>1, <1>4, <2>1
  <2>3. call'[t] = [toBuf |-> FALSE, tail |-> TRUE, dst |-> f, cur |-> f, end |-> f + 4]
    BY <1>2, <1>5 DEF TailCall, CallInPlace
  <2>4. pc'[t] = "kernel"
    BY <1>2, <1>5, <2>1
  <2>. HIDE DEF f
  <2>5. call'[t] \in [toBuf: BOOLEAN, tail: BOOLEAN, dst: Nat, cur: Nat, end: Nat]
    BY <2>2, <2>3
  <2>6. TypeOK'
    BY <1>2, <1>3, <1>5, <2>5, ConfigFixed DEF IInv, TypeOK, Return
  <2>7. CallRight(t)'
    BY <1>1, <1>2, <2>1, <2>2, <2>3, <2>4, ConfigFixed DEF CallRight
  <2>8. Behind(t)'
    <3>1. ASSUME NEW i \in Items, StartItem(t) <= i, i < f PROVE dataset[i] = i
      BY <1>2, <1>3, <2>1, <2>2, <3>1 DEF Behind, Items
    <3>2. QED
      BY <1>2, <2>3, <2>4, <3>1, ConfigFixed DEF Behind
  <2>9. QED
    BY <2>6, <2>7, <2>8
<1>6. CASE ~NeedsTail(t)
  <2>1. call'[t] = c /\ pc'[t] = IF c.toBuf THEN "copy" ELSE "done"
    BY <1>2, <1>6
  <2>2. TypeOK'
    BY <1>2, <1>3, <1>6, <2>1, ConfigFixed DEF IInv, TypeOK, Return
  <2>3. CallRight(t)'
    BY <1>2, <1>3, <1>6, <2>1, ConfigFixed DEF CallRight, NeedsTail
  <2>4. CASE c.toBuf
    <3>1. \A j \in 0 .. 3 : j < c.dst => buf[t][j] = StartItem(t) + j
      BY <1>2, <1>3, <2>4 DEF Behind
    <3>2. /\ call'[t].toBuf /\ call'[t].dst = c.dst /\ pc'[t] = "copy" /\ buf' = buf
          /\ StartItem(t)' = StartItem(t)
      BY <1>2, <2>1, <2>4, ConfigFixed
    <3>3. Behind(t)'
      BY <3>1, <3>2 DEF Behind
    <3>4. QED
      BY <2>2, <2>3, <3>3
  <2>5. CASE ~c.toBuf
    <3>1. c.cur = StartItem(t) + Count(t)
      BY <1>1, <1>2, <1>3, <1>6, <2>5 DEF CallRight, NeedsTail
    <3>2. ASSUME NEW i \in Items, StartItem(t) <= i, i < c.cur PROVE dataset[i] = i
      BY <1>2, <1>3, <2>5, <3>2 DEF Behind
    <3>3. ASSUME NEW i \in Items, i \in Share(t) PROVE dataset[i] = i
      BY <1>1, <3>1, <3>2, <3>3 DEF Share
    <3>4. /\ ~call'[t].toBuf /\ call'[t].cur = c.cur /\ dataset' = dataset
          /\ StartItem(t)' = StartItem(t) /\ Items' = Items /\ Share(t)' = Share(t)
      BY <1>2, <2>1, <2>5, ConfigFixed
    <3>5. Behind(t)'
      BY <3>2, <3>3, <3>4 DEF Behind
    <3>6. QED
      BY <2>2, <2>3, <3>5
  <2>6. QED
    BY <2>2, <2>3, <2>4, <2>5
<1>7. QED
  BY <1>5, <1>6

LEMMA CopyKeeps ==
    ASSUME IInv, NEW t \in Threads, Copy(t)
    PROVE  TypeOK' /\ CallRight(t)' /\ Behind(t)'
<1>. DEFINE c == call[t]
<1>1. /\ itemCount \in Nat /\ threadCount \in Nat \ {0}
      /\ StartItem(t) \in Nat /\ Count(t) \in Nat
  BY ShareType, BoundsAssumption DEF IInv, TypeOK
<1>2. /\ UNCHANGED <<config, buf, call, joined>>
      /\ pc[t] = "copy" /\ pc'[t] = "done"
  BY DEF IInv, TypeOK, Copy
<1>3. CallRight(t) /\ Behind(t)
  BY DEF IInv
<1>4. c.toBuf /\ c.dst = 4
  BY <1>1, <1>2, <1>3 DEF CallRight, IInv, TypeOK
<1>5. dataset' \in [Items -> Value]
  BY StoresRight DEF Step
<1>6. TypeOK'
  BY <1>2, <1>5, ConfigFixed DEF IInv, TypeOK, Copy
<1>7. CallRight(t)'
  BY <1>2, <1>3, <1>4, ConfigFixed DEF CallRight, NeedsTail
<1>8. ASSUME NEW i \in Items, i \in Share(t) PROVE dataset'[i] = i
  <2>1. i \in Copied(t) /\ dataset'[i] = buf[t][i - StartItem(t)]
    BY <1>8 DEF Share, Copied, Copy
  <2>2. i - StartItem(t) \in 0 .. 3 /\ StartItem(t) + (i - StartItem(t)) = i
    BY <1>1, <1>2, <1>3, <1>4, <1>8 DEF Share, CallRight
  <2>3. buf[t][i - StartItem(t)] = StartItem(t) + (i - StartItem(t))
    BY <1>2, <1>3, <1>4, <2>2 DEF Behind
  <2>4. QED
    BY <2>1, <2>2, <2>3
<1>9. Behind(t)'
  BY <1>2, <1>3, <1>4, <1>8, ConfigFixed DEF Behind
<1>10. QED
  BY <1>6, <1>7, <1>9

LEMMA StepKeeps ==
    ASSUME IInv, NEW t \in Threads, Step(t)
    PROVE  IInv'
<1>1. TypeOK' /\ CallRight(t)' /\ Behind(t)'
  BY EnterKeeps, KernelKeeps, ReturnKeeps, CopyKeeps DEF Step
<1>2. UNCHANGED config /\ joined' = joined /\ pc[t] # "done"
  BY DEF Step, Enter, Kernel, Return, Copy
<1>3. ASSUME NEW u \in Threads PROVE CallRight(u)' /\ Behind(u)'
  BY <1>1, OthersKept
<1>4. ItemsRight'
  BY <1>2, ConfigFixed, StoresRight DEF ItemsRight
<1>5. JoinedLast'
  BY <1>2 DEF IInv, JoinedLast
<1>6. QED
  BY <1>1, <1>2, <1>3, <1>4, <1>5, ConfigFixed DEF IInv

LEMMA JoinKeeps ==
    ASSUME IInv, Join
    PROVE  IInv'
<1>1. UNCHANGED <<config, dataset, buf, call, pc>> /\ joined' = TRUE /\ \A t \in Threads : pc[t] = "done"
  BY DEF Join
<1>2. TypeOK'
  BY <1>1, ConfigFixed DEF IInv, TypeOK
<1>3. ItemsRight' /\ JoinedLast'
  BY <1>1, ConfigFixed DEF IInv, ItemsRight, JoinedLast
<1>4. ASSUME NEW t \in Threads PROVE CallRight(t)' /\ Behind(t)'
  BY <1>1, ConfigFixed DEF IInv, CallRight, Behind, NeedsTail
<1>5. QED
  BY <1>1, <1>2, <1>3, <1>4, ConfigFixed DEF IInv

LEMMA StutterKeeps ==
    ASSUME IInv, UNCHANGED vars
    PROVE  IInv'
<1>1. UNCHANGED <<config, dataset, buf, call, pc, joined>>
  BY DEF vars, config
<1>2. TypeOK' /\ ItemsRight' /\ JoinedLast'
  BY <1>1, ConfigFixed DEF IInv, TypeOK, ItemsRight, JoinedLast
<1>3. ASSUME NEW t \in Threads PROVE CallRight(t)' /\ Behind(t)'
  BY <1>1, ConfigFixed DEF IInv, CallRight, Behind, NeedsTail
<1>4. QED
  BY <1>1, <1>2, <1>3, ConfigFixed DEF IInv

THEOREM Invariance == Spec => []IInv
<1>1. IInv /\ [Next]_vars => IInv'
  BY StepKeeps, JoinKeeps, StutterKeeps DEF Next
<1>2. QED
  BY <1>1, InitIInv, PTL DEF Spec
-----------------------------------------------------------------------------
(* The theorems.                                                           *)

\* TypeOK: the kernel calls of randomx_init_dataset and the contents of the
\* dataset and the buffers keep their types, whatever the item count.
THEOREM TypeCorrect == Spec => []TypeOK
<1>1. IInv => TypeOK
  BY DEF IInv
<1>2. QED
  BY <1>1, Invariance, PTL

\* StoresOwnShare: for every number of items and threads and for both kernel
\* widths, no thread stores outside the sequence it was given.
THEOREM ThreadsStoreTheirShare == Spec => []StoresOwnShare
<1>1. IInv => StoresOwnShare
  BY StoresInShare DEF IInv, StoresOwnShare
<1>2. QED
  BY <1>1, Invariance, PTL

\* NoRace: no two initialisation threads ever store to one item at the same
\* time, although nothing synchronises them.
THEOREM ThreadsNeverRace == Spec => []NoRace
<1>1. IInv => NoRace
  <2>1. SUFFICES ASSUME IInv, NEW t \in Threads, NEW u \in Threads, t # u
                 PROVE  NextStores(t) \cap NextStores(u) = {}
    BY DEF NoRace
  <2>2. NextStores(t) \subseteq Share(t) /\ NextStores(u) \subseteq Share(u)
    BY <2>1, StoresInShare DEF IInv
  <2>3. Share(t) \cap Share(u) = {}
    BY <2>1, SharesDisjoint, BoundsAssumption DEF IInv, TypeOK
  <2>4. QED
    BY <2>2, <2>3
<1>2. QED
  BY <1>1, Invariance, PTL

\* ItemsRight: an item never holds the value of another one.
THEOREM ItemsHoldTheirValue == Spec => []ItemsRight
<1>1. IInv => ItemsRight
  BY DEF IInv
<1>2. QED
  BY <1>1, Invariance, PTL

\* ImplementsFill: the threads and the groups of four together implement the
\* filling of a dataset, so the main thread never goes on with an item missing.
THEOREM SplitImplementsFill == Spec => ImplementsFill
<1>. DEFINE ready == {i \in Items : dataset[i] = i}
<1>1. Init => Fill!Init
  <2>1. SUFFICES ASSUME Init PROVE Fill!Init
    OBVIOUS
  <2>2. itemCount \in Nat \ {0}
    BY <2>1, BoundsAssumption DEF Init
  <2>3. ready = {}
    BY <2>1, NoneAssumption DEF Init, Items
  <2>4. QED
    BY <2>1, <2>2, <2>3 DEF Init, Fill!Init
<1>2. ASSUME IInv, NEW t \in Threads, Step(t) PROVE Fill!Fill
  <2>1. /\ UNCHANGED config /\ joined' = joined
    BY <1>2 DEF Step, Enter, Kernel, Return, Copy
  <2>2. ready \subseteq ready' /\ ready' \subseteq 0 .. itemCount - 1
    BY <1>2, <2>1, StoresRight, ConfigFixed DEF Items
  <2>3. QED
    BY <2>1, <2>2, ConfigFixed DEF Fill!Fill
<1>3. ASSUME IInv, Join PROVE Fill!Join
  <2>1. ASSUME NEW i \in Items PROVE dataset[i] = i
    <3>1. itemCount \in Nat /\ threadCount \in Nat \ {0}
      BY <1>3, BoundsAssumption DEF IInv, TypeOK
    <3>2. PICK t \in Threads : i \in Share(t)
      BY <3>1, SharesCover
    <3>3. pc[t] = "done" /\ Behind(t)
      BY <1>3 DEF IInv, Join
    <3>4. QED
      BY <3>2, <3>3 DEF Behind
  <2>2. ready = 0 .. itemCount - 1
    BY <2>1 DEF Items
  <2>3. UNCHANGED <<config, dataset>> /\ joined' = TRUE
    BY <1>3 DEF Join
  <2>4. ready' = ready /\ itemCount' = itemCount
    BY <2>3, ConfigFixed
  <2>5. QED
    BY <2>2, <2>3, <2>4 DEF Fill!Join
<1>4. ASSUME UNCHANGED vars PROVE UNCHANGED Fill!fillVars
  BY <1>4 DEF vars, Fill!fillVars, Items
<1>5. IInv /\ [Next]_vars => [Fill!Next]_(Fill!fillVars)
  BY <1>2, <1>3, <1>4 DEF Next, Fill!Next
<1>6. QED
  BY <1>1, <1>5, Invariance, PTL DEF Spec, ImplementsFill, Fill!Spec

-----------------------------------------------------------------------------
(* The instructions of the generator.                                      *)

AllNames == {"ISUB_R", "IXOR_R", "IADD_RS", "IMUL_R", "IROR_C", "IADD_C", "IXOR_C",
             "IMULH_R", "ISMULH_R", "IMUL_RCP"}

\* What each instruction is made of.
LEMMA Catalogue ==
    /\ DOMAIN Infos = AllNames
    /\ \A n \in {"ISUB_R", "IXOR_R"} :
          InfoOf(n).ops = <<Add_rr>> /\ InfoOf(n).srcOp = 0 /\ InfoOf(n).dstOp = 0 /\ InfoOf(n).resultOp = 0
    /\ \A n \in {"IADD_RS"} :
          InfoOf(n).ops = <<Lea_sib>> /\ InfoOf(n).srcOp = 0 /\ InfoOf(n).dstOp = 0 /\ InfoOf(n).resultOp = 0
    /\ \A n \in {"IMUL_R"} :
          InfoOf(n).ops = <<Imul_rr>> /\ InfoOf(n).srcOp = 0 /\ InfoOf(n).dstOp = 0 /\ InfoOf(n).resultOp = 0
    /\ \A n \in {"IROR_C"} :
          InfoOf(n).ops = <<Ror_ri>> /\ InfoOf(n).srcOp = -1 /\ InfoOf(n).dstOp = 0 /\ InfoOf(n).resultOp = 0
    /\ \A n \in {"IADD_C", "IXOR_C"} :
          InfoOf(n).ops = <<Add_ri>> /\ InfoOf(n).srcOp = -1 /\ InfoOf(n).dstOp = 0 /\ InfoOf(n).resultOp = 0
    /\ \A n \in MulHs :
          InfoOf(n).ops = <<Mov_rr, Mul_r, Mov_rr>> /\ InfoOf(n).srcOp = 1 /\ InfoOf(n).dstOp = 0 /\ InfoOf(n).resultOp = 1
    /\ \A n \in {"IMUL_RCP"} :
          InfoOf(n).ops = <<Mov_ri64, [Imul_rr EXCEPT !.dependent = TRUE]>>
          /\ InfoOf(n).srcOp = -1 /\ InfoOf(n).dstOp = 1 /\ InfoOf(n).resultOp = 1
    /\ InfoOf("INVALID").ops = <<>>
    /\ \A n \in AllNames : (InfoOf(n).group \in MulHs <=> n \in MulHs)
                         /\ (InfoOf(n).group = "IMUL_R" => n = "IMUL_R")
<1>1. DOMAIN Infos = AllNames
  BY DEF Infos, AllNames
<1>2. \A n \in AllNames : InfoOf(n) = Infos[n]
  BY DEF InfoOf, AllNames
<1>3. /\ Infos["ISUB_R"] = Info(<<Add_rr>>, "IADD_RS", 0, 0, 0)
      /\ Infos["IXOR_R"] = Info(<<Add_rr>>, "IXOR_R", 0, 0, 0)
      /\ Infos["IADD_RS"] = Info(<<Lea_sib>>, "IADD_RS", 0, 0, 0)
      /\ Infos["IMUL_R"] = Info(<<Imul_rr>>, "IMUL_R", 0, 0, 0)
      /\ Infos["IROR_C"] = Info(<<Ror_ri>>, "IROR_C", 0, 0, -1)
  BY DEF Infos
<1>4. /\ Infos["IADD_C"] = Info(<<Add_ri>>, "IADD_C7", 0, 0, -1)
      /\ Infos["IXOR_C"] = Info(<<Add_ri>>, "IXOR_C7", 0, 0, -1)
      /\ Infos["IMULH_R"] = MulH("IMULH_R")
      /\ Infos["ISMULH_R"] = MulH("ISMULH_R")
      /\ Infos["IMUL_RCP"] = Info(<<Mov_ri64, [Imul_rr EXCEPT !.dependent = TRUE]>>, "IMUL_RCP", 1, 1, -1)
  BY DEF Infos
<1>5. /\ \A n \in {"ISUB_R", "IXOR_R"} :
            InfoOf(n).ops = <<Add_rr>> /\ InfoOf(n).srcOp = 0 /\ InfoOf(n).dstOp = 0 /\ InfoOf(n).resultOp = 0
      /\ InfoOf("IADD_RS").ops = <<Lea_sib>> /\ InfoOf("IADD_RS").srcOp = 0
      /\ InfoOf("IADD_RS").dstOp = 0 /\ InfoOf("IADD_RS").resultOp = 0
      /\ InfoOf("IMUL_R").ops = <<Imul_rr>> /\ InfoOf("IMUL_R").srcOp = 0
      /\ InfoOf("IMUL_R").dstOp = 0 /\ InfoOf("IMUL_R").resultOp = 0
      /\ InfoOf("IROR_C").ops = <<Ror_ri>> /\ InfoOf("IROR_C").srcOp = -1
      /\ InfoOf("IROR_C").dstOp = 0 /\ InfoOf("IROR_C").resultOp = 0
  BY <1>2, <1>3 DEF Info, AllNames
<1>6. \A n \in {"IADD_C", "IXOR_C"} :
          InfoOf(n).ops = <<Add_ri>> /\ InfoOf(n).srcOp = -1 /\ InfoOf(n).dstOp = 0 /\ InfoOf(n).resultOp = 0
  BY <1>2, <1>4 DEF Info, AllNames
<1>rcp. /\ InfoOf("IMUL_RCP").ops = <<Mov_ri64, [Imul_rr EXCEPT !.dependent = TRUE]>>
        /\ InfoOf("IMUL_RCP").srcOp = -1 /\ InfoOf("IMUL_RCP").dstOp = 1 /\ InfoOf("IMUL_RCP").resultOp = 1
  <2>1. PICK second : second = [Imul_rr EXCEPT !.dependent = TRUE]
    OBVIOUS
  <2>2. InfoOf("IMUL_RCP") = Info(<<Mov_ri64, second>>, "IMUL_RCP", 1, 1, -1)
    BY <1>2, <1>4, <2>1 DEF AllNames
  <2>3. /\ InfoOf("IMUL_RCP").ops = <<Mov_ri64, second>>
        /\ InfoOf("IMUL_RCP").srcOp = -1 /\ InfoOf("IMUL_RCP").dstOp = 1 /\ InfoOf("IMUL_RCP").resultOp = 1
    BY <2>2 DEF Info
  <2>4. QED
    BY <2>1, <2>3
<1>7. \A n \in {"IMULH_R", "ISMULH_R"} :
          /\ InfoOf(n).ops = <<Mov_rr, Mul_r, Mov_rr>>
          /\ InfoOf(n).srcOp = 1 /\ InfoOf(n).dstOp = 0 /\ InfoOf(n).resultOp = 1
          /\ InfoOf(n).group = n
  BY <1>2, <1>4 DEF Info, MulH, AllNames
<1>8. InfoOf("INVALID").ops = <<>>
  BY DEF InfoOf, NOP, Info
<1>9. /\ InfoOf("ISUB_R").group = "IADD_RS" /\ InfoOf("IXOR_R").group = "IXOR_R"
      /\ InfoOf("IADD_RS").group = "IADD_RS" /\ InfoOf("IMUL_R").group = "IMUL_R"
      /\ InfoOf("IROR_C").group = "IROR_C" /\ InfoOf("IADD_C").group = "IADD_C7"
      /\ InfoOf("IXOR_C").group = "IXOR_C7" /\ InfoOf("IMUL_RCP").group = "IMUL_RCP"
  BY <1>2, <1>3, <1>4 DEF Info, AllNames
<1>10. \A n \in AllNames : (InfoOf(n).group \in MulHs <=> n \in MulHs)
                          /\ (InfoOf(n).group = "IMUL_R" => n = "IMUL_R")
  BY <1>7, <1>9 DEF AllNames, MulHs
<1>11. \A n \in MulHs : n \in {"IMULH_R", "ISMULH_R"}
  BY DEF MulHs
<1>12. QED
  BY <1>1, <1>5, <1>6, <1>rcp, <1>7, <1>8, <1>10, <1>11

Kind(m, size, latency, uops, dependent) ==
    m.size = size /\ m.latency = latency /\ m.uops = uops /\ m.dependent = dependent
\* What each macro-operation is.
LEMMA Mops ==
    /\ Kind(Add_rr, 3, 1, <<P015>>, FALSE)
    /\ Kind(Mov_rr, 3, 0, <<>>, FALSE)
    /\ Kind(Mul_r, 3, 4, <<{"P1"}, {"P5"}>>, FALSE)
    /\ Kind(Lea_sib, 4, 1, <<P01>>, FALSE)
    /\ Kind(Imul_rr, 4, 3, <<{"P1"}>>, FALSE)
    /\ Kind([Imul_rr EXCEPT !.dependent = TRUE], 4, 3, <<{"P1"}>>, TRUE)
    /\ Kind(Ror_ri, 4, 1, <<P05>>, FALSE)
    /\ Kind(Add_ri, 7, 1, <<P015>>, FALSE)
    /\ Kind(Mov_ri64, 10, 1, <<P015>>, FALSE)
BY DEF Kind, Mop, Add_rr, Mov_rr, Mul_r, Lea_sib, Imul_rr, Ror_ri, Add_ri, Mov_ri64

\* The macro-operation an instruction goes on with.
Going(n, k, m) ==
    \/ n \in {"ISUB_R", "IXOR_R"} /\ k = 0 /\ Kind(m, 3, 1, <<P015>>, FALSE)
    \/ n = "IADD_RS" /\ k = 0 /\ Kind(m, 4, 1, <<P01>>, FALSE)
    \/ n = "IMUL_R" /\ k = 0 /\ Kind(m, 4, 3, <<{"P1"}>>, FALSE)
    \/ n = "IROR_C" /\ k = 0 /\ Kind(m, 4, 1, <<P05>>, FALSE)
    \/ n \in {"IADD_C", "IXOR_C"} /\ k = 0 /\ Kind(m, 7, 1, <<P015>>, FALSE)
    \/ n \in MulHs /\ k \in {0, 2} /\ Kind(m, 3, 0, <<>>, FALSE)
    \/ n \in MulHs /\ k = 1 /\ Kind(m, 3, 4, <<{"P1"}, {"P5"}>>, FALSE)
    \/ n = "IMUL_RCP" /\ k = 0 /\ Kind(m, 10, 1, <<P015>>, FALSE)
    \/ n = "IMUL_RCP" /\ k = 1 /\ Kind(m, 4, 3, <<{"P1"}>>, TRUE)

\* Which macro-operation an instruction goes on with after k of them.
LEMMA Steps ==
    ASSUME NEW n \in AllNames \cup {"INVALID"}, NEW k \in Nat, k < Len(InfoOf(n).ops)
    PROVE  n \in AllNames /\ Going(n, k, InfoOf(n).ops[k + 1])
<1>1. CASE n \in {"ISUB_R", "IXOR_R"}
  <2>1. InfoOf(n).ops = <<Add_rr>>
    BY <1>1, Catalogue
  <2>2. k = 0 /\ InfoOf(n).ops[k + 1] = Add_rr
    BY <2>1
  <2>3. QED
    BY <1>1, <2>2, Mops DEF Going, AllNames, MulHs
<1>2. CASE n = "IADD_RS"
  <2>1. InfoOf(n).ops = <<Lea_sib>>
    BY <1>2, Catalogue
  <2>2. k = 0 /\ InfoOf(n).ops[k + 1] = Lea_sib
    BY <2>1
  <2>3. QED
    BY <1>2, <2>2, Mops DEF Going, AllNames, MulHs
<1>3. CASE n = "IMUL_R"
  <2>1. InfoOf(n).ops = <<Imul_rr>>
    BY <1>3, Catalogue
  <2>2. k = 0 /\ InfoOf(n).ops[k + 1] = Imul_rr
    BY <2>1
  <2>3. QED
    BY <1>3, <2>2, Mops DEF Going, AllNames, MulHs
<1>4. CASE n = "IROR_C"
  <2>1. InfoOf(n).ops = <<Ror_ri>>
    BY <1>4, Catalogue
  <2>2. k = 0 /\ InfoOf(n).ops[k + 1] = Ror_ri
    BY <2>1
  <2>3. QED
    BY <1>4, <2>2, Mops DEF Going, AllNames, MulHs
<1>5. CASE n \in {"IADD_C", "IXOR_C"}
  <2>1. InfoOf(n).ops = <<Add_ri>>
    BY <1>5, Catalogue
  <2>2. k = 0 /\ InfoOf(n).ops[k + 1] = Add_ri
    BY <2>1
  <2>3. QED
    BY <1>5, <2>2, Mops DEF Going, AllNames, MulHs
<1>6. CASE n \in MulHs
  <2>1. InfoOf(n).ops = <<Mov_rr, Mul_r, Mov_rr>>
    BY <1>6, Catalogue
  <2>2. \/ k \in {0, 2} /\ InfoOf(n).ops[k + 1] = Mov_rr
        \/ k = 1 /\ InfoOf(n).ops[k + 1] = Mul_r
    BY <2>1
  <2>3. QED
    BY <1>6, <2>2, Mops DEF Going, AllNames, MulHs
<1>7. CASE n = "IMUL_RCP"
  <2>1. PICK second : second = [Imul_rr EXCEPT !.dependent = TRUE]
    OBVIOUS
  <2>2. InfoOf(n).ops = <<Mov_ri64, second>>
    BY <1>7, <2>1, Catalogue
  <2>3. \/ k = 0 /\ InfoOf(n).ops[k + 1] = Mov_ri64
        \/ k = 1 /\ InfoOf(n).ops[k + 1] = second
    BY <2>2
  <2>4. QED
    BY <1>7, <2>1, <2>3, Mops DEF Going, AllNames, MulHs
<1>8. CASE n = "INVALID"
  BY <1>8, Catalogue
<1>9. QED
  BY <1>1, <1>2, <1>3, <1>4, <1>5, <1>6, <1>7, <1>8 DEF AllNames, MulHs

\* How many macro-operations there are.
LEMMA Lengths ==
    /\ \A n \in AllNames \ (MulHs \cup {"IMUL_RCP"}) : Len(InfoOf(n).ops) = 1
    /\ \A n \in MulHs : Len(InfoOf(n).ops) = 3
    /\ Len(InfoOf("IMUL_RCP").ops) = 2
    /\ Len(InfoOf("INVALID").ops) = 0
<1>1. /\ Len(<<Add_rr>>) = 1 /\ Len(<<Lea_sib>>) = 1 /\ Len(<<Imul_rr>>) = 1
      /\ Len(<<Ror_ri>>) = 1 /\ Len(<<Add_ri>>) = 1 /\ Len(<<Mov_rr, Mul_r, Mov_rr>>) = 3
      /\ Len(<<Mov_ri64, [Imul_rr EXCEPT !.dependent = TRUE]>>) = 2 /\ Len(<< >>) = 0
  OBVIOUS
<1>2. ASSUME NEW n \in AllNames \ (MulHs \cup {"IMUL_RCP"})
      PROVE  Len(InfoOf(n).ops) = 1
  <2>1. n \in {"ISUB_R", "IXOR_R", "IADD_RS", "IMUL_R", "IROR_C", "IADD_C", "IXOR_C"}
    BY DEF AllNames, MulHs
  <2>2. InfoOf(n).ops \in {<<Add_rr>>, <<Lea_sib>>, <<Imul_rr>>, <<Ror_ri>>, <<Add_ri>>}
    BY <2>1, Catalogue
  <2>3. QED
    BY <1>1, <2>2
<1>3. /\ \A n \in MulHs : Len(InfoOf(n).ops) = 3
      /\ Len(InfoOf("IMUL_RCP").ops) = 2 /\ Len(InfoOf("INVALID").ops) = 0
  BY <1>1, Catalogue
<1>4. QED
  BY <1>2, <1>3

-----------------------------------------------------------------------------
(* The least element of a set of numbers, and what is searched with it.    *)

Less == {p \in Nat \X Nat : p[1] < p[2]}

\* Every set of numbers has a least one.
LEMMA Least ==
    ASSUME NEW S \in SUBSET Nat, S # {}
    PROVE  \E n \in S : \A m \in S : n <= m
<1>1. OpToRel(<, Nat) = Less
  BY DEF OpToRel, Less
<1>2. PICK n \in S : \A m \in S : <<m, n>> \notin Less
  BY <1>1, NatLessThanWellFounded, WFMin
<1>3. ASSUME NEW m \in S PROVE n <= m
  <2>1. ~(m < n)
    BY <1>2 DEF Less
  <2>2. QED
    BY <2>1
<1>4. QED
  BY <1>2, <1>3

\* So has every set of cycles, and Earliest is it.
LEMMA EarliestIs ==
    ASSUME NEW S \in SUBSET Nat
    PROVE  \/ S = {} /\ Earliest(S) = -1
           \/ Earliest(S) \in S /\ \A d \in S : Earliest(S) <= d
<1>1. CASE S = {}
  BY <1>1 DEF Earliest
<1>2. CASE S # {}
  <2>1. \E c \in S : \A d \in S : c <= d
    BY <1>2, Least
  <2>2. QED
    BY <1>2, <2>1 DEF Earliest
<1>3. QED
  BY <1>1, <1>2

Fits(op, c) == \A u \in DOMAIN op.uops : op.uops[u] \ portBusy[c] # {}
Cycles == 0 .. CYCLE_MAP_SIZE - 1

LEMMA MapSize == CYCLE_MAP_SIZE \in Nat /\ CYCLE_MAP_SIZE = SUPERSCALAR_LATENCY + 4
BY LatencyAssumption DEF CYCLE_MAP_SIZE

\* scheduleMop finds the first cycle with ports for all micro-operations.
FoundFrom(op, start, s) ==
    /\ s \in Nat \cup {-1}
    /\ op.uops = <<>> => s = start
    /\ op.uops # <<>> =>
          \/ s = -1 /\ \A c \in start .. CYCLE_MAP_SIZE - 1 : ~Fits(op, c)
          \/ /\ s \in start .. CYCLE_MAP_SIZE - 1 /\ Fits(op, s)
             /\ \A c \in start .. CYCLE_MAP_SIZE - 1 : Fits(op, c) => s <= c

LEMMA FirstFit ==
    ASSUME NEW op, NEW from \in Nat, NEW dep \in Nat
    PROVE  \E start \in Nat :
              /\ start >= from /\ (op.dependent => start >= dep)
              /\ (op.dependent /\ dep > from) \/ start = from
              /\ FoundFrom(op, start, scheduleMop(op, from, dep))
<1>1. PICK start : start = IF op.dependent /\ dep > from THEN dep ELSE from
  OBVIOUS
<1>2. /\ start \in Nat /\ start >= from /\ (op.dependent => start >= dep)
      /\ (op.dependent /\ dep > from) \/ start = from
  BY <1>1
<1>3. CASE op.uops = <<>>
  BY <1>1, <1>2, <1>3 DEF scheduleMop, FoundFrom
<1>4. CASE op.uops # <<>>
  <2> DEFINE S == {c \in start .. CYCLE_MAP_SIZE - 1 : Fits(op, c)}
  <2>1. scheduleMop(op, from, dep) = Earliest(S)
    BY <1>1, <1>4 DEF scheduleMop, Fits
  <2>2. S \in SUBSET Nat
    BY <1>2, MapSize
  <2>3. \/ S = {} /\ Earliest(S) = -1
        \/ Earliest(S) \in S /\ \A d \in S : Earliest(S) <= d
    BY <2>2, EarliestIs
  <2>4. PICK s : s = Earliest(S)
    OBVIOUS
  <2>5. /\ s \in Nat \cup {-1}
        /\ \/ s = -1 /\ \A c \in start .. CYCLE_MAP_SIZE - 1 : ~Fits(op, c)
           \/ /\ s \in start .. CYCLE_MAP_SIZE - 1 /\ Fits(op, s)
              /\ \A c \in start .. CYCLE_MAP_SIZE - 1 : Fits(op, c) => s <= c
    BY <2>2, <2>3, <2>4
  <2>6. QED
    BY <1>2, <1>4, <2>1, <2>4, <2>5 DEF FoundFrom
<1>5. QED
  BY <1>3, <1>4

\* What is looked for among the next cycles is found in the first that has it.
LEMMA FirstStall ==
    ASSUME NEW S \in SUBSET Nat, NEW from \in Nat, NEW f,
           f = Earliest({a \in Ahead : from + a \in S})
    PROVE  \/ f = -1
           \/ f \in Nat /\ from + f \in S /\ \A c \in S : c >= from => from + f <= c
<1> DEFINE T == {a \in Ahead : from + a \in S}
<1>1. Ahead \in SUBSET Nat /\ \A a \in Nat : a < LOOK_FORWARD_CYCLES <=> a \in Ahead
  BY LimitsAssumption DEF Ahead
<1>2. \/ T = {} /\ f = -1
      \/ f \in T /\ \A d \in T : f <= d
  BY <1>1, EarliestIs
<1>3. ASSUME f \in T, \A d \in T : f <= d, NEW c \in S, c >= from
      PROVE  from + f <= c
  <2>1. f \in Nat /\ f < LOOK_FORWARD_CYCLES
    BY <1>1, <1>3
  <2>2. PICK a \in Nat : c = from + a
    <3>1. c - from \in Nat /\ c = from + (c - from)
      BY <1>3
    <3>2. QED
      BY <3>1
  <2>3. CASE a \in Ahead
    BY <1>3, <2>1, <2>2, <2>3
  <2>4. CASE a \notin Ahead
    BY <1>1, <2>1, <2>2, <2>4, LimitsAssumption
  <2>5. QED
    BY <2>3, <2>4
<1>4. QED
  BY <1>1, <1>2, <1>3

-----------------------------------------------------------------------------
(* Groups and their slots.                                                 *)

\* The sizes of the slots.
LEMMA GroupSlots ==
    /\ Len(buffer484) = 3 /\ buffer484[1] = 4 /\ buffer484[2] = 8 /\ buffer484[3] = 4
    /\ Len(buffer7333) = 4 /\ buffer7333[1] = 7 /\ buffer7333[2] = 3 /\ buffer7333[3] = 3 /\ buffer7333[4] = 3
    /\ Len(buffer3733) = 4 /\ buffer3733[1] = 3 /\ buffer3733[2] = 7 /\ buffer3733[3] = 3 /\ buffer3733[4] = 3
    /\ Len(buffer493) = 3 /\ buffer493[1] = 4 /\ buffer493[2] = 9 /\ buffer493[3] = 3
    /\ Len(buffer4444) = 4 /\ buffer4444[1] = 4 /\ buffer4444[2] = 4 /\ buffer4444[3] = 4 /\ buffer4444[4] = 4
    /\ Len(buffer3310) = 3 /\ buffer3310[1] = 3 /\ buffer3310[2] = 3 /\ buffer3310[3] = 10
BY DEF buffer484, buffer7333, buffer3733, buffer493, buffer4444, buffer3310

\* What holds for the slots of every group.
LEMMA Places ==
    ASSUME NEW g \in Groups
    PROVE  /\ Len(g) \in {3, 4}
           /\ \A b \in 1 .. Len(g) : g[b] \in {3, 4, 7, 8, 9, 10}
           /\ \A b \in 1 .. Len(g) : g[b] = 10 => b = Len(g)
           /\ g[Len(g)] = 3 => g \in {buffer7333, buffer3733, buffer493}
<1>1. \A b \in 1 .. 3 : b = 1 \/ b = 2 \/ b = 3
  OBVIOUS
<1>2. \A b \in 1 .. 4 : b = 1 \/ b = 2 \/ b = 3 \/ b = 4
  OBVIOUS
<1>3. CASE g = buffer484
  BY <1>1, <1>2, <1>3, GroupSlots
<1>4. CASE g = buffer7333
  BY <1>1, <1>2, <1>4, GroupSlots
<1>5. CASE g = buffer3733
  BY <1>1, <1>2, <1>5, GroupSlots
<1>6. CASE g = buffer493
  BY <1>1, <1>2, <1>6, GroupSlots
<1>7. CASE g = buffer4444
  BY <1>1, <1>2, <1>7, GroupSlots
<1>8. CASE g = buffer3310
  BY <1>1, <1>2, <1>8, GroupSlots
<1>9. QED
  BY <1>3, <1>4, <1>5, <1>6, <1>7, <1>8 DEF Groups

\* The instructions a slot is offered.
LEMMA Offered ==
    ASSUME NEW g \in Groups, NEW b \in 1 .. Len(g), NEW n \in ForSlot(g, b)
    PROVE  \/ n \in {"ISUB_R", "IXOR_R"} /\ g[b] = 3
           \/ n \in {"IMUL_R", "IROR_C", "IADD_RS"} /\ g[b] = 4
           \/ n \in {"IADD_C", "IXOR_C"} /\ g[b] \in {7, 8, 9}
           \/ n \in MulHs /\ g[b] = 3 /\ b = Len(g) /\ g \in {buffer7333, buffer3733, buffer493}
           \/ n = "IMUL_RCP" /\ g[b] = 10 /\ b = Len(g)
<1>1. /\ g[b] \in {3, 4, 7, 8, 9, 10} /\ Len(g) \in {3, 4}
      /\ g[b] = 10 => b = Len(g)
      /\ g[Len(g)] = 3 => g \in {buffer7333, buffer3733, buffer493}
  BY Places
<1>2. CASE g[b] = 3
  <2>1. ForSlot(g, b) = {"ISUB_R", "IXOR_R"} \cup (IF b = Len(g) THEN MulHs ELSE {})
    BY <1>2 DEF ForSlot
  <2>2. QED
    BY <1>1, <1>2, <2>1
<1>3. CASE g[b] = 4 /\ g = buffer4444 /\ b # Len(g)
  <2>1. ForSlot(g, b) = {"IMUL_R"}
    BY <1>3 DEF ForSlot
  <2>2. QED
    BY <1>3, <2>1
<1>4. CASE g[b] = 4 /\ ~(g = buffer4444 /\ b # Len(g))
  <2>1. ForSlot(g, b) = {"IROR_C", "IADD_RS"}
    BY <1>4 DEF ForSlot
  <2>2. QED
    BY <1>4, <2>1
<1>5. CASE g[b] \in {7, 8, 9}
  <2>1. ForSlot(g, b) = {"IXOR_C", "IADD_C"}
    BY <1>5 DEF ForSlot
  <2>2. QED
    BY <1>5, <2>1
<1>6. CASE g[b] = 10
  <2>1. ForSlot(g, b) = {"IMUL_RCP"}
    BY <1>6 DEF ForSlot
  <2>2. QED
    BY <1>1, <1>6, <2>1
<1>7. QED
  BY <1>1, <1>2, <1>3, <1>4, <1>5, <1>6

\* What is known of the macro-operation that is being filled in.
LEMMA Now ==
    ASSUME TypeInv, SlotsRight, Filling
    PROVE  /\ current.name \in AllNames /\ macroOpIndex < Len(info.ops)
           /\ Going(current.name, macroOpIndex, mop)
           /\ buffer \in Groups /\ bufferIndex \in 1 .. Len(buffer)
<1>1. /\ current.name \in AllNames \cup {"INVALID"} /\ macroOpIndex \in Nat /\ bufferIndex \in Nat \ {0}
  BY Catalogue DEF TypeInv
<1>2. Placed
  BY DEF SlotsRight
<1>3. buffer \in Groups /\ Len(buffer) \in Nat
  BY Places DEF Filling, Scheduled, SlotsRight
<1>4. Len(info.ops) \in Nat
  BY <1>1, Lengths DEF info, AllNames, MulHs
<1>5. macroOpIndex < Len(info.ops) /\ bufferIndex \in 1 .. Len(buffer)
  BY <1>1, <1>2, <1>3, <1>4 DEF Placed, SlotsLeft, NeedsNew
<1>6. current.name \in AllNames /\ Going(current.name, macroOpIndex, InfoOf(current.name).ops[macroOpIndex + 1])
  BY <1>1, <1>5, Steps DEF info
<1>7. QED
  BY <1>3, <1>5, <1>6 DEF mop, info

-----------------------------------------------------------------------------
(* Operands.                                                               *)

\* Sources are found as early as there are any.
LEMMA SourceFound ==
    ASSUME TypeInv
    PROVE  \/ SourceStall = -1
           \/ /\ SourceStall \in Nat /\ Sources(scheduleCycle + SourceStall) # {}
              /\ \A c \in Nat : c >= scheduleCycle /\ Sources(c) # {} => scheduleCycle + SourceStall <= c
<1> DEFINE S == {c \in Nat : Sources(c) # {}}
<1>1. PICK from \in Nat : from = scheduleCycle
  BY DEF TypeInv
<1>2. \A a \in Ahead : from + a \in S <=> Sources(scheduleCycle + a) # {}
  BY <1>1, LimitsAssumption DEF Ahead
<1>3. {a \in Ahead : from + a \in S} = {f \in Ahead : Sources(scheduleCycle + f) # {}}
  BY <1>2
<1>4. PICK f : f = SourceStall
  OBVIOUS
<1>5. f = Earliest({a \in Ahead : from + a \in S})
  BY <1>3, <1>4 DEF SourceStall
<1>6. S \in SUBSET Nat
  OBVIOUS
<1> HIDE DEF S
<1>7. \/ f = -1
      \/ f \in Nat /\ from + f \in S /\ \A c \in S : c >= from => from + f <= c
  BY <1>5, <1>6, FirstStall
<1>8. QED
  BY <1>1, <1>4, <1>7 DEF S

\* And so are destinations.
LEMMA DestinationFound ==
    ASSUME TypeInv
    PROVE  \/ DestinationStall = -1
           \/ /\ DestinationStall \in Nat /\ Destinations(scheduleCycle + DestinationStall) # {}
              /\ \A c \in Nat : c >= scheduleCycle /\ Destinations(c) # {} => scheduleCycle + DestinationStall <= c
<1> DEFINE S == {c \in Nat : Destinations(c) # {}}
<1>1. PICK from \in Nat : from = scheduleCycle
  BY DEF TypeInv
<1>2. \A a \in Ahead : from + a \in S <=> Destinations(scheduleCycle + a) # {}
  BY <1>1, LimitsAssumption DEF Ahead
<1>3. {a \in Ahead : from + a \in S} = {f \in Ahead : Destinations(scheduleCycle + f) # {}}
  BY <1>2
<1>4. PICK f : f = DestinationStall
  OBVIOUS
<1>5. f = Earliest({a \in Ahead : from + a \in S})
  BY <1>3, <1>4 DEF DestinationStall
<1>6. S \in SUBSET Nat
  OBVIOUS
<1> HIDE DEF S
<1>7. \/ f = -1
      \/ f \in Nat /\ from + f \in S /\ \A c \in S : c >= from => from + f <= c
  BY <1>5, <1>6, FirstStall
<1>8. QED
  BY <1>1, <1>4, <1>7 DEF S

\* There are sources as soon as any register is ready.
LEMMA SourcesAreReady ==
    ASSUME NEW c
    PROVE  Sources(c) \subseteq Ready(c) /\ Ready(c) \subseteq Registers /\ (Ready(c) # {} => Sources(c) # {})
BY DEF Sources, Ready

LEMMA DestinationsAreReady ==
    ASSUME NEW c
    PROVE  Destinations(c) \subseteq Ready(c)
BY DEF Destinations

\* Where IssueCycle and the first scheduleMop look.
LEMMA IssuesAt ==
    ASSUME TypeInv
    PROVE  FoundFrom(mop, scheduleCycle, IssueCycle)
<1>1. PICK from \in Nat : from = scheduleCycle
  BY DEF TypeInv
<1>2. PICK op : op = mop
  OBVIOUS
<1>3. PICK start \in Nat :
          /\ (op.dependent /\ from > from) \/ start = from
          /\ FoundFrom(op, start, scheduleMop(op, from, from))
  BY FirstFit
<1>4. start = from
  BY <1>3
<1>5. QED
  BY <1>1, <1>2, <1>3, <1>4 DEF IssueCycle

LEMMA SchedulesAt ==
    ASSUME TypeInv
    PROVE  \E start \in Nat :
              /\ start >= cycle /\ (mop.dependent => start >= depCycle)
              /\ mop.dependent \/ start = cycle
              /\ FoundFrom(mop, start, scheduleMop(mop, cycle, depCycle))
<1>1. PICK from \in Nat, dep \in Nat : from = cycle /\ dep = depCycle
  BY DEF TypeInv
<1>2. PICK op : op = mop
  OBVIOUS
<1>3. QED
  BY <1>1, <1>2, FirstFit

\* Booking ports keeps the map.
LEMMA BookedTyped ==
    ASSUME TypeInv, NEW op, NEW c
    PROVE  Booked(op, c) \in [Cycles -> SUBSET Ports]
<1>1. portBusy \in [Cycles -> SUBSET Ports]
  BY DEF TypeInv, Cycles
<1>2. \A free : Port(free) \in Ports
  BY DEF Port, Ports
<1>3. CASE op.uops = <<>>
  BY <1>1, <1>3 DEF Booked
<1>4. CASE op.uops # <<>>
  <2>1. PICK taken : taken = portBusy[c] \cup {Port(op.uops[u] \ portBusy[c]) : u \in DOMAIN op.uops}
    OBVIOUS
  <2>2. Booked(op, c) = [portBusy EXCEPT ![c] = taken]
    BY <1>4, <2>1 DEF Booked
  <2>3. c \in Cycles => taken \in SUBSET Ports
    BY <1>1, <1>2, <2>1
  <2>4. QED
    BY <1>1, <2>2, <2>3
<1>5. QED
  BY <1>3, <1>4

-----------------------------------------------------------------------------
(* What the steps do.                                                      *)

\* createForSlot
LEMMA Created ==
    ASSUME TypeInv, SlotsRight, NEW name, Create(name)
    PROVE  /\ stage = "slot" /\ NeedsNew /\ ~Full
           /\ buffer \in Groups /\ bufferIndex \in 1 .. Len(buffer)
           /\ name \in AllNames /\ name \in ForSlot(buffer, bufferIndex)
           /\ \E par \in {-1} \cup Registers :
                 current' = [name |-> name, src |-> -1, dst |-> -1, par |-> par]
           /\ macroOpIndex' = 0 /\ stage' = "schedule"
           /\ UNCHANGED <<plan, buffer, bufferIndex, cycle, topCycle, scheduleCycle, depCycle,
                          decodeCycle, portsSaturated, counts, throwAwayCount>>
<1>1. /\ stage = "slot" /\ SlotsLeft /\ NeedsNew /\ ~Full /\ name \in ForSlot(buffer, bufferIndex)
      /\ macroOpIndex' = 0 /\ stage' = "schedule"
      /\ UNCHANGED <<plan, buffer, bufferIndex, cycle, topCycle, scheduleCycle, depCycle,
                     decodeCycle, portsSaturated, counts, throwAwayCount>>
  BY DEF Create
<1>2. buffer \in Groups /\ Len(buffer) \in Nat
  BY <1>1, Places DEF SlotsRight
<1>3. bufferIndex \in 1 .. Len(buffer)
  BY <1>1, <1>2 DEF SlotsLeft, TypeInv
<1>4. name \in AllNames
  BY <1>1, <1>2, <1>3, Offered DEF AllNames, MulHs
<1>5. PICK par \in {-1} \cup Registers : current' = [Instruction(name) EXCEPT !.par = par]
  BY DEF Create
<1>6. current' = [name |-> name, src |-> -1, dst |-> -1, par |-> par]
  BY <1>5 DEF Instruction
<1>7. QED
  BY <1>1, <1>2, <1>3, <1>4, <1>6

ScheduledFor(start, c) ==
    /\ start >= cycle /\ (mop.dependent => start >= depCycle) /\ (mop.dependent \/ start = cycle)
    /\ FoundFrom(mop, start, c)
    /\ c = -1 => /\ portsSaturated' = TRUE
                 /\ stage' = "break"
                 /\ UNCHANGED <<scheduleCycle, topCycle>>
    /\ c # -1 => /\ scheduleCycle' = c
                 /\ topCycle' = cycle
                 /\ stage' = IF NeedsSource THEN "source" ELSE IF NeedsDestination THEN "destination" ELSE "issue"
                 /\ UNCHANGED portsSaturated
    /\ UNCHANGED <<plan, buffer, bufferIndex, current, macroOpIndex, cycle, depCycle, decodeCycle,
                   counts, throwAwayCount>>

LEMMA Schedules ==
    ASSUME TypeInv, Schedule
    PROVE  \E start \in Nat, c \in Nat \cup {-1} : Filling /\ ScheduledFor(start, c)
<1>1. PICK start \in Nat :
          /\ start >= cycle /\ (mop.dependent => start >= depCycle)
          /\ mop.dependent \/ start = cycle
          /\ FoundFrom(mop, start, scheduleMop(mop, cycle, depCycle))
  BY SchedulesAt
<1>2. PICK c : c = scheduleMop(mop, cycle, depCycle)
  OBVIOUS
<1>3. c \in Nat \cup {-1} /\ (c < 0 <=> c = -1)
  BY <1>1, <1>2 DEF FoundFrom
<1>4. Filling
  BY DEF Schedule, Filling
<1>5. ScheduledFor(start, c)
  BY <1>1, <1>2, <1>3 DEF Schedule, ScheduledFor
<1>6. QED
  BY <1>3, <1>4, <1>5

\* An operand is picked f cycles later.
SourcePicked(f, r) ==
    /\ stage = "source"
    /\ r \in Sources(scheduleCycle + f)
    /\ \A c \in Nat : c >= scheduleCycle /\ Sources(c) # {} => scheduleCycle + f <= c
    /\ current' = [name |-> current.name, src |-> r, dst |-> current.dst,
                   par |-> IF groupParIsSource(current.name) THEN r ELSE current.par]
    /\ scheduleCycle' = scheduleCycle + f /\ cycle' = cycle + f
    /\ stage' = IF NeedsDestination THEN "destination" ELSE "issue"
    /\ UNCHANGED <<plan, buffer, bufferIndex, macroOpIndex, topCycle, depCycle, decodeCycle,
                   portsSaturated, counts, throwAwayCount>>

LEMMA PicksSource ==
    ASSUME TypeInv, SelectSource
    PROVE  \E f \in Nat, r \in Registers : SourcePicked(f, r)
<1>1. PICK f : f = SourceStall
  OBVIOUS
<1>2. /\ f \in Nat
      /\ \A c \in Nat : c >= scheduleCycle /\ Sources(c) # {} => scheduleCycle + f <= c
  BY <1>1, SourceFound DEF SelectSource
<1>3. PICK r \in Sources(scheduleCycle + f) :
          current' = [current EXCEPT !.src = r, !.par = IF groupParIsSource(current.name) THEN r ELSE @]
  BY <1>1 DEF SelectSource
<1>4. r \in Registers
  BY <1>3, SourcesAreReady
<1>5. current' = [name |-> current.name, src |-> r, dst |-> current.dst,
                  par |-> IF groupParIsSource(current.name) THEN r ELSE current.par]
  BY <1>3 DEF TypeInv
<1>6. SourcePicked(f, r)
  BY <1>1, <1>2, <1>3, <1>5 DEF SelectSource, SourcePicked
<1>7. QED
  BY <1>2, <1>4, <1>6

DestinationPicked(f, r) ==
    /\ stage = "destination"
    /\ r \in Destinations(scheduleCycle + f)
    /\ \A c \in Nat : c >= scheduleCycle /\ Destinations(c) # {} => scheduleCycle + f <= c
    /\ current' = [name |-> current.name, src |-> current.src, dst |-> r, par |-> current.par]
    /\ scheduleCycle' = scheduleCycle + f /\ cycle' = cycle + f
    /\ stage' = "issue"
    /\ UNCHANGED <<plan, buffer, bufferIndex, macroOpIndex, topCycle, depCycle, decodeCycle,
                   portsSaturated, counts, throwAwayCount>>

LEMMA PicksDestination ==
    ASSUME TypeInv, SelectDestination
    PROVE  \E f \in Nat, r \in Registers : DestinationPicked(f, r)
<1>1. PICK f : f = DestinationStall
  OBVIOUS
<1>2. /\ f \in Nat
      /\ \A c \in Nat : c >= scheduleCycle /\ Destinations(c) # {} => scheduleCycle + f <= c
  BY <1>1, DestinationFound DEF SelectDestination
<1>3. PICK r \in Destinations(scheduleCycle + f) : current' = [current EXCEPT !.dst = r]
  BY <1>1 DEF SelectDestination
<1>4. r \in Registers
  BY <1>3, SourcesAreReady, DestinationsAreReady
<1>5. current' = [name |-> current.name, src |-> current.src, dst |-> r, par |-> current.par]
  BY <1>3 DEF TypeInv
<1>6. DestinationPicked(f, r)
  BY <1>1, <1>2, <1>3, <1>5 DEF SelectDestination, DestinationPicked
<1>7. QED
  BY <1>2, <1>4, <1>6

\* There is always room for an operation that has its operands.
LEMMA RoomToIssue ==
    ASSUME TypeInv, SlotsRight, RoomLeft, stage = "issue"
    PROVE  IssueCycle \in Nat
<1>1. PICK c : c = IssueCycle /\ FoundFrom(mop, scheduleCycle, c)
  BY IssuesAt
<1>2. Filling /\ Scheduled /\ scheduleCycle \in Nat
  BY DEF Filling, Scheduled, TypeInv
<1>3. Going(current.name, macroOpIndex, mop)
  BY <1>2, Now
<1>4. CASE mop.uops = <<>>
  BY <1>1, <1>2, <1>4 DEF FoundFrom
<1>5. CASE mop.uops # <<>>
  <2>1. ~portsSaturated
    BY <1>2, <1>3, <1>5 DEF RoomLeft, Going, Kind, MulHs
  <2>2. PICK d \in Nat : d = IF scheduleCycle < SUPERSCALAR_LATENCY THEN SUPERSCALAR_LATENCY ELSE scheduleCycle
    BY <1>2, LatencyAssumption
  <2>3. d \in scheduleCycle .. CYCLE_MAP_SIZE - 1 /\ d \in SUPERSCALAR_LATENCY .. CYCLE_MAP_SIZE - 1
    BY <1>2, <1>5, <2>2, MapSize, LatencyAssumption DEF RoomLeft
  <2>4. portBusy[d] = {}
    BY <2>1, <2>3 DEF RoomLeft
  <2>5. \A u \in DOMAIN mop.uops : mop.uops[u] # {}
    <3>1. \A x : DOMAIN <<x>> = 1 .. 1 /\ <<x>>[1] = x
      OBVIOUS
    <3>2. \A x, y : DOMAIN <<x, y>> = 1 .. 2 /\ <<x, y>>[1] = x /\ <<x, y>>[2] = y
      OBVIOUS
    <3>3. P015 # {} /\ P01 # {} /\ P05 # {} /\ {"P1"} # {} /\ {"P5"} # {}
      BY DEF P015, P01, P05
    <3>4. \/ \E x : mop.uops = <<x>> /\ x # {}
          \/ \E x, y : mop.uops = <<x, y>> /\ x # {} /\ y # {}
      BY <1>3, <1>5, <3>3 DEF Going, Kind
    <3>5. QED
      BY <3>1, <3>2, <3>4
  <2>6. Fits(mop, d)
    BY <2>4, <2>5 DEF Fits
  <2>7. QED
    BY <1>1, <1>2, <1>5, <2>3, <2>6 DEF FoundFrom
<1>6. QED
  BY <1>4, <1>5

IssuedAt(c) ==
    /\ stage = "issue" /\ c = IssueCycle /\ FoundFrom(mop, scheduleCycle, c)
    /\ portBusy' = Booked(mop, c) /\ depCycle' = c + mop.latency
    /\ registers' = [r \in Registers |->
           IF macroOpIndex = info.resultOp /\ r = current.dst THEN Result(c) ELSE registers[r]]
    /\ bufferIndex' = bufferIndex + 1 /\ macroOpIndex' = macroOpIndex + 1
    /\ portsSaturated' = (portsSaturated \/ c >= SUPERSCALAR_LATENCY)
    /\ cycle' = topCycle
    /\ programSize' = programSize + (IF macroOpIndex + 1 >= Len(info.ops) THEN 1 ELSE 0)
    /\ stage' = "slot"
    /\ UNCHANGED <<buffer, current, topCycle, scheduleCycle, decodeCycle>>

LEMMA Issues ==
    ASSUME TypeInv, SlotsRight, RoomLeft, Issue
    PROVE  /\ \E c \in Nat : IssuedAt(c)
           /\ Filling /\ Scheduled /\ Going(current.name, macroOpIndex, mop) /\ mop.latency \in 0 .. 4
<1>1. stage = "issue"
  BY DEF Issue
<1>2. PICK c \in Nat : c = IssueCycle /\ FoundFrom(mop, scheduleCycle, c)
  BY <1>1, RoomToIssue, IssuesAt
<1>3. IssuedAt(c)
  BY <1>1, <1>2 DEF Issue, IssuedAt
<1>4. Filling /\ Scheduled
  BY <1>1 DEF Filling, Scheduled
<1>5. Going(current.name, macroOpIndex, mop)
  BY <1>4, Now
<1>6. mop.latency \in 0 .. 4
  BY <1>5 DEF Going, Kind
<1>7. QED
  BY <1>3, <1>4, <1>5, <1>6

\* How long an instruction may be.
LEMMA LengthOf ==
    ASSUME NEW n \in AllNames \cup {"INVALID"}
    PROVE  \/ n \in MulHs /\ Len(InfoOf(n).ops) = 3
           \/ n = "IMUL_RCP" /\ Len(InfoOf(n).ops) = 2
           \/ n \notin MulHs \cup {"IMUL_RCP"} /\ Len(InfoOf(n).ops) \in {0, 1} /\ (n # "INVALID" => Len(InfoOf(n).ops) = 1)
<1>1. CASE n \in MulHs
  BY <1>1, Lengths
<1>2. CASE n = "IMUL_RCP"
  BY <1>2, Lengths
<1>3. CASE n = "INVALID"
  BY <1>3, Lengths DEF MulHs
<1>4. CASE n \in AllNames \ (MulHs \cup {"IMUL_RCP"})
  <2>1. Len(InfoOf(n).ops) = 1
    BY <1>4, Lengths
  <2>2. QED
    BY <1>4, <2>1
<1>5. QED
  BY <1>1, <1>2, <1>3, <1>4

LEMMA InfoTyped ==
    ASSUME TypeInv
    PROVE  Len(info.ops) \in Nat /\ (Len(info.ops) > 1 => current.name \in MulHs \cup {"IMUL_RCP"})
<1>1. current.name \in AllNames \cup {"INVALID"}
  BY Catalogue DEF TypeInv
<1>2. PICK n \in AllNames \cup {"INVALID"} : n = current.name
  BY <1>1
<1>3. PICK l : l = Len(info.ops) /\ l = Len(InfoOf(n).ops)
  BY <1>2 DEF info
<1>4. \/ n \in MulHs /\ l = 3
      \/ n = "IMUL_RCP" /\ l = 2
      \/ l = 0
      \/ l = 1
  BY <1>3, LengthOf
<1>5. l \in Nat /\ (l > 1 => n \in MulHs \/ n = "IMUL_RCP")
  BY <1>4
<1>6. QED
  BY <1>2, <1>3, <1>5

-----------------------------------------------------------------------------
(* Types.                                                                  *)

\* Every step keeps the types.
LEMMA TypeKept ==
    ASSUME TypeInv, SlotsRight, RoomLeft, [GeneratorNext]_generatorVars
    PROVE  TypeInv'
<1> USE DEF TypeInv
<1>1. CASE Fetch
  <2>1. FetchNext \subseteq Groups
    BY DEF FetchNext, Groups
  <2>2. QED
    BY <1>1, <2>1 DEF Fetch, plan, counts
<1>2. CASE EndOfBuffer
  BY <1>2 DEF EndOfBuffer, plan, counts
<1>3. ASSUME NEW name \in Names, Create(name)
      PROVE  TypeInv'
  BY <1>3, Created, Catalogue DEF plan, counts
<1>4. CASE Schedule
  <2>1. PICK start \in Nat, c \in Nat \cup {-1} : ScheduledFor(start, c)
    BY <1>4, Schedules
  <2>2. CASE c = -1
    BY <2>1, <2>2 DEF ScheduledFor, plan, counts
  <2>3. CASE c # -1
    BY <2>1, <2>3 DEF ScheduledFor, plan, counts
  <2>4. QED
    BY <2>2, <2>3
<1>5. CASE SelectSource
  <2>1. PICK f \in Nat, r \in Registers : SourcePicked(f, r)
    BY <1>5, PicksSource
  <2>2. QED
    BY <2>1 DEF SourcePicked, plan, counts
<1>6. CASE SelectDestination
  <2>1. PICK f \in Nat, r \in Registers : DestinationPicked(f, r)
    BY <1>6, PicksDestination
  <2>2. QED
    BY <2>1 DEF DestinationPicked, plan, counts
<1>7. CASE ThrowAway
  <2>1. Len(info.ops) \in Nat
    BY Lengths, Catalogue DEF info, AllNames, MulHs
  <2>2. Null \in [name : DOMAIN Infos \cup {"INVALID"}, src : Registers \cup {-1},
                  dst : Registers \cup {-1}, par : Registers \cup {-1}]
    BY DEF Null, Instruction
  <2>3. cycle' \in Nat
    BY <1>7, LimitsAssumption DEF ThrowAway
  <2>4. CASE GivesUp
    BY <1>7, <2>2, <2>3, <2>4 DEF ThrowAway, plan, counts
  <2>5. CASE ~GivesUp
    BY <1>7, <2>1, <2>3, <2>5 DEF ThrowAway, plan, counts
  <2>6. QED
    BY <2>4, <2>5
<1>8. CASE Issue
  <2>1. PICK c \in Nat : IssuedAt(c)
    BY <1>8, Issues
  <2>2. mop.latency \in Nat
    BY <1>8, Issues
  <2>3. Result(c).latency \in Nat
    BY <2>1, <2>2 DEF Result
  <2>4. DOMAIN registers' = Registers /\ \A r \in Registers : (registers')[r].latency \in Nat
    BY <2>1, <2>3 DEF IssuedAt
  <2>5. portBusy' \in [0 .. CYCLE_MAP_SIZE - 1 -> SUBSET Ports]
    BY <2>1, BookedTyped DEF Cycles, IssuedAt
  <2>6. programSize' \in Nat /\ depCycle' \in Nat
    BY <2>1, <2>2 DEF IssuedAt
  <2>7. QED
    BY <2>1, <2>4, <2>5, <2>6 DEF IssuedAt
<1>9. CASE UNCHANGED generatorVars
  BY <1>9 DEF generatorVars
<1>10. QED
  BY <1>1, <1>2, <1>3, <1>4, <1>5, <1>6, <1>7, <1>8, <1>9 DEF GeneratorNext

\* Once the ports are saturated they remain so, and nothing new is begun.
LEMMA SizeKept ==
    ASSUME TypeInv, TypeInv', SlotsRight, RoomLeft, SizeRight, [GeneratorNext]_generatorVars
    PROVE  SizeRight'
<1>1. Len(info.ops) \in Nat /\ Len(info'.ops) \in Nat
  <2>1. \A n \in AllNames \cup {"INVALID"} : Len(InfoOf(n).ops) \in Nat
    <3>1. TAKE n \in AllNames \cup {"INVALID"}
    <3>2. PICK l : l = Len(InfoOf(n).ops)
      OBVIOUS
    <3>3. l = 3 \/ l = 2 \/ l = 1 \/ l = 0
      BY <3>2, LengthOf
    <3>4. QED
      BY <3>2, <3>3
  <2>2. current.name \in AllNames \cup {"INVALID"} /\ current'.name \in AllNames \cup {"INVALID"}
    BY Catalogue DEF TypeInv
  <2>3. QED
    BY <2>1, <2>2 DEF info
<1>2. CASE Fetch
  BY <1>2 DEF Fetch, SizeRight, NeedsNew, info, counts
<1>3. CASE EndOfBuffer
  BY <1>3 DEF EndOfBuffer, SizeRight, NeedsNew, info, counts
<1>4. ASSUME NEW name \in Names, Create(name)
      PROVE  SizeRight'
  BY <1>4, Created, SizeAssumption DEF SizeRight, Full, counts, TypeInv
<1>5. CASE Schedule
  BY <1>5, Schedules DEF ScheduledFor, SizeRight, NeedsNew, info, counts
<1>6. CASE SelectSource
  <2>1. PICK f \in Nat, r \in Registers : SourcePicked(f, r)
    BY <1>6, PicksSource
  <2>2. current'.name = current.name /\ macroOpIndex' = macroOpIndex /\ programSize' = programSize
    BY <2>1 DEF SourcePicked, counts
  <2>3. QED
    BY <2>2 DEF SizeRight, NeedsNew, info
<1>7. CASE SelectDestination
  <2>1. PICK f \in Nat, r \in Registers : DestinationPicked(f, r)
    BY <1>7, PicksDestination
  <2>2. current'.name = current.name /\ macroOpIndex' = macroOpIndex /\ programSize' = programSize
    BY <2>1 DEF DestinationPicked, counts
  <2>3. QED
    BY <2>2 DEF SizeRight, NeedsNew, info
<1>8. CASE ThrowAway
  <2>1. NeedsNew'
    <3>1. CASE GivesUp
      <4>1. current'.name = "INVALID"
        BY <1>8, <3>1 DEF ThrowAway, Null, Instruction
      <4>2. Len(info'.ops) = 0
        BY <4>1, Lengths DEF info
      <4>3. QED
        BY <4>2 DEF NeedsNew, TypeInv
    <3>2. CASE ~GivesUp
      BY <1>1, <1>8, <3>2 DEF ThrowAway, NeedsNew, info
    <3>3. QED
      BY <3>1, <3>2
  <2>2. programSize' = programSize
    BY <1>8 DEF ThrowAway, counts
  <2>3. QED
    BY <2>1, <2>2 DEF SizeRight
<1>9. CASE Issue
  <2>1. PICK c \in Nat : IssuedAt(c)
    BY <1>9, Issues
  <2>2. ~NeedsNew
    BY <1>1, <1>9, Issues, Now DEF NeedsNew, TypeInv
  <2>3. info' = info /\ macroOpIndex' = macroOpIndex + 1
    BY <2>1 DEF IssuedAt, info
  <2>4. QED
    BY <1>1, <2>1, <2>2, <2>3, SizeAssumption DEF IssuedAt, SizeRight, NeedsNew, TypeInv
<1>10. CASE UNCHANGED generatorVars
  BY <1>10 DEF generatorVars, SizeRight, NeedsNew, info
<1>11. QED
  BY <1>2, <1>3, <1>4, <1>5, <1>6, <1>7, <1>8, <1>9, <1>10 DEF GeneratorNext

-----------------------------------------------------------------------------
(* Slots.                                                                  *)

\* What is filled where depends on nothing else.
LEMMA SamePlace ==
    ASSUME current'.name = current.name, macroOpIndex' = macroOpIndex,
           buffer' = buffer, bufferIndex' = bufferIndex
    PROVE  /\ info' = info /\ mop' = mop /\ (Placed' <=> Placed)
           /\ (NeedsNew' <=> NeedsNew) /\ (SlotsLeft' <=> SlotsLeft)
           /\ (NeedsSource' <=> NeedsSource) /\ (NeedsDestination' <=> NeedsDestination)
BY DEF info, mop, Placed, NeedsNew, SlotsLeft, NeedsSource, NeedsDestination

\* A new group suits what the group before left over.
LEMMA FetchSlots ==
    ASSUME TypeInv, TypeInv', SlotsRight, Fetch
    PROVE  SlotsRight'
<1>1. /\ stage = "fetch" /\ current' = current /\ macroOpIndex' = macroOpIndex
      /\ portsSaturated' = portsSaturated
  BY DEF Fetch
<1>2. CASE stage' = "done"
  BY <1>2 DEF SlotsRight, Filling, Scheduled
<1>3. CASE stage' # "done"
  <2>1. /\ buffer' \in FetchNext /\ bufferIndex' = 1 /\ stage' = "slot" /\ ~Full
    BY <1>3 DEF Fetch
  <2>2. buffer' \in Groups
    BY <2>1 DEF FetchNext, Groups
  <2>3. Len(buffer') \in {3, 4}
    BY <2>2, Places
  <2>4. SlotsLeft'
    BY <2>1, <2>3 DEF SlotsLeft
  <2>5. ASSUME ~NeedsNew
        PROVE  Placed'
    <3>1. macroOpIndex = 1 /\ Len(info.ops) > 1
      BY <1>1, <2>1, <2>5 DEF SlotsRight, Full
    <3>2. mop' = mop /\ info' = info /\ ~NeedsNew'
      BY <1>1, <2>5 DEF mop, info, NeedsNew
    <3>3. Going(current.name, 1, mop)
      BY <3>1, Steps, Catalogue, Lengths DEF mop, info, TypeInv
    <3>4. CASE current.name \in MulHs
      <4>1. buffer' = buffer3310
        BY <2>1, <3>4 DEF FetchNext
      <4>2. mop.size = 3
        BY <3>3, <3>4 DEF Going, Kind, MulHs
      <4>3. QED
        BY <1>1, <2>1, <2>4, <3>1, <3>2, <3>4, <4>1, <4>2, GroupSlots DEF Placed
    <3>5. CASE current.name \notin MulHs
      <4>1. current.name = "IMUL_RCP"
        BY <3>1, <3>5, InfoTyped
      <4>2. buffer' \in {buffer4444, buffer484, buffer493}
        BY <2>1, <3>5, <4>1 DEF FetchNext
      <4>3. (buffer')[1] = 4
        BY <4>2, GroupSlots
      <4>4. mop.size = 4 /\ mop.uops = <<{"P1"}>>
        BY <3>3, <4>1 DEF Going, Kind, MulHs
      <4>5. Len(mop.uops) = 1
        BY <4>4
      <4>6. QED
        BY <1>1, <2>1, <2>4, <3>1, <3>2, <3>5, <4>3, <4>4, <4>5 DEF Placed
    <3>6. QED
      BY <3>4, <3>5
  <2>6. NeedsNew' <=> NeedsNew
    BY <1>1 DEF NeedsNew, info
  <2>7. QED
    BY <2>1, <2>2, <2>3, <2>4, <2>5, <2>6 DEF SlotsRight, Filling, Scheduled
<1>4. QED
  BY <1>2, <1>3

\* A new instruction suits its slot.
LEMMA CreateSlots ==
    ASSUME TypeInv, TypeInv', SlotsRight, NEW name, Create(name)
    PROVE  SlotsRight'
<1>1. /\ stage' = "schedule" /\ macroOpIndex' = 0 /\ current'.name = name
      /\ buffer' = buffer /\ bufferIndex' = bufferIndex
      /\ buffer \in Groups /\ bufferIndex \in 1 .. Len(buffer)
      /\ name \in AllNames /\ name \in ForSlot(buffer, bufferIndex)
  BY Created
<1>2. Len(InfoOf(name).ops) \in 1 .. 3 /\ (Len(InfoOf(name).ops) > 1 => name \in MulHs \cup {"IMUL_RCP"})
  <2>1. name # "INVALID"
    BY <1>1 DEF AllNames
  <2>2. PICK l : l = Len(InfoOf(name).ops)
    OBVIOUS
  <2>3. \/ name \in MulHs /\ l = 3
        \/ name = "IMUL_RCP" /\ l = 2
        \/ l = 1
    BY <1>1, <2>1, <2>2, LengthOf
  <2>4. l \in 1 .. 3 /\ (l > 1 => name \in MulHs \/ name = "IMUL_RCP")
    BY <2>3
  <2>5. QED
    BY <2>2, <2>4
<1>3. info' = InfoOf(name) /\ mop' = InfoOf(name).ops[0 + 1]
  BY <1>1 DEF info, mop
<1>4. Going(name, 0, mop')
  BY <1>1, <1>2, <1>3, Steps
<1>5. \/ name \in {"ISUB_R", "IXOR_R"} /\ buffer[bufferIndex] = 3
      \/ name \in {"IMUL_R", "IROR_C", "IADD_RS"} /\ buffer[bufferIndex] = 4
      \/ name \in {"IADD_C", "IXOR_C"} /\ buffer[bufferIndex] \in {7, 8, 9}
      \/ /\ name \in MulHs /\ buffer[bufferIndex] = 3 /\ bufferIndex = Len(buffer)
         /\ buffer \in {buffer7333, buffer3733, buffer493}
      \/ name = "IMUL_RCP" /\ buffer[bufferIndex] = 10 /\ bufferIndex = Len(buffer)
  BY <1>1, Offered
<1>6. buffer[bufferIndex] \in mop'.size .. mop'.size + 2
  BY <1>4, <1>5 DEF Going, Kind, MulHs
<1>7. Len(mop'.uops) # 2
  <2>1. mop'.uops = <<>> \/ \E x : mop'.uops = <<x>>
    BY <1>4 DEF Going, Kind, MulHs
  <2>2. QED
    BY <2>1
<1>8. SlotsLeft' /\ ~NeedsNew'
  BY <1>1, <1>2, <1>3 DEF SlotsLeft, NeedsNew
<1>9. Placed'
  BY <1>1, <1>2, <1>3, <1>5, <1>6, <1>7, <1>8 DEF Placed, MulHs
<1>10. QED
  BY <1>1, <1>9 DEF SlotsRight

\* And what follows in the same group suits the next slot.
LEMMA IssueSlots ==
    ASSUME TypeInv, TypeInv', SlotsRight, RoomLeft, Issue
    PROVE  SlotsRight'
<1>1. PICK c \in Nat : IssuedAt(c)
  BY Issues
<1>2. /\ stage' = "slot" /\ bufferIndex' = bufferIndex + 1 /\ macroOpIndex' = macroOpIndex + 1
      /\ buffer' = buffer /\ current' = current /\ info' = info
  BY <1>1 DEF IssuedAt, info
<1>3. /\ Going(current.name, macroOpIndex, mop) /\ Placed
      /\ buffer \in Groups /\ bufferIndex \in 1 .. Len(buffer) /\ Len(buffer) \in Nat
  BY Issues, Now, Places DEF SlotsRight
<1>4. Len(info.ops) \in Nat /\ macroOpIndex \in Nat /\ macroOpIndex < Len(info.ops)
  BY Issues, InfoTyped, Now DEF TypeInv
<1>5. CASE NeedsNew'
  <2>1. ~Filling'
    BY <1>2, <1>5 DEF Filling, Scheduled
  <2>2. QED
    BY <1>2, <1>3, <1>5, <2>1 DEF SlotsRight
<1>6. CASE ~NeedsNew'
  <2>1. macroOpIndex + 1 < Len(info.ops) /\ Len(info.ops) > 1
    BY <1>2, <1>4, <1>6 DEF NeedsNew
  <2>2. current.name \in MulHs \cup {"IMUL_RCP"}
    BY <2>1, InfoTyped
  <2>3. CASE macroOpIndex = 0
    <3>1. bufferIndex = Len(buffer)
      BY <1>3, <2>1, <2>3 DEF Placed
    <3>2. ~SlotsLeft' /\ macroOpIndex' = 1
      BY <1>2, <1>3, <2>3, <3>1 DEF SlotsLeft
    <3>3. QED
      BY <1>2, <1>3, <2>1, <3>1, <3>2 DEF SlotsRight, Filling, Scheduled
  <2>4. CASE macroOpIndex # 0
    <3>1. current.name \in MulHs /\ macroOpIndex = 1
      <4>1. current.name \in AllNames
        BY Issues, Now
      <4>2. PICK l : l = Len(info.ops)
        OBVIOUS
      <4>3. \/ current.name \in MulHs /\ l = 3
            \/ l = 0
            \/ l = 1
            \/ l = 2
        BY <4>1, <4>2, LengthOf DEF info
      <4>4. macroOpIndex + 1 < l /\ macroOpIndex \in Nat /\ macroOpIndex # 0
        BY <1>4, <2>1, <2>4, <4>2
      <4>5. QED
        BY <4>3, <4>4
    <3>2. buffer = buffer3310 /\ bufferIndex = 1
      BY <1>3, <3>1 DEF Placed
    <3>3. Going(current.name, 2, mop')
      <4>1. PICK k \in Nat : k = 2
        OBVIOUS
      <4>2. PICK n \in AllNames : n = current.name
        BY Issues, Now
      <4>3. k < Len(InfoOf(n).ops)
        BY <2>1, <3>1, <4>1, <4>2 DEF info
      <4>4. Going(n, k, InfoOf(n).ops[k + 1])
        BY <4>3, Steps
      <4>5. mop' = InfoOf(n).ops[k + 1]
        BY <1>2, <3>1, <4>1, <4>2 DEF info, mop
      <4>6. QED
        BY <4>1, <4>2, <4>4, <4>5
    <3>4. mop'.size = 3 /\ mop'.uops = <<>>
      BY <3>1, <3>3 DEF Going, Kind, MulHs
    <3>5. Len(mop'.uops) = 0
      BY <3>4
    <3>6. SlotsLeft' /\ macroOpIndex' = 2
      BY <1>2, <3>1, <3>2, GroupSlots DEF SlotsLeft
    <3>7. Placed'
      BY <1>2, <1>6, <3>1, <3>2, <3>4, <3>5, <3>6, GroupSlots DEF Placed
    <3>8. QED
      BY <1>2, <1>3, <3>6, <3>7 DEF SlotsRight
  <2>5. QED
    BY <2>3, <2>4
<1>7. QED
  BY <1>5, <1>6

\* Every step keeps slots and operations together.
LEMMA SlotsKept ==
    ASSUME TypeInv, TypeInv', SlotsRight, RoomLeft, [GeneratorNext]_generatorVars
    PROVE  SlotsRight'
<1>1. CASE EndOfBuffer
  <2>1. /\ stage' = "fetch" /\ info' = info /\ macroOpIndex' = macroOpIndex /\ portsSaturated' = portsSaturated
        /\ (NeedsNew' <=> NeedsNew)
    BY <1>1 DEF EndOfBuffer, info, NeedsNew
  <2>2. stage = "break" \/ (stage = "slot" /\ ~SlotsLeft) \/ NeedsNew
    BY <1>1 DEF EndOfBuffer
  <2>3. QED
    BY <2>1, <2>2 DEF SlotsRight, Filling, Scheduled
<1>2. CASE Schedule
  <2>1. PICK start \in Nat, c \in Nat \cup {-1} : Filling /\ ScheduledFor(start, c)
    BY <1>2, Schedules
  <2>2. current' = current /\ macroOpIndex' = macroOpIndex /\ buffer' = buffer /\ bufferIndex' = bufferIndex
    BY <2>1 DEF ScheduledFor
  <2>3. buffer \in Groups /\ Placed
    BY <2>1, Now DEF SlotsRight
  <2>4. CASE c = -1
    BY <2>1, <2>2, <2>3, <2>4 DEF ScheduledFor, SlotsRight, Filling, Scheduled
  <2>5. CASE c # -1
    <3>1. stage' = IF NeedsSource THEN "source" ELSE IF NeedsDestination THEN "destination" ELSE "issue"
      BY <2>1, <2>5 DEF ScheduledFor
    <3>2. QED
      BY <2>2, <2>3, <3>1, SamePlace DEF SlotsRight
  <2>6. QED
    BY <2>4, <2>5
<1>3. CASE SelectSource
  <2>1. PICK f \in Nat, r \in Registers : SourcePicked(f, r)
    BY <1>3, PicksSource
  <2>2. /\ stage = "source" /\ stage' = IF NeedsDestination THEN "destination" ELSE "issue"
        /\ current'.name = current.name /\ macroOpIndex' = macroOpIndex
        /\ buffer' = buffer /\ bufferIndex' = bufferIndex
    BY <2>1 DEF SourcePicked
  <2>3. QED
    BY <2>2, SamePlace DEF SlotsRight, Filling, Scheduled
<1>4. CASE SelectDestination
  <2>1. PICK f \in Nat, r \in Registers : DestinationPicked(f, r)
    BY <1>4, PicksDestination
  <2>2. /\ stage = "destination" /\ stage' = "issue"
        /\ current'.name = current.name /\ macroOpIndex' = macroOpIndex
        /\ buffer' = buffer /\ bufferIndex' = bufferIndex
    BY <2>1 DEF DestinationPicked
  <2>3. QED
    BY <2>2, SamePlace DEF SlotsRight, Filling, Scheduled
<1>5. CASE ThrowAway
  <2>1. /\ stage \in {"source", "destination"} /\ buffer' = buffer /\ bufferIndex' = bufferIndex
        /\ stage' = IF GivesUp THEN "break" ELSE "slot"
    BY <1>5 DEF ThrowAway
  <2>2. buffer \in Groups /\ bufferIndex <= Len(buffer)
    BY <2>1 DEF SlotsRight, Filling, Scheduled, Placed, SlotsLeft
  <2>3. NeedsNew'
    <3>1. CASE GivesUp
      <4>1. current'.name = "INVALID"
        BY <1>5, <3>1 DEF ThrowAway, Null, Instruction
      <4>2. Len(info'.ops) = 0
        BY <4>1, Lengths DEF info
      <4>3. QED
        BY <4>2 DEF NeedsNew, TypeInv
    <3>2. CASE ~GivesUp
      BY <1>5, <3>2, InfoTyped DEF ThrowAway, NeedsNew, info
    <3>3. QED
      BY <3>1, <3>2
  <2>4. bufferIndex <= Len(buffer) + 1
    BY <2>2, Places DEF TypeInv
  <2>5. QED
    BY <2>1, <2>2, <2>3, <2>4 DEF SlotsRight, Filling, Scheduled
<1>6. CASE UNCHANGED generatorVars
  BY <1>6, SamePlace DEF generatorVars, SlotsRight, Filling, Scheduled
<1>7. QED
  BY <1>1, <1>2, <1>3, <1>4, <1>5, <1>6, FetchSlots, CreateSlots, IssueSlots DEF GeneratorNext

-----------------------------------------------------------------------------
(* Room for operations.                                                    *)

\* A destination stays one as long as it is ready.
LEMMA DestinationsGrow ==
    ASSUME NEW c, NEW d, NEW r \in Destinations(c), registers[r].latency <= d
    PROVE  r \in Destinations(d)
BY DEF Destinations, Ready

\* A macro-operation that uses ports is not filled in once they are saturated.
LEMMA PortsMeanRoom ==
    ASSUME TypeInv, SlotsRight, RoomLeft, Filling, mop.uops # <<>>
    PROVE  ~portsSaturated
<1>1. Going(current.name, macroOpIndex, mop)
  BY Now
<1>2. macroOpIndex # 2
  BY <1>1 DEF Going, Kind, MulHs
<1>3. QED
  BY <1>2 DEF RoomLeft

\* What one instruction leaves for the next slot is a move.
LEMMA LastIsMove ==
    ASSUME TypeInv, TypeInv', SlotsRight, RoomLeft, Issue, Filling'
    PROVE  macroOpIndex' = 2
<1>1. PICK c \in Nat : IssuedAt(c)
  BY Issues
<1>2. /\ stage' = "slot" /\ bufferIndex' = bufferIndex + 1 /\ macroOpIndex' = macroOpIndex + 1
      /\ buffer' = buffer /\ info' = info
  BY <1>1 DEF IssuedAt, info
<1>3. SlotsLeft' /\ ~NeedsNew'
  BY <1>2 DEF Filling, Scheduled
<1>4. /\ Placed /\ current.name \in AllNames /\ macroOpIndex \in Nat /\ bufferIndex \in Nat
      /\ buffer \in Groups /\ Len(buffer) \in Nat /\ Len(info.ops) \in Nat
  <2>1. Filling /\ macroOpIndex \in Nat /\ bufferIndex \in Nat
    BY Issues DEF TypeInv
  <2>2. Placed /\ current.name \in AllNames /\ buffer \in Groups
    BY <2>1, Now DEF SlotsRight
  <2>3. Len(buffer) \in {3, 4}
    BY <2>2, Places
  <2>4. QED
    BY <2>1, <2>2, <2>3, InfoTyped
<1>5. macroOpIndex + 1 < Len(info.ops) /\ bufferIndex + 1 <= Len(buffer)
  BY <1>2, <1>3, <1>4 DEF NeedsNew, SlotsLeft
<1>6. macroOpIndex # 0
  BY <1>4, <1>5 DEF Placed
<1>7. PICK l : l = Len(info.ops)
  OBVIOUS
<1>8. l = 3 \/ l = 2 \/ l = 1
  BY <1>4, <1>7, LengthOf DEF info, AllNames
<1>9. PICK k \in Nat : k = macroOpIndex
  BY <1>4
<1>10. k + 1 < l /\ k # 0
  BY <1>5, <1>6, <1>7, <1>9
<1>11. k = 1
  BY <1>8, <1>10
<1>12. QED
  BY <1>2, <1>9, <1>11

\* Every step keeps the cycles past the target latency free, until one uses them.
LEMMA RoomKept ==
    ASSUME TypeInv, TypeInv', SlotsRight, SlotsRight', RoomLeft, [GeneratorNext]_generatorVars
    PROVE  RoomLeft'
<1>m. PICK M \in Nat : M = CYCLE_MAP_SIZE - 1 /\ M >= SUPERSCALAR_LATENCY
  BY MapSize, LatencyAssumption
<1>1. CASE Fetch
  <2>1. /\ portBusy' = portBusy /\ registers' = registers /\ portsSaturated' = portsSaturated
        /\ stage' = "slot" => ~portsSaturated
        /\ stage' \in {"slot", "done"}
    BY <1>1 DEF Fetch, plan, Full
  <2>2. QED
    BY <2>1 DEF RoomLeft, Filling, Scheduled
<1>2. CASE EndOfBuffer
  BY <1>2 DEF EndOfBuffer, plan, RoomLeft, Filling, Scheduled
<1>3. ASSUME NEW name \in Names, Create(name)
      PROVE  RoomLeft'
  <2>1. /\ portBusy' = portBusy /\ registers' = registers /\ portsSaturated' = portsSaturated
        /\ ~portsSaturated /\ stage' = "schedule"
    BY <1>3, Created DEF plan, Full
  <2>2. QED
    BY <2>1 DEF RoomLeft, Scheduled
<1>4. CASE Schedule
  <2>1. PICK start \in Nat, c \in Nat \cup {-1} : Filling /\ ScheduledFor(start, c)
    BY <1>4, Schedules
  <2>2. /\ portBusy' = portBusy /\ registers' = registers /\ macroOpIndex' = macroOpIndex /\ mop' = mop
    BY <2>1 DEF ScheduledFor, plan, mop, info
  <2>3. CASE c = -1
    BY <2>1, <2>2, <2>3 DEF ScheduledFor, RoomLeft, Filling, Scheduled
  <2>4. CASE c # -1
    <3>1. scheduleCycle' = c /\ portsSaturated' = portsSaturated
      BY <2>1, <2>4 DEF ScheduledFor
    <3>2. mop.uops # <<>> => c < CYCLE_MAP_SIZE
      BY <2>1, <2>4, MapSize DEF ScheduledFor, FoundFrom
    <3>3. QED
      BY <2>1, <2>2, <3>1, <3>2 DEF RoomLeft
  <2>5. QED
    BY <2>3, <2>4
<1>5. CASE SelectSource
  <2>1. PICK f \in Nat, r \in Registers : SourcePicked(f, r)
    BY <1>5, PicksSource
  <2>2. /\ portBusy' = portBusy /\ registers' = registers /\ portsSaturated' = portsSaturated
        /\ macroOpIndex' = macroOpIndex /\ mop' = mop /\ scheduleCycle' = scheduleCycle + f
        /\ Filling /\ Scheduled
    BY <2>1 DEF SourcePicked, plan, mop, info, Filling, Scheduled
  <2>3. ASSUME mop.uops # <<>> PROVE scheduleCycle + f < CYCLE_MAP_SIZE
    <3>1. ~portsSaturated /\ scheduleCycle <= M
      <4>1. ~portsSaturated
        BY <2>2, <2>3, PortsMeanRoom
      <4>2. scheduleCycle < CYCLE_MAP_SIZE /\ scheduleCycle \in Nat
        BY <2>2, <2>3 DEF RoomLeft, TypeInv
      <4>3. scheduleCycle <= M
        BY <1>m, <4>2, MapSize
      <4>4. QED
        BY <4>1, <4>3
    <3>2. r \in Ready(M)
      <4>1. registers[r].latency \in Nat /\ registers[r].latency < CYCLE_MAP_SIZE
        BY <3>1 DEF RoomLeft, TypeInv
      <4>2. registers[r].latency <= M
        BY <1>m, <4>1, MapSize
      <4>3. QED
        BY <4>2 DEF Ready
    <3>3. Sources(M) # {}
      BY <3>2, SourcesAreReady
    <3>4. scheduleCycle + f <= M
      BY <2>1, <3>1, <3>3 DEF SourcePicked
    <3>5. scheduleCycle \in Nat
      BY DEF TypeInv
    <3>6. QED
      BY <1>m, <3>4, <3>5, MapSize
  <2>4. QED
    BY <2>2, <2>3 DEF RoomLeft
<1>6. CASE SelectDestination
  <2>1. PICK f \in Nat, r \in Registers : DestinationPicked(f, r)
    BY <1>6, PicksDestination
  <2>2. /\ portBusy' = portBusy /\ registers' = registers /\ portsSaturated' = portsSaturated
        /\ macroOpIndex' = macroOpIndex /\ mop' = mop /\ scheduleCycle' = scheduleCycle + f
        /\ Filling /\ Scheduled
    BY <2>1 DEF DestinationPicked, plan, mop, info, Filling, Scheduled
  <2>3. ASSUME mop.uops # <<>> PROVE scheduleCycle + f < CYCLE_MAP_SIZE
    <3>1. ~portsSaturated /\ scheduleCycle <= M
      <4>1. ~portsSaturated
        BY <2>2, <2>3, PortsMeanRoom
      <4>2. scheduleCycle < CYCLE_MAP_SIZE /\ scheduleCycle \in Nat
        BY <2>2, <2>3 DEF RoomLeft, TypeInv
      <4>3. scheduleCycle <= M
        BY <1>m, <4>2, MapSize
      <4>4. QED
        BY <4>1, <4>3
    <3>2. registers[r].latency <= M
      <4>1. registers[r].latency \in Nat /\ registers[r].latency < CYCLE_MAP_SIZE
        BY <3>1 DEF RoomLeft, TypeInv
      <4>2. QED
        BY <1>m, <4>1, MapSize
    <3>3. r \in Destinations(M)
      BY <2>1, <3>2, DestinationsGrow DEF DestinationPicked
    <3>4. scheduleCycle + f <= M
      BY <2>1, <3>1, <3>3 DEF DestinationPicked
    <3>5. scheduleCycle \in Nat
      BY DEF TypeInv
    <3>6. QED
      BY <1>m, <3>4, <3>5, MapSize
  <2>4. QED
    BY <2>2, <2>3 DEF RoomLeft
<1>7. CASE ThrowAway
  <2>1. /\ portBusy' = portBusy /\ registers' = registers /\ portsSaturated' = portsSaturated
        /\ stage' \in {"break", "slot"}
    BY <1>7 DEF ThrowAway, plan
  <2>2. NeedsNew' \/ stage' = "break"
    BY <1>7, InfoTyped DEF ThrowAway, NeedsNew, info
  <2>3. QED
    BY <2>1, <2>2 DEF RoomLeft, Filling, Scheduled
<1>8. CASE Issue
  <2>1. PICK c \in Nat : IssuedAt(c)
    BY <1>8, Issues
  <2>2. mop.latency \in 0 .. 4
    BY <1>8, Issues
  <2>3. ASSUME ~portsSaturated'
        PROVE  /\ \A d \in SUPERSCALAR_LATENCY .. CYCLE_MAP_SIZE - 1 : (portBusy')[d] = {}
               /\ \A r \in Registers : (registers')[r].latency < CYCLE_MAP_SIZE
    <3>1. ~portsSaturated /\ c < SUPERSCALAR_LATENCY
      <4>1. PICK late \in BOOLEAN : late <=> c >= SUPERSCALAR_LATENCY
        OBVIOUS
      <4>2. portsSaturated' = (portsSaturated \/ late)
        BY <2>1, <4>1 DEF IssuedAt
      <4>3. ~portsSaturated /\ ~late
        BY <2>3, <4>2, Zenon
      <4>4. QED
        BY <4>1, <4>3, LatencyAssumption
    <3>2. ASSUME NEW d \in SUPERSCALAR_LATENCY .. CYCLE_MAP_SIZE - 1
          PROVE  (portBusy')[d] = {}
      <4>1. portBusy[d] = {} /\ d # c
        BY <3>1, <3>2, MapSize, LatencyAssumption DEF RoomLeft
      <4>2. PICK x : portBusy' = portBusy \/ portBusy' = [portBusy EXCEPT ![c] = x]
        BY <2>1 DEF IssuedAt, Booked
      <4>3. d \in DOMAIN portBusy
        BY <3>2, LatencyAssumption DEF TypeInv
      <4>4. QED
        BY <4>1, <4>2, <4>3
    <3>3. ASSUME NEW r \in Registers
          PROVE  (registers')[r].latency < CYCLE_MAP_SIZE
      <4>1. registers[r].latency < CYCLE_MAP_SIZE
        BY <3>1 DEF RoomLeft
      <4>2. Result(c).latency < CYCLE_MAP_SIZE
        <5>1. Result(c).latency = c + mop.latency
          BY DEF Result
        <5>2. QED
          BY <2>2, <3>1, <5>1, MapSize, LatencyAssumption
      <4>3. QED
        BY <2>1, <4>1, <4>2 DEF IssuedAt
    <3>4. QED
      BY <3>2, <3>3
  <2>4. Filling' => macroOpIndex' = 2
    BY <1>8, LastIsMove
  <2>5. ~Scheduled'
    BY <2>1 DEF IssuedAt, Scheduled
  <2>6. QED
    BY <2>3, <2>4, <2>5 DEF RoomLeft
<1>9. CASE UNCHANGED generatorVars
  <2>1. Filling' = Filling /\ Scheduled' = Scheduled /\ mop' = mop
    BY <1>9 DEF generatorVars, Filling, Scheduled, SlotsLeft, NeedsNew, info, mop
  <2>2. QED
    BY <1>9, <2>1 DEF generatorVars, RoomLeft
<1>10. QED
  BY <1>1, <1>2, <1>3, <1>4, <1>5, <1>6, <1>7, <1>8, <1>9 DEF GeneratorNext

-----------------------------------------------------------------------------
(* Operands are ready when they are picked.                                *)

\* What Destinations asks of a register besides being ready is the same in every cycle.
LEMMA ReadyLater ==
    ASSUME NEW c \in Nat, NEW d \in Nat, c <= d, TypeInv
    PROVE  Ready(c) \subseteq Ready(d) /\ Destinations(c) \subseteq Destinations(d)
<1>1. \A r \in Registers : registers[r].latency \in Nat
  BY DEF TypeInv
<1>2. Ready(c) \subseteq Ready(d)
  BY <1>1 DEF Ready
<1>3. QED
  BY <1>2 DEF Destinations

\* What readiness depends on.
LEMMA SameReady ==
    ASSUME registers' = registers, NEW c
    PROVE  Ready(c)' = Ready(c)
BY DEF Ready

LEMMA SameDestinations ==
    ASSUME registers' = registers, throwAwayCount' = throwAwayCount, macroOpIndex' = macroOpIndex,
           current'.name = current.name, current'.src = current.src, current'.par = current.par,
           NEW c
    PROVE  Destinations(c)' = Destinations(c)
BY DEF Destinations, Ready, info

LEMMA NotBefore ==
    ASSUME NEW op, NEW start \in Nat, NEW c \in Nat, FoundFrom(op, start, c)
    PROVE  c >= start
BY MapSize DEF FoundFrom

\* Every step keeps picked operands ready.
LEMMA OperandsKept ==
    ASSUME TypeInv, TypeInv', SlotsRight, RoomLeft, Operands, [GeneratorNext]_generatorVars
    PROVE  Operands'
<1> USE DEF TypeInv
<1>1. CASE Fetch
  <2>1. /\ stage' \in {"slot", "done"} /\ topCycle' = topCycle /\ cycle' = cycle /\ current' = current
        /\ info' = info
    BY <1>1 DEF Fetch, info
  <2>2. QED
    BY <2>1 DEF Operands, Scheduled
<1>2. CASE EndOfBuffer
  <2>1. /\ stage' = "fetch" /\ topCycle' = topCycle /\ cycle' = cycle + 1 /\ current' = current
        /\ info' = info
    BY <1>2 DEF EndOfBuffer, info
  <2>2. QED
    BY <2>1 DEF Operands, Scheduled
<1>3. ASSUME NEW name \in Names, Create(name)
      PROVE  Operands'
  <2>1. /\ stage' = "schedule" /\ topCycle' = topCycle /\ cycle' = cycle /\ current'.src = -1
    BY <1>3, Created
  <2>2. QED
    BY <2>1 DEF Operands, Scheduled
<1>4. CASE Schedule
  <2>1. PICK start \in Nat, c \in Nat \cup {-1} : Filling /\ ScheduledFor(start, c)
    BY <1>4, Schedules
  <2>2. current' = current /\ info' = info /\ mop' = mop /\ cycle' = cycle /\ depCycle' = depCycle
        /\ macroOpIndex' = macroOpIndex
    BY <2>1 DEF ScheduledFor, info, mop
  <2>3. CASE c = -1
    BY <2>1, <2>2, <2>3 DEF ScheduledFor, Operands, Scheduled
  <2>4. CASE c # -1
    <3>1. /\ scheduleCycle' = c /\ topCycle' = cycle /\ c >= start /\ c \in Nat
          /\ start >= cycle /\ (mop.dependent => start >= depCycle)
          /\ stage' = IF NeedsSource THEN "source" ELSE IF NeedsDestination THEN "destination" ELSE "issue"
      BY <2>1, <2>4, NotBefore DEF ScheduledFor
    <3>2. scheduleCycle' >= topCycle' /\ (mop'.dependent => scheduleCycle' >= depCycle')
      BY <2>2, <3>1
    <3>3. /\ stage' \in {"destination", "issue"} => ~NeedsSource'
          /\ stage' = "issue" => ~NeedsDestination'
      BY <2>2, <3>1 DEF NeedsSource, NeedsDestination
    <3>4. QED
      BY <2>2, <3>1, <3>2, <3>3 DEF Operands
  <2>5. QED
    BY <2>3, <2>4
<1>5. CASE SelectSource
  <2>1. PICK f \in Nat, r \in Registers : SourcePicked(f, r)
    BY <1>5, PicksSource
  <2>2. /\ registers' = registers /\ scheduleCycle' = scheduleCycle + f /\ cycle' = cycle + f
        /\ topCycle' = topCycle /\ depCycle' = depCycle /\ macroOpIndex' = macroOpIndex
        /\ current'.name = current.name /\ current'.src = r /\ r \in Ready(scheduleCycle + f)
        /\ Scheduled /\ NeedsSource
        /\ stage' = IF NeedsDestination THEN "destination" ELSE "issue"
    BY <2>1, SourcesAreReady DEF SourcePicked, plan, Scheduled, SlotsRight
  <2>3. info' = info /\ mop' = mop /\ (NeedsDestination' <=> NeedsDestination)
    BY <2>2 DEF info, mop, NeedsDestination
  <2>4. info.srcOp # -1
    BY <2>2 DEF NeedsSource
  <2>5. current'.src \in Ready(scheduleCycle)'
    BY <2>2 DEF Ready
  <2>6. QED
    BY <2>2, <2>3, <2>4, <2>5 DEF Operands
<1>6. CASE SelectDestination
  <2>1. PICK f \in Nat, r \in Registers : DestinationPicked(f, r)
    BY <1>6, PicksDestination
  <2>2. /\ registers' = registers /\ scheduleCycle' = scheduleCycle + f /\ cycle' = cycle + f
        /\ topCycle' = topCycle /\ depCycle' = depCycle /\ macroOpIndex' = macroOpIndex
        /\ current'.name = current.name /\ current'.src = current.src /\ current'.dst = r
        /\ current'.par = current.par /\ throwAwayCount' = throwAwayCount
        /\ r \in Destinations(scheduleCycle + f)
        /\ Scheduled /\ stage = "destination" /\ stage' = "issue"
    BY <2>1 DEF DestinationPicked, plan, Scheduled
  <2>3. info' = info /\ mop' = mop /\ (NeedsSource' <=> NeedsSource)
    BY <2>2 DEF info, mop, NeedsSource
  <2>4. current'.dst \in Destinations(scheduleCycle)'
    BY <2>2 DEF Destinations, Ready, info
  <2>5. Ready(scheduleCycle) \subseteq Ready(scheduleCycle + f)
    <3>1. PICK c \in Nat, d \in Nat : c = scheduleCycle /\ d = scheduleCycle + f /\ c <= d
      OBVIOUS
    <3>2. QED
      BY <3>1, ReadyLater
  <2>6. NeedsSource => current'.src \in Ready(scheduleCycle)'
    BY <2>2, <2>5 DEF Operands, Ready
  <2>7. QED
    BY <2>2, <2>3, <2>4, <2>6 DEF Operands
<1>7. CASE ThrowAway
  <2>1. /\ stage' \in {"break", "slot"} /\ topCycle' = topCycle /\ cycle' = cycle + LOOK_FORWARD_CYCLES
        /\ current' = Null \/ current' = current
    BY <1>7 DEF ThrowAway
  <2>2. Null.src = -1
    BY DEF Null, Instruction
  <2>3. topCycle <= cycle + LOOK_FORWARD_CYCLES
    <3>1. topCycle <= cycle /\ topCycle \in Nat /\ cycle \in Nat
      BY DEF Operands
    <3>2. QED
      BY <3>1, LimitsAssumption
  <2>4. current' = current => info' = info
    BY DEF info
  <2>5. QED
    BY <2>1, <2>2, <2>3, <2>4 DEF Operands, Scheduled
<1>8. CASE Issue
  <2>1. /\ stage' = "slot" /\ topCycle' = topCycle /\ cycle' = topCycle /\ current' = current /\ info' = info
    BY <1>8, Issues DEF IssuedAt, info
  <2>2. QED
    BY <2>1 DEF Operands, Scheduled
<1>9. CASE UNCHANGED generatorVars
  <2>1. /\ info' = info /\ mop' = mop /\ (Scheduled' <=> Scheduled) /\ (NeedsSource' <=> NeedsSource)
        /\ (NeedsDestination' <=> NeedsDestination)
        /\ Ready(scheduleCycle)' = Ready(scheduleCycle)
        /\ Destinations(scheduleCycle)' = Destinations(scheduleCycle)
    BY <1>9 DEF generatorVars, plan, info, mop, Scheduled, NeedsSource, NeedsDestination, Ready, Destinations
  <2>2. QED
    BY <1>9, <2>1 DEF generatorVars, Operands
<1>10. QED
  BY <1>1, <1>2, <1>3, <1>4, <1>5, <1>6, <1>7, <1>8, <1>9 DEF GeneratorNext

-----------------------------------------------------------------------------
(* Operations that any port will do for.                                   *)

AnyPort == mop.uops = <<P015>> /\ current.name # "IMUL_RCP"

\* Which operations these are.
LEMMA AnyPortIs ==
    ASSUME TypeInv, SlotsRight, Filling, AnyPort
    PROVE  /\ current.name \in {"ISUB_R", "IXOR_R", "IADD_C", "IXOR_C"}
           /\ macroOpIndex = 0 /\ mop.latency = 1 /\ ~mop.dependent
           /\ info.dstOp = 0 /\ info.resultOp = 0
           /\ current.name \in {"IADD_C", "IXOR_C"} => info.srcOp = -1
           /\ current.name \in {"ISUB_R", "IXOR_R"} => info.srcOp = 0
           /\ info.group \notin MulHs \cup {"IMUL_R"}
<1>1. Going(current.name, macroOpIndex, mop) /\ current.name \in AllNames
  BY Now
<1>2. P015 # P01 /\ P015 # P05 /\ P015 # {"P1"}
  BY DEF P015, P01, P05
<1>3. \A x : <<x>> # << >> /\ <<x>>[1] = x
  OBVIOUS
<1>4. \A x, y, z : <<x>> # <<y, z>>
  OBVIOUS
<1>5. \A x, y : <<x>> = <<y>> => x = y
  BY <1>3
<1>6. /\ <<P015>> # <<P01>> /\ <<P015>> # <<P05>> /\ <<P015>> # <<{"P1"}>>
      /\ <<P015>> # << >> /\ <<P015>> # <<{"P1"}, {"P5"}>>
  BY <1>2, <1>3, <1>4, <1>5, Zenon
<1>7. /\ current.name \in {"ISUB_R", "IXOR_R", "IADD_C", "IXOR_C"}
      /\ macroOpIndex = 0 /\ mop.latency = 1 /\ ~mop.dependent
  BY <1>1, <1>6 DEF AnyPort, Going, Kind
<1>8. current.name \notin MulHs /\ current.name # "IMUL_R"
  BY <1>7 DEF MulHs
<1>9. QED
  BY <1>1, <1>7, <1>8, Catalogue DEF info

\* P5 is as good for them as any other.
LEMMA FitsP5 ==
    ASSUME mop.uops = <<P015>>, NEW c, P5Free(c)
    PROVE  Fits(mop, c)
<1>1. DOMAIN <<P015>> = 1 .. 1 /\ <<P015>>[1] = P015
  OBVIOUS
<1>2. "P5" \in P015 \ portBusy[c]
  BY DEF P015, P5Free
<1>3. QED
  BY <1>1, <1>2 DEF Fits

\* So they take it when it is free.
LEMMA TakesP5 ==
    ASSUME TypeInv, mop.uops = <<P015>>, NEW c \in Cycles, portBusy' = Booked(mop, c)
    PROVE  ~P5Free(c)' /\ \A d \in Cycles : d # c => (P5Free(d)' <=> P5Free(d))
<1>1. DOMAIN <<P015>> = 1 .. 1 /\ <<P015>>[1] = P015 /\ <<P015>> # << >>
  OBVIOUS
<1>2. PICK taken : taken = portBusy[c] \cup {Port(mop.uops[u] \ portBusy[c]) : u \in DOMAIN mop.uops}
  OBVIOUS
<1>3. portBusy' = [portBusy EXCEPT ![c] = taken]
  BY <1>1, <1>2 DEF Booked
<1>4. portBusy \in [Cycles -> SUBSET Ports]
  BY DEF TypeInv, Cycles
<1>5. "P5" \in taken
  <2>1. CASE "P5" \in portBusy[c]
    BY <1>2, <2>1
  <2>2. CASE "P5" \notin portBusy[c]
    <3>1. "P5" \in P015 \ portBusy[c]
      BY <2>2 DEF P015
    <3>2. Port(P015 \ portBusy[c]) = "P5"
      BY <3>1 DEF Port
    <3>3. QED
      BY <1>1, <1>2, <3>2
  <2>3. QED
    BY <2>1, <2>2
<1>6. QED
  BY <1>3, <1>4, <1>5 DEF P5Free

LEMMA SinceCycles ==
    ASSUME TypeInv, NEW c \in Since
    PROVE  c \in Cycles /\ c \in Nat /\ c >= topCycle /\ c < CYCLE_MAP_SIZE
BY MapSize DEF Since, Cycles, TypeInv

\* Every step keeps them from being late.
LEMMA PromptKept ==
    ASSUME TypeInv, TypeInv', SlotsRight, SlotsRight', RoomLeft, Operands, IsPrompt, [GeneratorNext]_generatorVars
    PROVE  IsPrompt'
<1>1. CASE Schedule
  <2>1. PICK start \in Nat, c \in Nat \cup {-1} : Filling /\ ScheduledFor(start, c)
    BY <1>1, Schedules
  <2>2. /\ portBusy' = portBusy /\ mop' = mop /\ info' = info /\ macroOpIndex' = macroOpIndex
        /\ current' = current
    BY <2>1 DEF ScheduledFor, plan, mop, info
  <2>3. CASE c = -1
    BY <2>1, <2>3 DEF ScheduledFor, IsPrompt, Scheduled
  <2>4. CASE c # -1
    <3>1. scheduleCycle' = c /\ topCycle' = cycle
      BY <2>1, <2>4 DEF ScheduledFor
    <3>2. ASSUME AnyPort, NEW d \in Since', P5Free(d)'
          PROVE  scheduleCycle' <= d
      <4>1. ~mop.dependent
        BY <2>1, <3>2, AnyPortIs
      <4>2. start = cycle /\ FoundFrom(mop, start, c)
        BY <2>1, <4>1 DEF ScheduledFor
      <4>3. P5Free(d)
        BY <2>2, <3>2 DEF P5Free
      <4>4. Fits(mop, d)
        BY <3>2, <4>3, FitsP5 DEF AnyPort
      <4>5. mop.uops # << >>
        BY <3>2 DEF AnyPort
      <4>6. d \in start .. CYCLE_MAP_SIZE - 1
        BY <3>1, <3>2, <4>2 DEF Since
      <4>7. QED
        BY <2>4, <3>1, <4>2, <4>4, <4>5, <4>6 DEF FoundFrom
    <3>3. QED
      BY <2>2, <3>2 DEF IsPrompt, AnyPort
  <2>5. QED
    BY <2>3, <2>4
<1>2. CASE SelectSource
  <2>1. PICK f \in Nat, r \in Registers : SourcePicked(f, r)
    BY <1>2, PicksSource
  <2>2. /\ portBusy' = portBusy /\ registers' = registers /\ scheduleCycle' = scheduleCycle + f
        /\ topCycle' = topCycle /\ current'.name = current.name /\ mop' = mop
        /\ Scheduled /\ stage = "source" /\ stage' \in {"destination", "issue"}
    BY <2>1 DEF SourcePicked, plan, Scheduled, mop, info
  <2>3. ASSUME AnyPort, NEW d \in Since', P5Free(d)', Ready(d)' # {}
        PROVE  scheduleCycle' <= d
    <3>1. d \in Since /\ P5Free(d) /\ Ready(d) # {}
      BY <2>2, <2>3 DEF Since, P5Free, Ready
    <3>2. scheduleCycle <= d
      BY <2>2, <2>3, <3>1 DEF IsPrompt, AnyPort
    <3>3. Sources(d) # {} /\ d \in Nat
      BY <3>1, SourcesAreReady, SinceCycles
    <3>4. QED
      BY <2>1, <2>2, <3>2, <3>3 DEF SourcePicked, TypeInv
  <2>4. \A d : Destinations(d)' # {} => Ready(d)' # {}
    BY DEF Destinations
  <2>5. QED
    BY <2>2, <2>3, <2>4 DEF IsPrompt, AnyPort
<1>3. CASE SelectDestination
  <2>1. PICK f \in Nat, r \in Registers : DestinationPicked(f, r)
    BY <1>3, PicksDestination
  <2>2. /\ portBusy' = portBusy /\ registers' = registers /\ scheduleCycle' = scheduleCycle + f
        /\ topCycle' = topCycle /\ current'.name = current.name /\ mop' = mop
        /\ current'.src = current.src /\ current'.par = current.par
        /\ throwAwayCount' = throwAwayCount /\ macroOpIndex' = macroOpIndex
        /\ Scheduled /\ stage = "destination" /\ stage' = "issue"
    BY <2>1 DEF DestinationPicked, plan, Scheduled, mop, info
  <2>3. ASSUME AnyPort, NEW d \in Since', P5Free(d)', Destinations(d)' # {}
        PROVE  scheduleCycle' <= d
    <3>1. d \in Since /\ P5Free(d) /\ Destinations(d) # {}
      BY <2>2, <2>3, SameDestinations DEF Since, P5Free
    <3>2. Ready(d) # {}
      BY <3>1 DEF Destinations
    <3>3. scheduleCycle <= d
      BY <2>2, <2>3, <3>1, <3>2 DEF IsPrompt, AnyPort
    <3>4. d \in Nat
      BY <3>1, SinceCycles
    <3>5. QED
      BY <2>1, <2>2, <3>1, <3>3, <3>4 DEF DestinationPicked, TypeInv
  <2>4. QED
    BY <2>2, <2>3 DEF IsPrompt, AnyPort
<1>4. CASE Fetch \/ EndOfBuffer \/ (\E name \in Names : Create(name)) \/ ThrowAway \/ Issue
  <2>1. ~Scheduled'
    BY <1>4 DEF Fetch, EndOfBuffer, Create, ThrowAway, Issue, Scheduled
  <2>2. QED
    BY <2>1 DEF IsPrompt
<1>5. CASE UNCHANGED generatorVars
  <2>1. /\ mop' = mop /\ (Scheduled' <=> Scheduled) /\ Since' = Since
        /\ \A c : P5Free(c)' = P5Free(c) /\ Ready(c)' = Ready(c) /\ Destinations(c)' = Destinations(c)
    BY <1>5 DEF generatorVars, plan, mop, info, Scheduled, Since, P5Free, Ready, Destinations
  <2>2. QED
    BY <1>5, <2>1 DEF generatorVars, IsPrompt
<1>6. QED
  BY <1>1, <1>2, <1>3, <1>4, <1>5 DEF GeneratorNext

-----------------------------------------------------------------------------
(* What is left for the destination of a high multiplication.              *)

Fresh == {buffer7333, buffer3733, buffer493}

\* In the groups a high multiplication may begin in only slots of 3 bytes follow the constant's.
LEMMA FreshSlots ==
    ASSUME NEW g \in Fresh, NEW b \in 1 .. Len(g), buffer = g
    PROVE  /\ g \in Groups /\ ConstantSlot \in {1, 2} /\ Len(g) > ConstantSlot
           /\ g # buffer3310
           /\ b = ConstantSlot => g[b] \in {7, 9}
           /\ b > ConstantSlot => g[b] = 3
<1>1. \A k \in 1 .. 3 : k = 1 \/ k = 2 \/ k = 3
  OBVIOUS
<1>2. \A k \in 1 .. 4 : k = 1 \/ k = 2 \/ k = 3 \/ k = 4
  OBVIOUS
<1>3. CASE g = buffer7333
  <2>1. ConstantSlot = 1
    BY <1>3 DEF ConstantSlot
  <2>2. QED
    BY <1>2, <1>3, <2>1, GroupSlots DEF Groups
<1>4. CASE g = buffer3733
  <2>1. ConstantSlot = 2
    BY <1>4, GroupSlots DEF ConstantSlot
  <2>2. QED
    BY <1>2, <1>4, <2>1, GroupSlots DEF Groups
<1>5. CASE g = buffer493
  <2>1. ConstantSlot = 2
    BY <1>5, GroupSlots DEF ConstantSlot
  <2>2. QED
    BY <1>1, <1>5, <2>1, GroupSlots DEF Groups
<1>6. QED
  BY <1>3, <1>4, <1>5 DEF Fresh

\* A cycle in which P5 is free and a register ready has one ready that is no high product.
HasSpare(c) == P5Free(c) /\ Ready(c) # {} => \E r \in Ready(c) : ~OfMulH(r)

\* What is filled in by then, from its slot on, either takes P5 when it can or uses no port.
LEMMA InFresh ==
    ASSUME TypeInv, SlotsRight, Filling, buffer \in Fresh, bufferIndex >= ConstantSlot
    PROVE  \/ /\ AnyPort
              /\ bufferIndex = ConstantSlot => current.name \in {"IADD_C", "IXOR_C"}
           \/ current.name \in MulHs /\ macroOpIndex = 0 /\ bufferIndex > ConstantSlot
<1>1. /\ Going(current.name, macroOpIndex, mop) /\ current.name \in AllNames /\ Placed
      /\ buffer \in Groups /\ bufferIndex \in 1 .. Len(buffer)
  BY Now DEF SlotsRight
<1>g. PICK g \in Fresh : g = buffer
  OBVIOUS
<1>b. PICK b \in 1 .. Len(g) : b = bufferIndex
  BY <1>1, <1>g
<1>2. g = buffer /\ b = bufferIndex
  BY <1>g, <1>b
<1>3. /\ ConstantSlot \in {1, 2} /\ g # buffer3310
      /\ b = ConstantSlot => g[b] \in {7, 9}
      /\ b > ConstantSlot => g[b] = 3
  BY <1>2, FreshSlots
<1>4. g[b] \in mop.size .. mop.size + 2
  BY <1>1, <1>2 DEF Placed
<1>5. mop.size \in {3, 4, 7, 10}
  BY <1>1 DEF Going, Kind
<1>6. b = ConstantSlot \/ b > ConstantSlot
  BY <1>2, <1>3
<1>7. CASE b = ConstantSlot
  <2>1. mop.size = 7
    BY <1>3, <1>4, <1>5, <1>7
  <2>2. current.name \in {"IADD_C", "IXOR_C"} /\ mop.uops = <<P015>>
    BY <1>1, <2>1 DEF Going, Kind
  <2>3. QED
    BY <2>2 DEF AnyPort
<1>8. CASE b > ConstantSlot
  <2>1. mop.size = 3
    BY <1>3, <1>4, <1>5, <1>8
  <2>2. \/ current.name \in {"ISUB_R", "IXOR_R"} /\ mop.uops = <<P015>>
        \/ current.name \in MulHs
    BY <1>1, <2>1 DEF Going, Kind
  <2>3. current.name \in MulHs => macroOpIndex = 0
    BY <1>1, <1>2, <1>3 DEF Placed
  <2>4. QED
    BY <1>2, <1>3, <1>8, <2>2, <2>3 DEF AnyPort
<1>9. QED
  BY <1>6, <1>7, <1>8

\* A register that is no high product does as the destination of one, and the other way round.
LEMMA Suits ==
    ASSUME NEW c, NEW r \in Ready(c), current.name \in AllNames,
           canReuse(current.name) \/ r # current.src,
           current.name \notin {"IMUL_R", "IADD_RS"},
           OfMulH(r) <=> current.name \notin MulHs
    PROVE  r \in Destinations(c)
<1>1. info.group # "IMUL_R" /\ (info.group \in MulHs <=> current.name \in MulHs)
  BY Catalogue DEF info
<1>2. registers[r].lastOpGroup # info.group
  BY <1>1 DEF OfMulH
<1>3. QED
  BY <1>1, <1>2 DEF Destinations

\* The step from the constant's slot on.
LEMMA SpareIssued ==
    ASSUME TypeInv, SlotsRight, RoomLeft, Operands, IsPrompt, Spare,
           NEW c \in Nat, IssuedAt(c), Filling, AnyPort,
           buffer \in Fresh, bufferIndex >= ConstantSlot,
           bufferIndex = ConstantSlot => current.name \in {"IADD_C", "IXOR_C"},
           NEW e \in Since, P5Free(e)', Ready(e)' # {}
    PROVE  \E r \in Ready(e)' : ~OfMulH(r)'
<1>1. /\ current.name \in {"ISUB_R", "IXOR_R", "IADD_C", "IXOR_C"}
      /\ macroOpIndex = 0 /\ mop.latency = 1 /\ mop.uops = <<P015>>
      /\ info.dstOp = 0 /\ info.resultOp = 0
      /\ current.name \in {"IADD_C", "IXOR_C"} => info.srcOp = -1
      /\ info.group \notin MulHs
  BY AnyPortIs DEF AnyPort
<1>2. /\ stage = "issue" /\ Scheduled /\ FoundFrom(mop, scheduleCycle, c)
      /\ portBusy' = Booked(mop, c)
      /\ registers' = [r \in Registers |->
             IF macroOpIndex = info.resultOp /\ r = current.dst THEN Result(c) ELSE registers[r]]
  BY DEF IssuedAt, Scheduled
<1>3. <<P015>> # << >>
  OBVIOUS
<1>4. /\ c \in scheduleCycle .. CYCLE_MAP_SIZE - 1
      /\ \A d \in scheduleCycle .. CYCLE_MAP_SIZE - 1 : Fits(mop, d) => c <= d
  BY <1>1, <1>2, <1>3, MapSize DEF FoundFrom, TypeInv
<1>5. PICK D : D = current.dst
  OBVIOUS
<1>6. D \in Destinations(scheduleCycle) /\ D \in Registers
  BY <1>1, <1>2, <1>5 DEF Operands, NeedsDestination, Destinations, Ready
<1>7. /\ (registers')[D].latency = c + 1 /\ (registers')[D].lastOpGroup = info.group
      /\ \A r \in Registers \ {D} : (registers')[r] = registers[r]
  BY <1>1, <1>2, <1>5, <1>6 DEF Result
<1>8. ~OfMulH(D)'
  BY <1>1, <1>7 DEF OfMulH
<1>9. c \in Cycles /\ c \in Nat /\ e \in Cycles /\ e \in Nat
  BY <1>4, MapSize, SinceCycles DEF Cycles, TypeInv
<1>10. ~P5Free(c)' /\ \A d \in Cycles : d # c => (P5Free(d)' <=> P5Free(d))
  BY <1>1, <1>2, <1>9, TakesP5
<1>11. CASE e > c
  <2>1. D \in Ready(e)'
    BY <1>6, <1>7, <1>9, <1>11 DEF Ready
  <2>2. QED
    BY <1>8, <2>1
<1>12. CASE e = c
  BY <1>10, <1>12
<1>13. CASE e < c
  <2>1. P5Free(e)
    BY <1>9, <1>10, <1>13
  <2>2. Fits(mop, e)
    BY <1>1, <2>1, FitsP5
  <2>3. e < scheduleCycle
    <3>1. e \notin scheduleCycle .. CYCLE_MAP_SIZE - 1
      BY <1>4, <1>9, <1>13, <2>2
    <3>2. QED
      BY <1>9, <3>1, MapSize DEF Cycles, TypeInv
  <2>4. Destinations(e) = {}
    <3>1. Destinations(e) # {} => scheduleCycle <= e
      BY <1>2, <2>1 DEF IsPrompt, AnyPort
    <3>2. QED
      BY <1>9, <2>3, <3>1 DEF TypeInv
  <2>5. \A r \in Ready(e)' : r \in Ready(e) /\ r # D
    BY <1>6, <1>7, <1>9, <1>13 DEF Ready
  <2>6. \A r \in Ready(e) : r # D => r \in Ready(e)' /\ (OfMulH(r)' <=> OfMulH(r))
    BY <1>7 DEF Ready, OfMulH
  <2>7. D \notin Ready(e)
    BY <1>6, <2>4 DEF Destinations
  <2>8. PICK s \in Ready(e) : s # D
    BY <2>5
  <2>9. CASE bufferIndex = ConstantSlot
    <3>1. current.name \in {"IADD_C", "IXOR_C"} /\ current.src = -1
      BY <1>1, <2>9 DEF Operands
    <3>2. s \in Registers /\ s # current.src
      BY <3>1, RegistersAssumption DEF Ready
    <3>3. ~OfMulH(s)
      <4>1. current.name \in AllNames /\ current.name \notin {"IMUL_R", "IADD_RS"} /\ current.name \notin MulHs
        BY <3>1 DEF AllNames, MulHs
      <4>2. QED
        BY <2>4, <3>2, <4>1, Suits
    <3>4. QED
      BY <2>6, <2>8, <3>3
  <2>10. CASE bufferIndex # ConstantSlot
    <3>1. ConstantSlot \in {1, 2}
      BY DEF ConstantSlot
    <3>2. bufferIndex > ConstantSlot
      BY <2>10, <3>1 DEF TypeInv
    <3>3. PICK t \in Ready(e) : ~OfMulH(t)
      BY <1>2, <2>1, <2>8, <3>2 DEF Spare, Fresh
    <3>4. QED
      BY <2>6, <2>7, <3>3
  <2>11. QED
    BY <2>9, <2>10
<1>14. QED
  BY <1>9, <1>11, <1>12, <1>13

\* Every step leaves such a register.
LEMMA SpareKept ==
    ASSUME TypeInv, TypeInv', SlotsRight, SlotsRight', RoomLeft, Operands, IsPrompt, Spare, [GeneratorNext]_generatorVars
    PROVE  Spare'
<1>o. \A c \in Since : c \in Nat /\ c >= topCycle
  BY SinceCycles
<1>c. ConstantSlot \in {1, 2} /\ ConstantSlot' \in {1, 2}
  BY DEF ConstantSlot
<1>1. CASE Fetch
  <2>1. bufferIndex' = 1 \/ stage' = "done"
    BY <1>1 DEF Fetch
  <2>2. QED
    BY <1>c, <2>1 DEF Spare, Scheduled
<1>2. CASE EndOfBuffer
  <2>1. stage' = "fetch"
    BY <1>2 DEF EndOfBuffer
  <2>2. QED
    BY <2>1 DEF Spare, Scheduled
<1>3. ASSUME buffer' = buffer, bufferIndex' = bufferIndex, portBusy' = portBusy, registers' = registers,
             topCycle' \in Nat, topCycle' >= topCycle,
             stage' \in {"slot", "schedule"} \/ Scheduled' => stage \in {"slot", "schedule"} \/ Scheduled
      PROVE  Spare'
  <2>1. ConstantSlot' = ConstantSlot /\ Since' \subseteq Since
    BY <1>3 DEF ConstantSlot, Since, TypeInv
  <2>2. \A c : /\ P5Free(c)' = P5Free(c) /\ Ready(c)' = Ready(c)
               /\ \A r : OfMulH(r)' = OfMulH(r)
    BY <1>3 DEF P5Free, Ready, OfMulH
  <2>3. QED
    BY <1>3, <2>1, <2>2 DEF Spare
<1>4. ASSUME NEW name \in Names, Create(name)
      PROVE  Spare'
  <2>1. /\ buffer' = buffer /\ bufferIndex' = bufferIndex /\ portBusy' = portBusy
        /\ registers' = registers /\ topCycle' = topCycle /\ stage = "slot"
    BY <1>4, Created DEF plan
  <2>2. QED
    BY <1>3, <2>1 DEF TypeInv
<1>5. CASE Schedule
  <2>1. PICK start \in Nat, c \in Nat \cup {-1} : Filling /\ ScheduledFor(start, c)
    BY <1>5, Schedules
  <2>2. /\ buffer' = buffer /\ bufferIndex' = bufferIndex /\ portBusy' = portBusy
        /\ registers' = registers /\ (topCycle' = topCycle \/ topCycle' = cycle)
    BY <2>1 DEF ScheduledFor, plan
  <2>3. topCycle' >= topCycle
    BY <2>2 DEF Operands, TypeInv
  <2>4. stage \in {"slot", "schedule"} \/ Scheduled
    BY <2>1 DEF Filling
  <2>5. QED
    BY <1>3, <2>2, <2>3, <2>4 DEF TypeInv
<1>6. CASE SelectSource \/ SelectDestination \/ ThrowAway
  <2>1. /\ buffer' = buffer /\ bufferIndex' = bufferIndex /\ portBusy' = portBusy
        /\ registers' = registers /\ topCycle' = topCycle /\ Scheduled
    BY <1>6 DEF SelectSource, SelectDestination, ThrowAway, plan, Scheduled
  <2>2. QED
    BY <1>3, <2>1 DEF TypeInv
<1>7. CASE Issue
  <2>1. PICK c \in Nat : IssuedAt(c)
    BY <1>7, Issues
  <2>2. /\ buffer' = buffer /\ bufferIndex' = bufferIndex + 1 /\ topCycle' = topCycle
        /\ Filling /\ Scheduled
    BY <1>7, <2>1, Issues DEF IssuedAt
  <2>3. Since' = Since /\ ConstantSlot' = ConstantSlot
    BY <2>2 DEF Since, ConstantSlot
  <2>4. ASSUME buffer \in Fresh, bufferIndex + 1 > ConstantSlot,
               NEW e \in Since, P5Free(e)', Ready(e)' # {}
        PROVE  \E r \in Ready(e)' : ~OfMulH(r)'
    <3>1. bufferIndex >= ConstantSlot
      BY <1>c, <2>4 DEF TypeInv
    <3>2. CASE AnyPort /\ (bufferIndex = ConstantSlot => current.name \in {"IADD_C", "IXOR_C"})
      BY <2>1, <2>2, <2>4, <3>1, <3>2, SpareIssued
    <3>3. CASE current.name \in MulHs /\ macroOpIndex = 0 /\ bufferIndex > ConstantSlot
      <4>1. info.resultOp = 1
        BY <3>3, Catalogue DEF info
      <4>2. Going(current.name, macroOpIndex, mop)
        BY <2>2, Now
      <4>3. mop.uops = << >>
        BY <3>3, <4>2 DEF Going, Kind, MulHs
      <4>4. portBusy' = portBusy /\ \A r \in Registers : (registers')[r] = registers[r]
        BY <2>1, <3>3, <4>1, <4>3 DEF IssuedAt, Booked
      <4>5. /\ P5Free(e)' = P5Free(e) /\ Ready(e)' = Ready(e)
            /\ \A r \in Ready(e) : OfMulH(r)' = OfMulH(r)
        BY <4>4 DEF P5Free, Ready, OfMulH
      <4>6. \E r \in Ready(e) : ~OfMulH(r)
        BY <2>2, <2>4, <3>3, <4>5 DEF Spare, Fresh
      <4>7. QED
        BY <4>5, <4>6
    <3>4. QED
      BY <2>2, <2>4, <3>1, <3>2, <3>3, InFresh
  <2>5. QED
    BY <2>2, <2>3, <2>4 DEF Spare, Fresh
<1>8. CASE UNCHANGED generatorVars
  <2>1. /\ buffer' = buffer /\ bufferIndex' = bufferIndex /\ portBusy' = portBusy
        /\ registers' = registers /\ topCycle' = topCycle /\ stage' = stage
    BY <1>8 DEF generatorVars, plan
  <2>2. QED
    BY <1>3, <2>1 DEF TypeInv, Scheduled
<1>9. QED
  BY <1>1, <1>2, <1>4, <1>5, <1>6, <1>7, <1>8 DEF GeneratorNext

\* The destination of a high multiplication is chosen no later than it can be used.
LEMMA OnTimeKept ==
    ASSUME TypeInv, TypeInv', SlotsRight, SlotsRight', RoomLeft, Operands, Spare, DestinationOnTime,
           [GeneratorNext]_generatorVars
    PROVE  DestinationOnTime'
<1>1. ASSUME current' = current, macroOpIndex' = macroOpIndex, portBusy' = portBusy,
             registers' = registers, topCycle' \in Nat, topCycle' >= topCycle,
             macroOpIndex = 0 => stage' \notin {"destination", "issue"}
      PROVE  DestinationOnTime'
  <2>1. Since' \subseteq Since
    BY <1>1 DEF Since, TypeInv
  <2>2. \A c : P5Free(c)' = P5Free(c) /\ Ready(c)' = Ready(c)
    BY <1>1 DEF P5Free, Ready
  <2>3. QED
    BY <1>1, <2>1, <2>2 DEF DestinationOnTime
<1>2. CASE Fetch \/ EndOfBuffer
  <2>1. /\ current' = current /\ macroOpIndex' = macroOpIndex /\ portBusy' = portBusy
        /\ registers' = registers /\ topCycle' = topCycle /\ stage' \in {"fetch", "slot", "done"}
    BY <1>2 DEF Fetch, EndOfBuffer, plan
  <2>2. QED
    BY <1>1, <2>1 DEF TypeInv
<1>3. ASSUME NEW name \in Names, Create(name)
      PROVE  DestinationOnTime'
  <2>1. macroOpIndex' = 0 /\ stage' = "schedule"
    BY <1>3 DEF Create
  <2>2. QED
    BY <2>1 DEF DestinationOnTime
<1>4. CASE Schedule
  <2>1. PICK start \in Nat, c \in Nat \cup {-1} : Filling /\ ScheduledFor(start, c)
    BY <1>4, Schedules
  <2>2. /\ current' = current /\ macroOpIndex' = macroOpIndex /\ portBusy' = portBusy
        /\ registers' = registers /\ (topCycle' = topCycle \/ topCycle' = cycle)
    BY <2>1 DEF ScheduledFor, plan
  <2>3. topCycle' >= topCycle
    BY <2>2 DEF Operands, TypeInv
  <2>4. CASE current.name \notin MulHs
    BY <2>2, <2>4 DEF DestinationOnTime
  <2>5. CASE macroOpIndex # 0 \/ c = -1
    <3>1. macroOpIndex # 0 \/ stage' = "break"
      BY <2>1, <2>5 DEF ScheduledFor
    <3>2. QED
      BY <1>1, <2>2, <2>3, <3>1 DEF TypeInv
  <2>6. CASE current.name \in MulHs /\ macroOpIndex = 0 /\ c # -1
    <3>1. info.srcOp = 1 /\ info.dstOp = 0 /\ Going(current.name, macroOpIndex, mop)
      BY <2>1, <2>6, Catalogue, Now DEF info
    <3>2. mop.uops = << >> /\ ~mop.dependent
      BY <2>6, <3>1 DEF Going, Kind, MulHs
    <3>3. /\ stage' = IF NeedsSource THEN "source" ELSE IF NeedsDestination THEN "destination" ELSE "issue"
          /\ scheduleCycle' = c /\ topCycle' = cycle /\ c = cycle
      BY <2>1, <2>6, <3>2 DEF ScheduledFor, FoundFrom
    <3>4. stage' = "destination"
      BY <2>6, <3>1, <3>3 DEF NeedsSource, NeedsDestination
    <3>5. QED
      BY <2>2, <2>6, <3>3, <3>4 DEF DestinationOnTime
  <2>7. QED
    BY <2>4, <2>5, <2>6
<1>5. CASE SelectSource
  <2>1. PICK f \in Nat, r \in Registers : SourcePicked(f, r)
    BY <1>5, PicksSource
  <2>2. /\ current'.name = current.name /\ current'.dst = current.dst /\ macroOpIndex' = macroOpIndex
        /\ portBusy' = portBusy /\ registers' = registers /\ topCycle' = topCycle
        /\ stage = "source" /\ NeedsSource
    BY <2>1 DEF SourcePicked, plan, SlotsRight
  <2>3. current.name \in MulHs => macroOpIndex = 1
    BY <2>2, Catalogue DEF NeedsSource, info
  <2>4. Since' = Since /\ \A c : P5Free(c)' = P5Free(c) /\ Ready(c)' = Ready(c)
    BY <2>2 DEF Since, P5Free, Ready
  <2>5. QED
    BY <2>2, <2>3, <2>4 DEF DestinationOnTime
<1>6. CASE SelectDestination
  <2>1. PICK f \in Nat, r \in Registers : DestinationPicked(f, r)
    BY <1>6, PicksDestination
  <2>2. /\ current'.name = current.name /\ macroOpIndex' = macroOpIndex /\ portBusy' = portBusy
        /\ registers' = registers /\ topCycle' = topCycle /\ scheduleCycle' = scheduleCycle + f
        /\ stage = "destination" /\ stage' = "issue" /\ NeedsDestination /\ Filling /\ Scheduled
    BY <2>1 DEF DestinationPicked, plan, SlotsRight, Filling, Scheduled
  <2>3. CASE current.name \notin MulHs
    BY <2>2, <2>3 DEF DestinationOnTime
  <2>4. CASE current.name \in MulHs
    <3>1. macroOpIndex = 0 /\ current.name \in AllNames
      BY <2>2, <2>4, Now, Catalogue DEF NeedsDestination, info
    <3>2. scheduleCycle = topCycle
      BY <2>2, <2>4, <3>1 DEF DestinationOnTime
    <3>3. /\ Placed /\ Len(info.ops) = 3
      BY <2>2, <2>4, Lengths DEF SlotsRight, info
    <3>4. buffer \in Fresh /\ bufferIndex = Len(buffer)
      BY <2>4, <3>1, <3>3 DEF Placed, Fresh
    <3>5. PICK g \in Fresh : g = buffer
      BY <3>4
    <3>6. Len(g) \in 1 .. Len(g)
      <4>1. g \in Groups
        BY <3>5 DEF Fresh, Groups
      <4>2. Len(g) \in {3, 4}
        BY <4>1, Places
      <4>3. QED
        BY <4>2
    <3>7. bufferIndex > ConstantSlot
      BY <3>4, <3>5, <3>6, FreshSlots
    <3>8. ASSUME NEW c \in Since, P5Free(c), Ready(c) # {}
          PROVE  scheduleCycle + f <= c
      <4>1. PICK s \in Ready(c) : ~OfMulH(s)
        BY <2>2, <3>4, <3>7, <3>8 DEF Spare, Fresh
      <4>2. canReuse(current.name) /\ current.name \notin {"IMUL_R", "IADD_RS"}
        BY <2>4 DEF canReuse, MulHs
      <4>3. s \in Destinations(c)
        BY <2>4, <3>1, <4>1, <4>2, Suits
      <4>4. c \in Nat /\ c >= topCycle
        BY SinceCycles
      <4>5. QED
        BY <2>1, <3>2, <4>3, <4>4 DEF DestinationPicked
    <3>9. \A c : P5Free(c)' = P5Free(c) /\ Ready(c)' = Ready(c)
      BY <2>2 DEF P5Free, Ready
    <3>10. Since' = Since
      BY <2>2 DEF Since
    <3>11. QED
      BY <2>2, <3>1, <3>8, <3>9, <3>10 DEF DestinationOnTime
  <2>5. QED
    BY <2>3, <2>4
<1>7. CASE ThrowAway
  <2>1. CASE GivesUp
    <3>1. current'.name = "INVALID"
      BY <1>7, <2>1 DEF ThrowAway, Null, Instruction
    <3>2. QED
      BY <3>1 DEF DestinationOnTime, MulHs
  <2>2. CASE ~GivesUp
    <3>1. current' = current /\ macroOpIndex' = Len(info.ops)
      BY <1>7, <2>2 DEF ThrowAway
    <3>2. current.name \in MulHs => Len(info.ops) = 3
      BY Lengths DEF info
    <3>3. current.name \in MulHs => macroOpIndex' # 0 /\ macroOpIndex' # 1
      BY <3>1, <3>2
    <3>4. QED
      BY <3>1, <3>3 DEF DestinationOnTime
  <2>3. QED
    BY <2>1, <2>2
<1>8. CASE Issue
  <2>1. PICK c \in Nat : IssuedAt(c)
    BY <1>8, Issues
  <2>2. /\ current' = current /\ macroOpIndex' = macroOpIndex + 1 /\ topCycle' = topCycle
        /\ stage = "issue" /\ Filling /\ Scheduled
    BY <1>8, <2>1, Issues DEF IssuedAt
  <2>3. ASSUME current.name \in MulHs, macroOpIndex = 0, NEW d \in Since, P5Free(d)', Ready(d)' # {}
        PROVE  current.dst \in Ready(d)'
    <3>1. info.resultOp = 1 /\ info.dstOp = 0 /\ Going(current.name, macroOpIndex, mop)
      BY <2>2, <2>3, Catalogue, Now DEF info
    <3>2. mop.uops = << >>
      BY <2>3, <3>1 DEF Going, Kind, MulHs
    <3>3. portBusy' = portBusy /\ \A r \in Registers : (registers')[r] = registers[r]
      BY <2>1, <2>3, <3>1, <3>2 DEF IssuedAt, Booked
    <3>4. P5Free(d)' = P5Free(d) /\ Ready(d)' = Ready(d)
      BY <3>3 DEF P5Free, Ready
    <3>5. scheduleCycle <= d
      BY <2>2, <2>3, <3>4 DEF DestinationOnTime
    <3>6. current.dst \in Ready(scheduleCycle)
      BY <2>2, <2>3, <3>1, DestinationsAreReady DEF Operands, NeedsDestination
    <3>7. PICK from \in Nat : from = scheduleCycle
      BY DEF TypeInv
    <3>8. Ready(from) \subseteq Ready(d)
      BY <3>5, <3>7, SinceCycles, ReadyLater
    <3>9. QED
      BY <3>4, <3>6, <3>7, <3>8
  <2>4. macroOpIndex' = 1 => macroOpIndex = 0
    BY <2>2 DEF TypeInv
  <2>5. macroOpIndex' # 0
    BY <2>2 DEF TypeInv
  <2>6. Since' = Since
    BY <2>2 DEF Since
  <2>7. QED
    BY <2>2, <2>3, <2>4, <2>5, <2>6 DEF DestinationOnTime
<1>9. CASE UNCHANGED generatorVars
  <2>1. /\ Since' = Since
        /\ \A c : P5Free(c)' = P5Free(c) /\ Ready(c)' = Ready(c)
    BY <1>9 DEF generatorVars, plan, Since, P5Free, Ready
  <2>2. QED
    BY <1>9, <2>1 DEF generatorVars, DestinationOnTime
<1>10. QED
  BY <1>2, <1>3, <1>4, <1>5, <1>6, <1>7, <1>8, <1>9 DEF GeneratorNext

-----------------------------------------------------------------------------
(* The theorems.                                                           *)

\* The invariant holds at first.
LEMMA InitRight == GeneratorInit => GeneratorInv
<1> SUFFICES ASSUME GeneratorInit PROVE GeneratorInv
  OBVIOUS
<1> USE DEF GeneratorInit
<1>1. current.name = "INVALID" /\ current.src = -1
  BY DEF Null, Instruction
<1>2. Len(info.ops) = 0 /\ NeedsNew
  BY <1>1, Lengths DEF info, NeedsNew
<1>3. ~Filling /\ ~Scheduled
  BY DEF Filling, Scheduled
<1>4. TypeInv
  <2>1. current \in [name : DOMAIN Infos \cup {"INVALID"}, src : Registers \cup {-1},
                     dst : Registers \cup {-1}, par : Registers \cup {-1}]
    BY DEF Null, Instruction
  <2>2. portBusy \in [0 .. CYCLE_MAP_SIZE - 1 -> SUBSET Ports]
    OBVIOUS
  <2>3. DOMAIN registers = Registers /\ \A r \in Registers : registers[r].latency \in Nat
    OBVIOUS
  <2>4. /\ stage = "fetch" /\ buffer = <<>> /\ bufferIndex = 1 /\ macroOpIndex = 0 /\ programSize = 0
        /\ cycle = 0 /\ topCycle = 0 /\ scheduleCycle = 0 /\ depCycle = 0
    OBVIOUS
  <2>b. portsSaturated \in BOOLEAN
    BY Zenon
  <2> HIDE DEF GeneratorInit
  <2>5. buffer \in Groups \cup {<<>>} /\ bufferIndex \in Nat \ {0}
    BY <2>4
  <2>6. QED
    BY <2>1, <2>2, <2>3, <2>4, <2>b, <2>5 DEF TypeInv
<1>5. SlotsRight
  BY <1>2, <1>3 DEF SlotsRight
<1>6. SizeRight
  BY <1>2, SizeAssumption DEF SizeRight
<1>7. RoomLeft
  BY <1>3, MapSize, LatencyAssumption DEF RoomLeft
<1>8. Operands
  BY <1>1, <1>3 DEF Operands
<1>9. IsPrompt /\ Spare
  BY <1>3 DEF IsPrompt, Spare
<1>10. DestinationOnTime
  BY <1>1 DEF DestinationOnTime, MulHs
<1>11. QED
  BY <1>4, <1>5, <1>6, <1>7, <1>8, <1>9, <1>10 DEF GeneratorInv

\* And every step keeps it.
LEMMA StepRight == GeneratorInv /\ [GeneratorNext]_generatorVars => GeneratorInv'
<1> SUFFICES ASSUME GeneratorInv, [GeneratorNext]_generatorVars PROVE GeneratorInv'
  OBVIOUS
<1>1. TypeInv /\ SlotsRight /\ SizeRight /\ RoomLeft /\ Operands /\ IsPrompt /\ Spare /\ DestinationOnTime
  BY DEF GeneratorInv
<1>2. TypeInv'
  BY <1>1, TypeKept
<1>3. SlotsRight'
  BY <1>1, <1>2, SlotsKept
<1>4. SizeRight' /\ RoomLeft' /\ Operands'
  BY <1>1, <1>2, <1>3, SizeKept, RoomKept, OperandsKept
<1>5. IsPrompt' /\ Spare' /\ DestinationOnTime'
  BY <1>1, <1>2, <1>3, PromptKept, SpareKept, OnTimeKept
<1>6. QED
  BY <1>2, <1>3, <1>4, <1>5 DEF GeneratorInv

\* FitsSlot: for any registers, latency and limits, whatever is thrown away or given up,
\* every macro-operation of generateSuperscalar fits the slot it is issued in.
THEOREM SlotsFit == GeneratorSpec => []FitsSlot
<1>1. GeneratorInv => FitsSlot
  BY DEF GeneratorInv, FitsSlot, SlotsRight, Filling, Scheduled, Placed
<1>2. QED
  BY InitRight, StepRight, <1>1, PTL DEF GeneratorSpec

\* When an operation takes its ports, its operands are there.
LEMMA ReadyToIssue == GeneratorInv => OperandsReady
<1> SUFFICES ASSUME GeneratorInv, stage = "issue", macroOpIndex = info.resultOp
             PROVE  /\ {current.src, current.dst} \ {-1} \subseteq Ready(IssueCycle)
                    /\ mop.dependent => IssueCycle >= depCycle
  BY DEF OperandsReady
<1>1. /\ TypeInv /\ SlotsRight /\ RoomLeft /\ Operands /\ DestinationOnTime /\ Filling /\ Scheduled
  BY DEF GeneratorInv, Filling, Scheduled
<1>2. PICK c \in Nat : c = IssueCycle /\ FoundFrom(mop, scheduleCycle, c)
  BY <1>1, RoomToIssue, IssuesAt
<1>3. PICK from \in Nat : from = scheduleCycle /\ c >= from
  BY <1>1, <1>2, NotBefore DEF TypeInv
<1>4. mop.dependent => c >= depCycle
  BY <1>1, <1>3 DEF Operands, TypeInv
<1>5. Ready(from) \subseteq Ready(c)
  BY <1>1, <1>3, ReadyLater
<1>6. current.name \in AllNames /\ Going(current.name, macroOpIndex, mop)
  BY <1>1, Now
<1>7. \/ info.srcOp = -1 \/ NeedsSource
  BY <1>6, Catalogue DEF info, NeedsSource, AllNames, MulHs
<1>8. current.src = -1 \/ current.src \in Ready(from)
  BY <1>1, <1>3, <1>7 DEF Operands
<1>9. CASE current.name \notin MulHs
  <2>1. NeedsDestination
    <3>1. \A n \in AllNames \ MulHs : InfoOf(n).dstOp = InfoOf(n).resultOp
      BY Catalogue DEF AllNames, MulHs
    <3>2. QED
      BY <1>6, <1>9, <3>1 DEF info, NeedsDestination
  <2>2. current.dst \in Ready(from)
    BY <1>1, <1>3, <2>1, DestinationsAreReady DEF Operands
  <2>3. QED
    BY <1>2, <1>4, <1>5, <1>8, <2>2
<1>10. CASE current.name \in MulHs
  <2>1. macroOpIndex = 1 /\ info.srcOp = 1
    BY <1>10, Catalogue DEF info
  <2>2. current.src \in Ready(from)
    BY <1>1, <1>3, <2>1 DEF Operands, NeedsSource
  <2>3. mop.uops = <<{"P1"}, {"P5"}>>
    BY <1>6, <1>10, <2>1 DEF Going, Kind, MulHs
  <2>4. /\ DOMAIN <<{"P1"}, {"P5"}>> = 1 .. 2 /\ <<{"P1"}, {"P5"}>>[2] = {"P5"}
        /\ <<{"P1"}, {"P5"}>> # << >>
    OBVIOUS
  <2>5. /\ c \in scheduleCycle .. CYCLE_MAP_SIZE - 1
        /\ \A u \in DOMAIN mop.uops : mop.uops[u] \ portBusy[c] # {}
    BY <1>2, <2>3, <2>4 DEF FoundFrom, Fits
  <2>6. 2 \in DOMAIN mop.uops /\ mop.uops[2] = {"P5"}
    BY <2>3, <2>4
  <2>7. P5Free(c)
    BY <2>5, <2>6 DEF P5Free
  <2>8. c \in Since
    BY <1>1, <2>5, MapSize DEF Since, Operands, TypeInv
  <2>9. current.dst \in Ready(c)
    BY <1>1, <1>5, <1>10, <2>1, <2>2, <2>7, <2>8 DEF DestinationOnTime
  <2>10. QED
    BY <1>2, <1>4, <1>5, <2>2, <2>9
<1>11. QED
  BY <1>9, <1>10

\* OperandsReady: for the same, an operation's operands are ready in the cycle in which it
\* takes its ports, although the cycle counter is taken back in between.
THEOREM OperandsAreReady == GeneratorSpec => []OperandsReady
BY InitRight, StepRight, ReadyToIssue, PTL DEF GeneratorSpec

\* SizesSuffice: for the same, an instruction that got its operands gets its ports, and the
\* program buffer is not overrun.
THEOREM SizesAreEnough == GeneratorSpec => []SizesSuffice
<1>1. GeneratorInv => SizesSuffice
  <2> SUFFICES ASSUME GeneratorInv PROVE SizesSuffice
    OBVIOUS
  <2>1. stage = "issue" => IssueCycle \in Nat
    BY RoomToIssue DEF GeneratorInv
  <2>2. QED
    BY <2>1 DEF GeneratorInv, SizesSuffice, SizeRight
<1>2. QED
  BY InitRight, StepRight, <1>1, PTL DEF GeneratorSpec
=============================================================================
