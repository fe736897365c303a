--------------------------- MODULE AllocationProofs ---------------------------
(***************************************************************************)
(* That no allocation which fails leaves anything behind, that code is     *)
(* only written and run where it may be unless the system refused a        *)
(* protection, and that no pages which should not be are ever writable and *)
(* executable, for any number of threads, caches, datasets and machines.   *)
(* Every step is one thread's and concerns one object, so the invariant is *)
(* first shown to hold on everywhere else, once for all actions.           *)
(***************************************************************************)
EXTENDS Allocation, TLAPS

\* The step of thread t concerns object o and nothing else.
Concerns(t, o) ==
    /\ platform' = platform
    /\ \A q \in Objects \ {o} :
          /\ flags'[q] = flags[q] /\ held'[q] = held[q] /\ prot'[q] = prot[q]
          /\ q \in Stores => dealloc'[q] = dealloc[q]
          /\ q \in given' <=> q \in given
          /\ q \in ready' <=> q \in ready
          /\ q \in refused' <=> q \in refused
    /\ \A u \in Threads \ {t} : call'[u] = call[u] /\ mode'[u] = mode[u]
    /\ Obj(t) \in {o, None} /\ Obj(t)' \in {o, None}

\* Every other object keeps what holds of it.
LEMMA OtherObjectsKeep ==
    ASSUME NEW t \in Threads, NEW o \in Objects, NEW q \in Objects \ {o},
           Concerns(t, o), ObjectSound(q)
    PROVE  ObjectSound(q)'
<1>1. /\ flags'[q] = flags[q] /\ held'[q] = held[q] /\ prot'[q] = prot[q]
      /\ q \in Stores => dealloc'[q] = dealloc[q]
      /\ q \in given' <=> q \in given
      /\ q \in ready' <=> q \in ready
      /\ q \in refused' <=> q \in refused
      /\ platform' = platform
  BY DEF Concerns
<1>2. q # None
  BY SortsAssumption DEF Objects
<1>3. \A u \in Threads : Obj(u)' = q <=> Obj(u) = q
  BY <1>2 DEF Concerns, Obj
<1>4. \A u \in Threads : Obj(u) = q => call'[u] = call[u]
  BY <1>2 DEF Concerns, Obj
<1>5. \A p \in Parts : FreedBy(q)'[p] = FreedBy(q)[p]
  BY <1>1 DEF FreedBy, StoreFreedBy, VmFreedBy, Allocator
<1>6. Matched(q)'
  BY <1>1, <1>5 DEF ObjectSound, Matched, Allocator
<1>7. Sorted(q)' /\ Closed(q)'
  BY <1>1 DEF ObjectSound, Sorted, Closed
<1>8. Mapped(q)' = Mapped(q)
  BY <1>1 DEF Mapped
<1>9. \A rules : Permitted(q, rules) => Permitted(q, rules)'
  BY <1>1, <1>8 DEF Permitted
<1>10. StaysOpen(q)'
  <2>1. SUFFICES ASSUME (flags[q].jit /\ ~flags[q].secure
                /\ (q \in given \/ \E u \in Threads :
                        Obj(u) = q /\ call[u].at \in {"writing", "generate", "execution", "memory"}))'
                 PROVE  Permitted(q, {"RWX"})'
    BY DEF StaysOpen
  <2>2. q \in given \/ \E u \in Threads :
                Obj(u) = q /\ call[u].at \in {"writing", "generate", "execution", "memory"}
    BY <2>1, <1>1, <1>3, <1>4
  <2>3. Permitted(q, {"RWX"})
    BY <2>1, <2>2, <1>1 DEF ObjectSound, StaysOpen
  <2>4. QED
    BY <2>3, <1>9
<1>11. AtRest(q)'
  <2>1. SUFFICES ASSUME (\A u \in Threads : Obj(u) # q)'
                 PROVE  /\ q \notin given' => held'[q] = NoParts
                        /\ q \in Stores \cap ready' /\ platform' = "pages" => Permitted(q, {"RX"})'
    BY DEF AtRest, NoParts
  <2>2. \A u \in Threads : Obj(u) # q
    BY <2>1, <1>3
  <2>3. QED
    BY <2>2, <1>1, <1>9 DEF ObjectSound, AtRest
<1>12. Complete(q)'
  BY <1>1 DEF ObjectSound, Complete, Has, Needed
<1>13. QED
  BY <1>6, <1>7, <1>10, <1>11, <1>12 DEF ObjectSound

\* So does every thread that is in a call with another object, or in none.
LEMMA OtherThreadsKeep ==
    ASSUME NEW t \in Threads, NEW o \in Objects, NEW u \in Threads \ {t},
           Concerns(t, o), CallSound(u), Obj(u) # o
    PROVE  CallSound(u)'
<1>1. call'[u] = call[u] /\ mode'[u] = mode[u] /\ platform' = platform
  BY DEF Concerns
<1>2. CASE call[u] = Idle
  <2>1. call'[u] = Idle
    BY <1>1, <1>2
  <2>2. QED
    BY <2>1 DEF CallSound, InCall, UsedBy, PartsOfTheCall, MayWriteAndRun, Idle, Allocating
<1>3. CASE call[u] # Idle
  <2>1. PICK q \in Objects : q = call[u].obj
    BY <1>3, SortsAssumption DEF CallSound, InCall, UsedBy, Obj, Objects
  <2>2. q \in Objects \ {o}
    BY <2>1 DEF Obj
  <2>3. /\ flags'[q] = flags[q] /\ held'[q] = held[q] /\ prot'[q] = prot[q]
        /\ q \in given' <=> q \in given
        /\ q \in ready' <=> q \in ready
        /\ q \in refused' <=> q \in refused
    BY <2>2 DEF Concerns
  <2>4. Obj(u) = q /\ Obj(u)' = q
    BY <1>1, <2>1 DEF Obj
  <2>5. InCall(u)'
    BY <1>1, <2>3, <2>4 DEF CallSound, InCall, UsedBy
  <2>6. Has(q)' = Has(q) /\ \A at : SoFar(q, at)' = SoFar(q, at)
    BY <2>3 DEF Has, SoFar, Needed
  <2>7. PartsOfTheCall(u)'
    BY <1>1, <2>3, <2>4, <2>6 DEF CallSound, PartsOfTheCall, NoParts
  <2>8. Mapped(q)' = Mapped(q)
    BY <2>3 DEF Mapped
  <2>9. \A rules : Permitted(q, rules) => Permitted(q, rules)'
    BY <2>3, <2>8 DEF Permitted
  <2>10. MayWriteAndRun(u)'
    BY <1>1, <2>4, <2>9 DEF CallSound, MayWriteAndRun
  <2>11. QED
    BY <2>5, <2>7, <2>10 DEF CallSound
<1>4. QED
  BY <1>2, <1>3

\* Hence a step keeps the invariant if its thread and its object do.
LEMMA StepKeeps ==
    ASSUME AllocationInv, NEW t \in Threads, NEW o \in Objects, Concerns(t, o),
           \A u \in Threads \ {t} : Obj(u) # o,
           TypeOK', CallSound(t)', ObjectSound(o)', FaultsOnlyIfRefused'
    PROVE  AllocationInv'
<1>1. \A q \in Objects : ObjectSound(q)'
  BY OtherObjectsKeep DEF AllocationInv
<1>2. \A u \in Threads : CallSound(u)'
  BY OtherThreadsKeep DEF AllocationInv
<1>3. OneCallEach'
  <2>1. SUFFICES ASSUME NEW u \in Threads, NEW v \in Threads, Obj(u)' = Obj(v)', Obj(u)' # None
                 PROVE  u = v
    BY DEF OneCallEach
  <2>2. \A w \in Threads \ {t} : Obj(w)' = Obj(w) /\ Obj(w)' # o
    BY DEF Concerns, Obj
  <2>3. CASE u = t \/ v = t
    BY <2>1, <2>2, <2>3 DEF Concerns
  <2>4. CASE u # t /\ v # t
    BY <2>1, <2>2, <2>4 DEF AllocationInv, OneCallEach
  <2>5. QED
    BY <2>3, <2>4
<1>4. QED
  BY <1>1, <1>2, <1>3 DEF AllocationInv


-----------------------------------------------------------------------------
(* Calls.                                                                  *)

\* What TypeOK says a call is.
CallRecords ==
    [op: Calls \cup {"none"}, obj: Objects \cup {None}, at: Steps \cup {"return"}, source: BOOLEAN]

\* Entering a call leaves the calls of the other threads, none of which uses the object.
LEMMA EnterDoes ==
    ASSUME AllocationInv, NEW t \in Threads, NEW op \in Calls, NEW o \in Objects,
           NEW step \in Steps, NEW source \in BOOLEAN, Enter(t, op, o, step, source)
    PROVE  /\ fault = None
           /\ call'[t] = [op |-> op, obj |-> o, at |-> step, source |-> source]
           /\ Obj(t) = None /\ Obj(t)' = o
           /\ \A u \in Threads : Obj(u) # o
           /\ \A u \in Threads \ {t} : call'[u] = call[u]
           /\ call' \in [Threads -> CallRecords]
<1>1. call \in [Threads -> CallRecords]
  BY DEF AllocationInv, TypeOK, CallRecords
<1>3. call' = [call EXCEPT ![t] = [op |-> op, obj |-> o, at |-> step, source |-> source]]
  BY DEF Enter
<1>4. call'[t] = [op |-> op, obj |-> o, at |-> step, source |-> source]
      /\ \A u \in Threads \ {t} : call'[u] = call[u]
  BY <1>1, <1>3
<1>5. call' \in [Threads -> CallRecords]
  BY <1>1, <1>3 DEF CallRecords
<1>6. Obj(t) = None /\ Obj(t)' = o
  BY <1>4 DEF Enter, Obj, Idle
<1>7. QED
  BY <1>4, <1>5, <1>6 DEF Enter, Obj

\* Going on to another step leaves the other threads' calls; no other thread uses the object.
LEMMA MoveDoes ==
    ASSUME AllocationInv, NEW t \in Threads, NEW ops, NEW step \in Steps, NEW next \in Steps \cup {"return"},
           At(t, ops, step), Goto(t, next)
    PROVE  /\ fault = None
           /\ Obj(t) \in Objects /\ call[t].op \in ops /\ call[t].at = step
           /\ call[t].op \in Calls
           /\ \A u \in Threads \ {t} : Obj(u) # Obj(t) /\ call'[u] = call[u]
           /\ next = "return" => call'[t] = Idle /\ Obj(t)' = None
           /\ next # "return" => /\ call'[t].op = call[t].op /\ call'[t].at = next
                                 /\ call'[t].source = call[t].source /\ Obj(t)' = Obj(t)
           /\ call' \in [Threads -> CallRecords]
<1>1. call \in [Threads -> CallRecords]
  BY DEF AllocationInv, TypeOK, CallRecords
<1>2. call[t] # Idle
  BY DEF At, Idle, Steps
<1>3. Obj(t) \in Objects /\ call[t].op \in Calls
  BY <1>2 DEF AllocationInv, CallSound, InCall, UsedBy, Objects
<1>4. Obj(t) # None
  BY <1>3, SortsAssumption DEF Objects
<1>5. \A u \in Threads \ {t} : Obj(u) # Obj(t)
  BY <1>4 DEF AllocationInv, OneCallEach
<1> DEFINE c == IF next = "return" THEN Idle ELSE [call[t] EXCEPT !.at = next]
<1>6. call[t] \in CallRecords
  BY <1>1
<1>7. Idle \in CallRecords
  BY DEF Idle, CallRecords
<1>8. c \in CallRecords
  <2>1. [call[t] EXCEPT !.at = next] \in CallRecords
    BY <1>6 DEF CallRecords
  <2>2. QED
    BY <2>1, <1>7
<1>9. call' = [call EXCEPT ![t] = c]
  BY DEF Goto
<1>10. call'[t] = c /\ call' \in [Threads -> CallRecords] /\ \A u \in Threads \ {t} : call'[u] = call[u]
  BY <1>1, <1>8, <1>9
<1>11. next = "return" => call'[t] = Idle /\ Obj(t)' = None
  BY <1>10 DEF Idle, Obj
<1>12. next # "return" => /\ call'[t].op = call[t].op /\ call'[t].at = next
                          /\ call'[t].source = call[t].source /\ Obj(t)' = Obj(t)
  BY <1>10, <1>6 DEF Obj, CallRecords
<1>13. QED
  BY <1>3, <1>5, <1>10, <1>11, <1>12 DEF At

-----------------------------------------------------------------------------
(* The pages of code.                                                      *)

\* A protection reaches all of an object's code, or one of its pages was refused.
LEMMA SetPagesDoes ==
    ASSUME TypeOK, NEW t \in Threads, NEW o \in Objects, NEW rules \in {"RW", "RX", "RWX"},
           SetPages(t, o, rules)
    PROVE  /\ prot' \in [Objects -> [CodeParts -> {"RW", "RX", "RWX", "MAP_JIT", None}]]
           /\ mode' \in [Threads -> {"write", "run"}]
           /\ refused' \subseteq Objects /\ creators' \subseteq Threads
           /\ fault' = fault /\ strayed' = strayed
           /\ \A q \in Objects \ {o} : prot'[q] = prot[q] /\ (q \in refused' <=> q \in refused)
           /\ \A u \in Threads \ {t} : mode'[u] = mode[u]
           /\ \A p \in CodeParts : \/ prot'[o][p] = prot[o][p]
                                   \/ prot'[o][p] = rules /\ p \in Mapped(o)
           /\ platform = "pages" /\ o \notin refused' => \A p \in Mapped(o) : prot'[o][p] = rules
           /\ platform = "threads" => mode'[t] = IF rules = "RW" THEN "write" ELSE "run"
<1> DEFINE R == {"RW", "RX", "RWX", "MAP_JIT", None}
<1>1. prot \in [Objects -> [CodeParts -> R]] /\ mode \in [Threads -> {"write", "run"}]
      /\ refused \subseteq Objects /\ creators \subseteq Threads
  BY DEF TypeOK
<1>2. CASE /\ platform = "threads" /\ rules # "RWX"
           /\ mode' = [mode EXCEPT ![t] = IF rules = "RW" THEN "write" ELSE "run"]
           /\ creators' = IF rules = "RW" THEN creators ELSE creators \ {t}
           /\ UNCHANGED <<prot, refused, strayed, fault>>
  BY <1>1, <1>2
<1>3. ASSUME platform = "pages", NEW kept \in SUBSET Protected(o),
             prot' = [prot EXCEPT ![o] = [p \in CodeParts |->
                            IF p \in Protected(o) \ kept THEN rules ELSE @[p]]],
             refused' = IF kept = {} THEN refused ELSE refused \cup {o},
             UNCHANGED <<mode, creators, strayed, fault>>
      PROVE  /\ prot' \in [Objects -> [CodeParts -> R]]
             /\ refused' \subseteq Objects
             /\ \A q \in Objects \ {o} : prot'[q] = prot[q] /\ (q \in refused' <=> q \in refused)
             /\ \A p \in CodeParts : \/ prot'[o][p] = prot[o][p]
                                     \/ prot'[o][p] = rules /\ p \in Mapped(o)
             /\ o \notin refused' => \A p \in Mapped(o) : prot'[o][p] = rules
  <2> DEFINE f == [p \in CodeParts |-> IF p \in Protected(o) \ kept THEN rules ELSE prot[o][p]]
  <2>1. prot' = [prot EXCEPT ![o] = f]
    BY <1>3
  <2>2. f \in [CodeParts -> R]
    BY <1>1
  <2>3. prot' \in [Objects -> [CodeParts -> R]] /\ prot'[o] = f
        /\ \A q \in Objects \ {o} : prot'[q] = prot[q]
    BY <1>1, <2>1, <2>2
  <2>4. o \notin refused' => kept = {}
    BY <1>3
  <2>5. o \notin refused' => \A p \in Mapped(o) : f[p] = rules
    BY <2>4 DEF Mapped, Protected
  <2>6. \A p \in CodeParts : f[p] = prot[o][p] \/ (f[p] = rules /\ p \in Mapped(o))
    BY DEF Protected
  <2>7. refused' \subseteq Objects /\ \A q \in Objects \ {o} : q \in refused' <=> q \in refused
    BY <1>1, <1>3
  <2>8. QED
    BY <2>3, <2>5, <2>6, <2>7
<1>4. QED
  BY <1>1, <1>2, <1>3 DEF SetPages

\* Asking for pages, whether or not there are any, switches the thread at most.
LEMMA SwitchDoes ==
    ASSUME TypeOK, NEW t \in Threads, SwitchToWriting(t) \/ UNCHANGED pages
    PROVE  /\ mode' \in [Threads -> {"write", "run"}] /\ creators' \subseteq Threads
           /\ UNCHANGED <<refused, strayed, fault>>
           /\ \A u \in Threads \ {t} : mode'[u] = mode[u]
<1>1. mode \in [Threads -> {"write", "run"}] /\ creators \subseteq Threads
  BY DEF TypeOK
<1>2. CASE UNCHANGED pages
  BY <1>1, <1>2 DEF pages
<1>3. CASE SwitchToWriting(t)
  BY <1>1, <1>3 DEF SwitchToWriting
<1>4. QED
  BY <1>2, <1>3

\* A constructor without pages leaves those there are.
LEMMA NoPagesDoes ==
    ASSUME TypeOK, NEW t \in Threads, NoPages(t) \/ UNCHANGED pages
    PROVE  /\ mode' \in [Threads -> {"write", "run"}] /\ creators' \subseteq Threads
           /\ UNCHANGED <<prot, refused, strayed, fault>>
           /\ \A u \in Threads \ {t} : mode'[u] = mode[u]
BY SwitchDoes DEF NoPages, pages

\* A new compiler has pages that can be written, where they are code.
LEMMA MapPagesDoes ==
    ASSUME TypeOK, NEW t \in Threads, NEW o \in Objects, NEW vector \in BOOLEAN,
           MapPages(t, o, vector)
    PROVE  /\ prot' \in [Objects -> [CodeParts -> {"RW", "RX", "RWX", "MAP_JIT", None}]]
           /\ UNCHANGED <<refused, strayed, fault>>
           /\ \A q \in Objects \ {o} : prot'[q] = prot[q]
           /\ mode' \in [Threads -> {"write", "run"}] /\ creators' \subseteq Threads
           /\ \A u \in Threads \ {t} : mode'[u] = mode[u]
           /\ prot'[o]["code"] \in {"RW", "MAP_JIT"}
           /\ prot'[o]["vector"] \in IF vector THEN {"RW", "MAP_JIT"} ELSE {None}
<1> DEFINE R == {"RW", "RX", "RWX", "MAP_JIT", None}
           f == [p \in CodeParts |-> IF p \notin (IF vector THEN CodeParts ELSE {"code"}) THEN None
                                     ELSE IF platform = "threads" THEN "MAP_JIT" ELSE "RW"]
<1>1. prot \in [Objects -> [CodeParts -> R]]
  BY DEF TypeOK
<1>2. prot' = [prot EXCEPT ![o] = f]
  BY DEF MapPages
<1>3. f \in [CodeParts -> R] /\ f["code"] \in {"RW", "MAP_JIT"}
      /\ f["vector"] \in IF vector THEN {"RW", "MAP_JIT"} ELSE {None}
  BY DEF CodeParts
<1>4. prot'[o] = f /\ prot' \in [Objects -> [CodeParts -> R]]
      /\ \A q \in Objects \ {o} : prot'[q] = prot[q]
  BY <1>1, <1>2, <1>3
<1>5. /\ mode' \in [Threads -> {"write", "run"}] /\ creators' \subseteq Threads
      /\ UNCHANGED <<refused, strayed, fault>>
      /\ \A u \in Threads \ {t} : mode'[u] = mode[u]
  BY SwitchDoes DEF MapPages
<1>6. QED
  BY <1>3, <1>4, <1>5


-----------------------------------------------------------------------------
(* The client's calls that use an object it has.                           *)

\* A call with an object the client has keeps the invariant, if it begins where it may.
LEMMA UseKeeps ==
    ASSUME AllocationInv, NEW t \in Threads, NEW op \in Calls, NEW o \in Objects,
           NEW step \in Steps, NEW source \in BOOLEAN,
           Enter(t, op, o, step, source), UNCHANGED <<platform, heap, pages>>,
           o \in given, op \notin Allocating, flags[o].jit,
           step \in StepsOf(op), step # "generate",
           o \in UsedBy(op),
           step = "code" => op # "run" /\ (platform # "threads" => Permitted(o, {"RX", "RWX"}))
    PROVE  AllocationInv'
<1>1. /\ call'[t] = [op |-> op, obj |-> o, at |-> step, source |-> source]
      /\ Obj(t) = None /\ Obj(t)' = o
      /\ \A u \in Threads : Obj(u) # o
      /\ \A u \in Threads \ {t} : call'[u] = call[u]
      /\ call' \in [Threads -> CallRecords]
  BY EnterDoes
<1>2. Concerns(t, o)
  BY <1>1 DEF Concerns, heap, pages
<1>3. TypeOK'
  BY <1>1 DEF AllocationInv, TypeOK, CallRecords, heap, pages
<1>4. call'[t].op = op /\ call'[t].at = step
  BY <1>1
<1>5. CallSound(t)'
  <2>1. InCall(t)'
    BY <1>1, <1>4 DEF InCall, UsedBy, heap, pages, Allocating
  <2>2. PartsOfTheCall(t)'
    <3>1. step # "object"
      BY DEF StepsOf, Calls, Allocating
    <3>2. QED
      BY <1>4, <3>1 DEF PartsOfTheCall
  <2>3. Permitted(o, {"RX", "RWX"}) => Permitted(o, {"RX", "RWX"})'
    BY DEF Permitted, Mapped, heap, pages
  <2>4. MayWriteAndRun(t)'
    BY <1>1, <1>4, <2>3 DEF MayWriteAndRun, pages
  <2>5. QED
    BY <2>1, <2>2, <2>4 DEF CallSound
<1>6. ObjectSound(o)'
  <2>1. ObjectSound(o)
    BY DEF AllocationInv
  <2>2. Matched(o)' /\ Sorted(o)' /\ Closed(o)' /\ Complete(o)'
    <3>1. \A p \in Parts : FreedBy(o)'[p] = FreedBy(o)[p]
      BY DEF FreedBy, StoreFreedBy, VmFreedBy, Allocator, heap
    <3>2. QED
      BY <2>1, <3>1 DEF ObjectSound, Matched, Sorted, Closed, Complete, Allocator, Has, Needed,
                        heap, pages
  <2>3. StaysOpen(o)'
    BY <2>1 DEF ObjectSound, StaysOpen, Permitted, Mapped, heap, pages
  <2>4. AtRest(o)'
    BY <1>1 DEF AtRest
  <2>5. QED
    BY <2>2, <2>3, <2>4 DEF ObjectSound
<1>7. FaultsOnlyIfRefused'
  BY DEF AllocationInv, FaultsOnlyIfRefused, pages
<1>8. QED
  BY <1>1, <1>2, <1>3, <1>5, <1>6, <1>7, StepKeeps

\* randomx_init_cache, randomx_vm_set_cache, a hash and randomx_init_dataset
LEMMA ClientUses ==
    ASSUME AllocationInv, NEW t \in Threads, NEW o \in Objects,
           \/ o \in Stores /\ (InitCache(t, o) \/ InitDataset(t, o))
           \/ o \in VMs /\ (SetCache(t, o) \/ RunProgram(t, o))
    PROVE  AllocationInv'
<1>1. ObjectSound(o)
  BY DEF AllocationInv
<1>2. CASE o \in Stores /\ InitCache(t, o)
  BY <1>2, UseKeeps DEF InitCache, Calls, Steps, StepsOf, Allocating, UsedBy
<1>3. CASE o \in VMs /\ SetCache(t, o)
  BY <1>1, <1>3, UseKeeps DEF SetCache, Calls, Steps, StepsOf, Allocating, UsedBy, ObjectSound, Sorted
<1>4. CASE o \in VMs /\ RunProgram(t, o)
  BY <1>4, UseKeeps DEF RunProgram, Calls, Steps, StepsOf, Allocating, UsedBy
<1>5. CASE o \in Stores /\ InitDataset(t, o)
  <2>1. Enter(t, "init_dataset", o, "code", TRUE) /\ UNCHANGED <<platform, heap, pages>>
    BY <1>5 DEF InitDataset
  <2>2. o \in given /\ o \in Stores \cap ready /\ flags[o].jit
    BY <1>1, <1>5 DEF InitDataset, ObjectSound, Sorted
  <2>3. \A u \in Threads : Obj(u) # o
    BY <2>1 DEF Enter, Obj
  <2>4. platform \in {"pages", "threads"}
    BY PlatformsAssumption DEF AllocationInv, TypeOK
  <2>5. platform = "pages" => Permitted(o, {"RX", "RWX"})
    BY <1>1, <2>2, <2>3 DEF ObjectSound, AtRest, Permitted
  <2>6. QED
    BY <2>1, <2>2, <2>4, <2>5, UseKeeps DEF Calls, Steps, StepsOf, Allocating, UsedBy
<1>6. QED
  BY <1>2, <1>3, <1>4, <1>5

-----------------------------------------------------------------------------
(* The beginnings of the allocating calls.                                 *)

\* An allocation that begins does so with an object of which there is nothing.
LEMMA AllocationBegins ==
    ASSUME AllocationInv, NEW t \in Threads, NEW op \in Allocating, NEW o \in Objects,
           NEW f \in Flags, NEW source \in BOOLEAN,
           Enter(t, op, o, "object", source), o \notin given,
           flags' = [flags EXCEPT ![o] = f],
           UNCHANGED <<platform, held, dealloc, given, ready, pages>>,
           o \in UsedBy(op),
           op = "alloc_dataset" => ~f.jit,
           f.jit /\ (o \in Stores \/ platform = "threads") => f.secure,
           f.kind = "light" => f.jit
    PROVE  AllocationInv'
<1>1. op \in Calls /\ "object" \in Steps /\ "object" \in StepsOf(op)
  BY DEF Calls, Allocating, Steps, StepsOf
<1>2. /\ call'[t] = [op |-> op, obj |-> o, at |-> "object", source |-> source]
      /\ Obj(t) = None /\ Obj(t)' = o
      /\ \A u \in Threads : Obj(u) # o
      /\ \A u \in Threads \ {t} : call'[u] = call[u]
      /\ call' \in [Threads -> CallRecords]
  BY <1>1, EnterDoes
<1>3. flags' \in [Objects -> Flags] /\ flags'[o] = f /\ \A q \in Objects \ {o} : flags'[q] = flags[q]
  BY DEF AllocationInv, TypeOK
<1>4. Concerns(t, o)
  BY <1>2, <1>3 DEF Concerns, pages
<1>5. TypeOK'
  BY <1>2, <1>3 DEF AllocationInv, TypeOK, CallRecords, pages
<1>6. call'[t].op = op /\ call'[t].at = "object"
  BY <1>2
<1>7. ObjectSound(o) /\ held[o] = NoParts
  BY <1>2 DEF AllocationInv, ObjectSound, AtRest
<1>8. \A p \in Parts : held'[o][p] = None
  BY <1>7 DEF NoParts
<1>9. CallSound(t)'
  <2>1. InCall(t)'
    BY <1>1, <1>2, <1>3, <1>6 DEF InCall, UsedBy, Allocating
  <2>2. Has(o)' = {}
    BY <1>8 DEF Has
  <2>3. PartsOfTheCall(t)'
    BY <1>2, <1>6, <1>7, <2>2 DEF PartsOfTheCall, SoFar, NoParts
  <2>4. MayWriteAndRun(t)'
    BY <1>6 DEF MayWriteAndRun
  <2>5. QED
    BY <2>1, <2>3, <2>4 DEF CallSound
<1>10. ObjectSound(o)'
  <2>1. Matched(o)'
    BY <1>7, <1>8 DEF ObjectSound, Matched, Parts, CodeParts, pages
  <2>2. o \notin Stores \cap ready
    BY <1>7 DEF ObjectSound, Sorted
  <2>3. Sorted(o)'
    BY <1>3, <2>2 DEF Sorted
  <2>4. Closed(o)'
    BY <2>1, <1>8, NoneAssumption DEF Matched, Closed, CodeParts, Parts
  <2>5. Mapped(o)' = {}
    BY <1>8 DEF Mapped, CodeParts, Parts
  <2>6. StaysOpen(o)'
    BY <2>5 DEF StaysOpen, Permitted
  <2>7. AtRest(o)' /\ Complete(o)'
    BY <1>2 DEF AtRest, Complete
  <2>8. QED
    BY <2>1, <2>3, <2>4, <2>6, <2>7 DEF ObjectSound
<1>11. FaultsOnlyIfRefused'
  BY DEF AllocationInv, FaultsOnlyIfRefused, pages
<1>12. QED
  BY <1>2, <1>4, <1>5, <1>9, <1>10, <1>11, StepKeeps


\* randomx_alloc_cache, randomx_alloc_dataset and randomx_create_vm
LEMMA ClientAllocates ==
    ASSUME AllocationInv, NEW t \in Threads, NEW o \in Objects,
           NEW kind \in {"interpreted", "light", "full"},
           NEW jit \in BOOLEAN, NEW large \in BOOLEAN, NEW secure \in BOOLEAN, NEW source \in BOOLEAN,
           \/ o \in Stores /\ (AllocCache(t, o, jit, large) \/ AllocDataset(t, o, large))
           \/ o \in VMs /\ CreateVm(t, o, kind, large, secure, source)
    PROVE  AllocationInv'
<1>1. CASE o \in Stores /\ AllocCache(t, o, jit, large)
  <2> DEFINE f == [kind |-> "cache", jit |-> jit, large |-> large, secure |-> TRUE]
  <2>1. f \in Flags /\ f.kind # "light" /\ f.secure
    BY DEF Flags
  <2>2. PICK g \in Flags : g = f
    BY <2>1
  <2>3. /\ Enter(t, "alloc_cache", o, "object", FALSE) /\ o \notin given
        /\ flags' = [flags EXCEPT ![o] = g]
        /\ UNCHANGED <<platform, held, dealloc, given, ready, pages>>
    BY <1>1, <2>2 DEF AllocCache
  <2>4. PICK op \in Allocating : op = "alloc_cache"
    BY DEF Allocating
  <2>5. o \in UsedBy(op)
    BY <1>1, <2>4 DEF UsedBy
  <2>6. PICK source2 \in BOOLEAN : source2 = FALSE
    OBVIOUS
  <2>7. Enter(t, op, o, "object", source2)
    BY <2>3, <2>4, <2>6
  <2>8. QED
    BY <2>1, <2>2, <2>3, <2>4, <2>5, <2>7, AllocationBegins
<1>2. CASE o \in Stores /\ AllocDataset(t, o, large)
  <2> DEFINE f == [kind |-> "dataset", jit |-> FALSE, large |-> large, secure |-> FALSE]
  <2>1. f \in Flags /\ f.kind # "light" /\ ~f.jit
    BY DEF Flags
  <2>2. PICK g \in Flags : g = f
    BY <2>1
  <2>3. /\ Enter(t, "alloc_dataset", o, "object", FALSE) /\ o \notin given
        /\ flags' = [flags EXCEPT ![o] = g]
        /\ UNCHANGED <<platform, held, dealloc, given, ready, pages>>
    BY <1>2, <2>2 DEF AllocDataset
  <2>4. PICK op \in Allocating : op = "alloc_dataset"
    BY DEF Allocating
  <2>5. o \in UsedBy(op)
    BY <1>2, <2>4 DEF UsedBy
  <2>6. PICK source2 \in BOOLEAN : source2 = FALSE
    OBVIOUS
  <2>7. Enter(t, op, o, "object", source2)
    BY <2>3, <2>4, <2>6
  <2>8. QED
    BY <2>1, <2>2, <2>3, <2>4, <2>5, <2>7, AllocationBegins
<1>3. CASE o \in VMs /\ CreateVm(t, o, kind, large, secure, source)
  <2> DEFINE j == kind # "interpreted"
             f == [kind |-> kind, jit |-> j, large |-> large, secure |-> secure]
  <2>1. f \in Flags /\ (f.kind = "light" => f.jit) /\ (platform = "threads" /\ f.jit => f.secure)
    <3>1. platform = "threads" /\ j => secure
      BY <1>3 DEF CreateVm
    <3>2. j \in BOOLEAN /\ (kind = "light" => j)
      OBVIOUS
    <3> HIDE DEF j
    <3>3. QED
      BY <3>1, <3>2 DEF Flags
  <2>2. PICK g \in Flags : g = f
    BY <2>1
  <2>3. /\ Enter(t, "create_vm", o, "object", source) /\ o \notin given
        /\ flags' = [flags EXCEPT ![o] = g]
        /\ UNCHANGED <<platform, held, dealloc, given, ready, pages>>
    BY <1>3, <2>2 DEF CreateVm
  <2>4. PICK op \in Allocating : op = "create_vm"
    BY DEF Allocating
  <2>5. o \in UsedBy(op) /\ o \notin Stores
    BY <1>3, <2>4, SortsAssumption DEF UsedBy
  <2>6. Enter(t, op, o, "object", source)
    BY <2>3, <2>4
  <2>7. /\ op = "alloc_dataset" => ~g.jit
        /\ g.jit /\ (o \in Stores \/ platform = "threads") => g.secure
        /\ g.kind = "light" => g.jit
    BY <2>1, <2>2, <2>4, <2>5
  <2>8. QED
    BY <2>3, <2>5, <2>6, <2>7, AllocationBegins
<1>4. QED
  BY <1>1, <1>2, <1>3

-----------------------------------------------------------------------------
(* The steps of allocating calls.                                          *)

\* What is known of a thread at a step of its call, and of the object it works on.
LEMMA InsideCall ==
    ASSUME AllocationInv, NEW t \in Threads, NEW ops, NEW step \in Steps, At(t, ops, step)
    PROVE  /\ fault = None
           /\ call[t].op \in ops \cap Calls /\ call[t].at = step /\ step \in StepsOf(call[t].op)
           /\ Obj(t) \in Objects /\ Obj(t) \in UsedBy(call[t].op)
           /\ Obj(t) \in given <=> call[t].op \notin Allocating
           /\ call[t].op = "alloc_dataset" => ~flags[Obj(t)].jit
           /\ step \in {"compiler", "constructor", "writing", "generate", "execution", "code"} =>
                 flags[Obj(t)].jit
           /\ PartsOfTheCall(t) /\ MayWriteAndRun(t)
           /\ ObjectSound(Obj(t))
           /\ flags[Obj(t)] \in Flags /\ call[t].source \in BOOLEAN
<1>1. call[t].op \in ops /\ call[t].at = step /\ fault = None
  BY DEF At
<1>2. call[t] # Idle
  BY <1>1 DEF Idle, Steps
<1>3. CallSound(t)
  BY DEF AllocationInv
<1>4. InCall(t) /\ PartsOfTheCall(t) /\ MayWriteAndRun(t)
  BY <1>3 DEF CallSound
<1>5. /\ call[t].op \in Calls /\ step \in StepsOf(call[t].op)
      /\ Obj(t) \in UsedBy(call[t].op)
      /\ Obj(t) \in given <=> call[t].op \notin Allocating
      /\ call[t].op = "alloc_dataset" => ~flags[Obj(t)].jit
      /\ step \in {"compiler", "constructor", "writing", "generate", "execution", "code"} =>
            flags[Obj(t)].jit
  BY <1>1, <1>2, <1>4 DEF InCall
<1>6. Obj(t) \in Objects
  BY <1>5 DEF UsedBy, Objects
<1>7. ObjectSound(Obj(t)) /\ flags[Obj(t)] \in Flags /\ call[t].source \in BOOLEAN
  BY <1>6 DEF AllocationInv, TypeOK
<1>8. QED
  BY <1>1, <1>4, <1>5, <1>6, <1>7

\* The allocator every part of an object goes back to depends on its flags and, for the
\* memory of a cache or dataset, on what the object has noted.
LEMMA SameAllocators ==
    ASSUME NEW o \in Objects, flags'[o] = flags[o], o \in Stores => dealloc'[o] = dealloc[o]
    PROVE  Allocator(o)' = Allocator(o) /\ \A p \in Parts : FreedBy(o)'[p] = FreedBy(o)[p]
BY DEF FreedBy, StoreFreedBy, VmFreedBy, Allocator

\* A call that fails before anything has been allocated returns with nothing.
LEMMA NothingAllocated ==
    ASSUME AllocationInv, NEW t \in Threads, NEW ops, At(t, ops, "object"), Goto(t, "return"),
           UNCHANGED <<platform, heap>>,
           NoPages(t) \/ UNCHANGED pages
    PROVE  AllocationInv'
<1>1. "object" \in Steps /\ "return" \in Steps \cup {"return"}
  BY DEF Steps
<1>0. /\ mode' \in [Threads -> {"write", "run"}] /\ creators' \subseteq Threads
      /\ UNCHANGED <<prot, refused, strayed, fault>>
      /\ \A u \in Threads \ {t} : mode'[u] = mode[u]
  BY NoPagesDoes DEF AllocationInv
<1>2. PICK o \in Objects : o = Obj(t)
  BY <1>1, InsideCall
<1>3. /\ ObjectSound(o) /\ PartsOfTheCall(t) /\ call[t].at = "object" /\ call[t].op \in Calls
      /\ "object" \in StepsOf(call[t].op)
      /\ o \in given <=> call[t].op \notin Allocating
  BY <1>1, <1>2, InsideCall
<1>4. /\ \A u \in Threads \ {t} : Obj(u) # o /\ call'[u] = call[u]
      /\ call'[t] = Idle /\ Obj(t)' = None
      /\ call' \in [Threads -> CallRecords]
  BY <1>1, <1>2, MoveDoes
<1>5. held[o] = NoParts /\ o \notin given
  BY <1>2, <1>3 DEF PartsOfTheCall, StepsOf, Allocating, Calls
<1>6. Concerns(t, o)
  BY <1>0, <1>2, <1>4 DEF Concerns, heap
<1>7. TypeOK'
  BY <1>0, <1>4 DEF AllocationInv, TypeOK, CallRecords, heap
<1>8. CallSound(t)'
  BY <1>4 DEF CallSound, InCall, PartsOfTheCall, MayWriteAndRun, Idle, Allocating
<1>9. ObjectSound(o)'
  <2>1. \A p \in Parts : FreedBy(o)'[p] = FreedBy(o)[p]
    BY SameAllocators DEF heap
  <2>2. Matched(o)' /\ Sorted(o)' /\ Closed(o)' /\ Complete(o)'
    BY <1>0, <1>3, <1>5, <2>1 DEF ObjectSound, Matched, Sorted, Closed, Complete, Allocator, heap
  <2>3. Mapped(o)' = {}
    BY <1>5 DEF Mapped, NoParts, CodeParts, Parts, heap
  <2>4. StaysOpen(o)'
    BY <2>3 DEF StaysOpen, Permitted
  <2>5. o \notin Stores \cap ready'
    BY <1>3, <1>5 DEF ObjectSound, Sorted, heap
  <2>6. AtRest(o)'
    BY <1>5, <2>5 DEF AtRest, NoParts, heap
  <2>7. QED
    BY <2>2, <2>4, <2>6 DEF ObjectSound
<1>10. FaultsOnlyIfRefused'
  BY <1>0 DEF AllocationInv, FaultsOnlyIfRefused
<1>11. QED
  BY <1>4, <1>6, <1>7, <1>8, <1>9, <1>10, StepKeeps

\* One whose next allocation fails goes to its handler with what it has.
LEMMA AllocationFails ==
    ASSUME AllocationInv, NEW t \in Threads, NEW ops \in SUBSET Allocating, NEW step \in {"compiler", "memory"},
           At(t, ops, step), Goto(t, "failed"), UNCHANGED <<platform, heap>>,
           NoPages(t) \/ UNCHANGED pages
    PROVE  AllocationInv'
<1>1. step \in Steps /\ "failed" \in Steps \cup {"return"}
  BY DEF Steps
<1>0. /\ mode' \in [Threads -> {"write", "run"}] /\ creators' \subseteq Threads
      /\ UNCHANGED <<prot, refused, strayed, fault>>
      /\ \A u \in Threads \ {t} : mode'[u] = mode[u]
  BY NoPagesDoes DEF AllocationInv
<1>2. PICK o \in Objects : o = Obj(t)
  BY <1>1, InsideCall
<1>3. /\ ObjectSound(o) /\ call[t].op \in ops \cap Calls
      /\ o \in UsedBy(call[t].op)
      /\ o \in given <=> call[t].op \notin Allocating
      /\ call[t].op = "alloc_dataset" => ~flags[o].jit
  BY <1>1, <1>2, InsideCall
<1>4. /\ \A u \in Threads \ {t} : Obj(u) # o /\ call'[u] = call[u]
      /\ call'[t].op = call[t].op /\ call'[t].at = "failed" /\ Obj(t)' = o
      /\ call' \in [Threads -> CallRecords]
  BY <1>1, <1>2, MoveDoes
<1>5. Concerns(t, o)
  BY <1>0, <1>2, <1>4 DEF Concerns, heap
<1>6. TypeOK'
  BY <1>0, <1>4 DEF AllocationInv, TypeOK, CallRecords, heap
<1>7. CallSound(t)'
  <2>1. "failed" \in StepsOf(call[t].op)
    BY <1>3 DEF StepsOf, Allocating, Steps
  <2>2. InCall(t)'
    BY <1>3, <1>4, <2>1 DEF InCall, UsedBy, heap
  <2>3. QED
    BY <1>4, <2>2 DEF CallSound, PartsOfTheCall, MayWriteAndRun
<1>8. ObjectSound(o)'
  <2>1. \A p \in Parts : FreedBy(o)'[p] = FreedBy(o)[p]
    BY SameAllocators DEF heap
  <2>2. Matched(o)' /\ Sorted(o)' /\ Closed(o)' /\ Complete(o)'
    BY <1>0, <1>3, <2>1 DEF ObjectSound, Matched, Sorted, Closed, Complete, Has, Needed, Allocator, heap
  <2>3. o \notin given' /\ \A u \in Threads : Obj(u)' = o => call'[u].at = "failed"
    BY <1>3, <1>4 DEF heap, Obj
  <2>4. StaysOpen(o)'
    BY <2>3 DEF StaysOpen
  <2>5. AtRest(o)'
    BY <1>4 DEF AtRest
  <2>6. QED
    BY <2>2, <2>4, <2>5 DEF ObjectSound
<1>9. FaultsOnlyIfRefused'
  BY <1>0 DEF AllocationInv, FaultsOnlyIfRefused
<1>10. QED
  BY <1>4, <1>5, <1>6, <1>7, <1>8, <1>9, StepKeeps


\* new randomx_cache, new randomx_dataset
LEMMA NewStoreKeeps ==
    ASSUME AllocationInv, NEW t \in Threads, NewStore(t)
    PROVE  AllocationInv'
<1>1. "object" \in Steps /\ {"compiler", "memory"} \subseteq Steps \cup {"return"}
  BY DEF Steps
<1>2. PICK o \in Objects : o = Obj(t)
  BY <1>1, InsideCall DEF NewStore
<1>3. /\ ObjectSound(o) /\ PartsOfTheCall(t) /\ call[t].at = "object"
      /\ call[t].op \in {"alloc_cache", "alloc_dataset"} /\ o \in UsedBy(call[t].op)
      /\ o \in given <=> call[t].op \notin Allocating
      /\ call[t].op = "alloc_dataset" => ~flags[o].jit
  BY <1>1, <1>2, InsideCall DEF NewStore
<1>4. o \in Stores /\ held[o] = NoParts /\ o \notin given
  BY <1>2, <1>3 DEF UsedBy, PartsOfTheCall, Allocating
<1>5. ASSUME held' = [held EXCEPT ![o]["object"] = "new"],
             dealloc' = [dealloc EXCEPT ![o] = Dealloc(o)],
             NEW next \in {"compiler", "memory"}, next = "compiler" <=> flags[o].jit,
             Goto(t, next), UNCHANGED <<platform, flags, given, ready, pages>>
      PROVE  AllocationInv'
  <2>1. At(t, {"alloc_cache", "alloc_dataset"}, "object")
    BY DEF NewStore
  <2>2. /\ \A u \in Threads \ {t} : Obj(u) # o /\ call'[u] = call[u]
        /\ call'[t].op = call[t].op /\ call'[t].at = next /\ Obj(t)' = o
        /\ call' \in [Threads -> CallRecords]
    BY <1>1, <1>2, <1>5, <2>1, MoveDoes
  <2>3. /\ held' \in [Objects -> [Parts -> {"new", "aligned", "large", "mapped", None}]]
        /\ held'[o] = [NoParts EXCEPT !["object"] = "new"]
        /\ \A q \in Objects \ {o} : held'[q] = held[q]
    BY <1>4, <1>5 DEF AllocationInv, TypeOK, Parts
  <2>4. /\ held'[o]["object"] = "new"
        /\ \A p \in Parts \ {"object"} : held'[o][p] = None
    BY <2>3 DEF NoParts, Parts
  <2>5. Dealloc(o) \in {"aligned", "large"} /\ Allocator(o)' = Dealloc(o)
    BY <1>5 DEF Dealloc, Allocator
  <2>6. /\ dealloc' \in [Stores -> {"aligned", "large", None}]
        /\ dealloc'[o] = Allocator(o)' /\ \A q \in Stores \ {o} : dealloc'[q] = dealloc[q]
    BY <1>4, <1>5, <2>5 DEF AllocationInv, TypeOK
  <2>7. Concerns(t, o)
    BY <1>2, <1>5, <2>2, <2>3, <2>6 DEF Concerns, pages
  <2>8. TypeOK'
    BY <1>5, <2>2, <2>3, <2>6 DEF AllocationInv, TypeOK, CallRecords, pages
  <2>9. Has(o)' = {"object"}
    BY <2>4, NoneAssumption DEF Has, Parts
  <2>10. CallSound(t)'
    <3>1. call[t].op \in Calls /\ next \in StepsOf(call[t].op)
      BY <1>3, <1>5 DEF StepsOf, Calls
    <3>2. InCall(t)'
      BY <1>3, <1>5, <2>2, <3>1 DEF InCall, UsedBy
    <3>3. SoFar(o, next)' = {"object"}
      BY <1>5 DEF SoFar, Needed
    <3>4. PartsOfTheCall(t)'
      BY <1>5, <2>2, <2>9, <3>3 DEF PartsOfTheCall
    <3>5. MayWriteAndRun(t)'
      BY <1>5, <2>2 DEF MayWriteAndRun
    <3>6. QED
      BY <3>2, <3>4, <3>5 DEF CallSound
  <2>11. ObjectSound(o)'
    <3>1. \A p \in Parts : held'[o][p] \in {None, FreedBy(o)'[p]}
      BY <1>4, <2>4 DEF FreedBy, StoreFreedBy, Parts
    <3>2. \A p \in CodeParts : prot'[o][p] = None
      BY <1>3, <1>4, <1>5 DEF ObjectSound, Matched, NoParts, CodeParts, Parts, pages
    <3>3. Matched(o)' /\ Closed(o)'
      BY <2>6, <3>1, <3>2, NoneAssumption DEF Matched, Closed
    <3>4. Sorted(o)'
      BY <1>3, <1>5 DEF ObjectSound, Sorted
    <3>5. StaysOpen(o)'
      BY <1>4, <3>4 DEF StaysOpen, Sorted
    <3>6. AtRest(o)' /\ Complete(o)'
      BY <1>4, <1>5, <2>2 DEF AtRest, Complete
    <3>7. QED
      BY <3>3, <3>4, <3>5, <3>6 DEF ObjectSound
  <2>12. FaultsOnlyIfRefused'
    BY <1>5 DEF AllocationInv, FaultsOnlyIfRefused, pages
  <2>13. QED
    BY <2>2, <2>7, <2>8, <2>10, <2>11, <2>12, StepKeeps
<1>6. CASE Goto(t, "return") /\ UNCHANGED <<held, dealloc>>
  BY <1>6, NothingAllocated DEF NewStore, heap
<1>7. CASE ~UNCHANGED <<held, dealloc>> \/ ~Goto(t, "return")
  <2>1. PICK next \in {"compiler", "memory"} : next = IF flags[o].jit THEN "compiler" ELSE "memory"
    OBVIOUS
  <2>2. /\ held' = [held EXCEPT ![o]["object"] = "new"]
        /\ dealloc' = [dealloc EXCEPT ![o] = Dealloc(o)]
        /\ Goto(t, next) /\ UNCHANGED <<platform, flags, given, ready, pages>>
    BY <1>2, <1>7, <2>1 DEF NewStore
  <2>3. QED
    BY <1>5, <2>1, <2>2
<1>8. QED
  BY <1>6, <1>7

\* new JitCompiler(), and what becomes of a cache that does not get it
LEMMA NewCompilerKeeps ==
    ASSUME AllocationInv, NEW t \in Threads, NewCompiler(t)
    PROVE  AllocationInv'
<1>1. "compiler" \in Steps /\ "memory" \in Steps \cup {"return"}
  BY DEF Steps
<1>2. PICK o \in Objects : o = Obj(t)
  BY <1>1, InsideCall DEF NewCompiler
<1>3. At(t, {"alloc_cache"}, "compiler")
  BY DEF NewCompiler
<1>4. /\ ObjectSound(o) /\ PartsOfTheCall(t) /\ call[t].at = "compiler" /\ fault = None
      /\ call[t].op = "alloc_cache" /\ o \in UsedBy(call[t].op)
      /\ o \in given <=> call[t].op \notin Allocating
      /\ flags[o].jit
  BY <1>1, <1>2, <1>3, InsideCall
<1>5. o \in Stores /\ o \notin given /\ Has(o) = {"object"}
  BY <1>2, <1>4 DEF UsedBy, PartsOfTheCall, Allocating, SoFar
<1>6. CASE Goto(t, "failed") /\ UNCHANGED held /\ NoPages(t)
  <2>1. UNCHANGED <<platform, heap>>
    BY <1>6 DEF NewCompiler, heap
  <2>2. PICK ops \in SUBSET Allocating : ops = {"alloc_cache"}
    BY DEF Allocating
  <2>3. PICK step \in {"compiler", "memory"} : step = "compiler"
    OBVIOUS
  <2>4. QED
    BY <1>3, <1>6, <2>1, <2>2, <2>3, AllocationFails
<1>7. ASSUME NEW vector \in BOOLEAN,
             held' = [held EXCEPT ![o]["compiler"] = "new",
                                  ![o]["code"] = "mapped",
                                  ![o]["vector"] = IF vector THEN "mapped" ELSE None],
             MapPages(t, o, vector), Goto(t, "memory")
      PROVE  AllocationInv'
  <2>1. /\ \A u \in Threads \ {t} : Obj(u) # o /\ call'[u] = call[u]
        /\ call'[t].op = "alloc_cache" /\ call'[t].at = "memory" /\ Obj(t)' = o
        /\ call' \in [Threads -> CallRecords]
    BY <1>1, <1>2, <1>3, <1>4, <1>7, MoveDoes
  <2> DEFINE H == {"new", "aligned", "large", "mapped", None}
             h1 == [held EXCEPT ![o]["compiler"] = "new"]
             h2 == [h1 EXCEPT ![o]["code"] = "mapped"]
  <2>2. held \in [Objects -> [Parts -> H]]
    BY DEF AllocationInv, TypeOK
  <2>3. /\ h1 \in [Objects -> [Parts -> H]] /\ h1[o]["compiler"] = "new"
        /\ \A p \in Parts \ {"compiler"} : h1[o][p] = held[o][p]
        /\ \A q \in Objects \ {o} : h1[q] = held[q]
    BY <2>2 DEF Parts
  <2> HIDE DEF h1
  <2>4. /\ h2 \in [Objects -> [Parts -> H]] /\ h2[o]["code"] = "mapped"
        /\ \A p \in Parts \ {"code"} : h2[o][p] = h1[o][p]
        /\ \A q \in Objects \ {o} : h2[q] = h1[q]
    BY <2>3 DEF Parts
  <2>5. held' = [h2 EXCEPT ![o]["vector"] = IF vector THEN "mapped" ELSE None]
    BY <1>7 DEF h1
  <2> HIDE DEF h2
  <2>6. /\ held' \in [Objects -> [Parts -> H]]
        /\ held'[o]["vector"] = IF vector THEN "mapped" ELSE None
        /\ \A p \in Parts \ {"vector"} : held'[o][p] = h2[o][p]
        /\ \A q \in Objects \ {o} : held'[q] = h2[q]
    BY <2>4, <2>5 DEF Parts
  <2>7. /\ held'[o]["object"] = held[o]["object"] /\ held'[o]["memory"] = held[o]["memory"]
        /\ held'[o]["compiler"] = "new" /\ held'[o]["code"] = "mapped"
        /\ \A q \in Objects \ {o} : held'[q] = held[q]
    BY <2>3, <2>4, <2>6 DEF Parts
  <2>8. /\ prot' \in [Objects -> [CodeParts -> {"RW", "RX", "RWX", "MAP_JIT", None}]]
        /\ mode' \in [Threads -> {"write", "run"}] /\ creators' \subseteq Threads /\ UNCHANGED <<refused, strayed, fault>>
        /\ \A q \in Objects \ {o} : prot'[q] = prot[q]
        /\ \A u \in Threads \ {t} : mode'[u] = mode[u]
        /\ prot'[o]["code"] \in {"RW", "MAP_JIT"}
        /\ prot'[o]["vector"] \in IF vector THEN {"RW", "MAP_JIT"} ELSE {None}
    BY <1>7, MapPagesDoes DEF AllocationInv
  <2>9. UNCHANGED <<platform, flags, dealloc, given, ready>>
    BY DEF NewCompiler
  <2>10. Concerns(t, o)
    BY <1>2, <2>1, <2>7, <2>8, <2>9 DEF Concerns
  <2>11. TypeOK'
    BY <2>1, <2>6, <2>8, <2>9 DEF AllocationInv, TypeOK, CallRecords
  <2>12. held[o]["object"] # None /\ held[o]["memory"] = None
    BY <1>5 DEF Has, Parts
  <2>13. Has(o)' = {"object", "compiler", "code"}
    BY <2>7, <2>12, NoneAssumption DEF Has, Parts
  <2>14. CallSound(t)'
    <3>1. InCall(t)'
      BY <1>4, <1>5, <2>1, <2>9 DEF InCall, UsedBy, Calls, StepsOf, Allocating
    <3>2. SoFar(o, "memory")' = {"object", "compiler", "code"}
      BY <1>4, <1>5, <2>9 DEF SoFar, Needed
    <3>3. PartsOfTheCall(t)' /\ MayWriteAndRun(t)'
      BY <2>1, <2>13, <3>2 DEF PartsOfTheCall, MayWriteAndRun
    <3>4. QED
      BY <3>1, <3>3 DEF CallSound
  <2>15. ObjectSound(o)'
    <3>1. \A p \in Parts : FreedBy(o)'[p] = FreedBy(o)[p]
      BY <2>9, SameAllocators
    <3>2. FreedBy(o)["compiler"] = "new" /\ FreedBy(o)["code"] = "mapped" /\ FreedBy(o)["vector"] = "mapped"
      BY <1>5 DEF FreedBy, StoreFreedBy, Parts
    <3>3. \A p \in Parts : held'[o][p] \in {None, FreedBy(o)'[p]}
      BY <1>4, <2>6, <2>7, <3>1, <3>2 DEF ObjectSound, Matched, Parts
    <3>4. \A p \in CodeParts : held'[o][p] = None => prot'[o][p] = None
      BY <2>6, <2>7, <2>8, NoneAssumption DEF CodeParts
    <3>5. Matched(o)'
      BY <1>4, <2>7, <2>9, <3>3, <3>4 DEF ObjectSound, Matched, Allocator
    <3>6. Closed(o)'
      BY <2>8, NoneAssumption DEF Closed, CodeParts
    <3>7. Sorted(o)'
      BY <1>4, <2>9 DEF ObjectSound, Sorted
    <3>8. StaysOpen(o)'
      BY <1>5, <3>7 DEF StaysOpen, Sorted
    <3>9. AtRest(o)' /\ Complete(o)'
      BY <1>5, <2>1, <2>9 DEF AtRest, Complete
    <3>10. QED
      BY <3>5, <3>6, <3>7, <3>8, <3>9 DEF ObjectSound
  <2>16. FaultsOnlyIfRefused'
    BY <1>4, <2>8 DEF FaultsOnlyIfRefused
  <2>17. QED
    BY <2>1, <2>10, <2>11, <2>14, <2>15, <2>16, StepKeeps
<1>8. QED
  BY <1>2, <1>6, <1>7 DEF NewCompiler


\* With its memory an object is complete, and the client has it.
LEMMA MemoryArrives ==
    ASSUME AllocationInv, NEW t \in Threads, NEW ops \in SUBSET Allocating, At(t, ops, "memory"),
           held' = [held EXCEPT ![Obj(t)]["memory"] = Allocator(Obj(t))],
           given' = given \cup {Obj(t)}, Goto(t, "return"),
           UNCHANGED <<platform, flags, dealloc, ready, pages>>
    PROVE  AllocationInv'
<1>1. "memory" \in Steps /\ "return" \in Steps \cup {"return"}
  BY DEF Steps
<1>2. PICK o \in Objects : o = Obj(t)
  BY <1>1, InsideCall
<1>3. /\ ObjectSound(o) /\ PartsOfTheCall(t) /\ call[t].at = "memory"
      /\ call[t].op \in Allocating /\ o \in UsedBy(call[t].op)
      /\ o \in given <=> call[t].op \notin Allocating
  BY <1>1, <1>2, InsideCall
<1>4. o \notin given /\ Has(o) = Needed(o) \ {"memory"}
  BY <1>2, <1>3 DEF PartsOfTheCall, Allocating, SoFar
<1>5. /\ \A u \in Threads \ {t} : Obj(u) # o /\ call'[u] = call[u]
      /\ call'[t] = Idle /\ Obj(t)' = None
      /\ call' \in [Threads -> CallRecords]
  BY <1>1, <1>2, MoveDoes
<1>6. Allocator(o) \in {"large", "aligned"}
  BY DEF Allocator
<1>7. /\ held' \in [Objects -> [Parts -> {"new", "aligned", "large", "mapped", None}]]
      /\ held'[o]["memory"] = Allocator(o)
      /\ \A p \in Parts \ {"memory"} : held'[o][p] = held[o][p]
      /\ \A q \in Objects \ {o} : held'[q] = held[q]
  BY <1>2, <1>6 DEF AllocationInv, TypeOK, Parts
<1>8. Concerns(t, o)
  BY <1>2, <1>5, <1>7 DEF Concerns, pages
<1>9. TypeOK'
  BY <1>2, <1>5, <1>7 DEF AllocationInv, TypeOK, CallRecords, pages
<1>10. CallSound(t)'
  BY <1>5 DEF CallSound, InCall, PartsOfTheCall, MayWriteAndRun, Idle, Allocating
<1>11. Needed(o)' = Needed(o) /\ "memory" \in Needed(o) /\ "object" \in Needed(o)
  BY DEF Needed
<1>12. ObjectSound(o)'
  <2>1. \A p \in Parts : FreedBy(o)'[p] = FreedBy(o)[p]
    BY SameAllocators
  <2>2. o \in Stores => dealloc[o] = Allocator(o)
    <3>1. held[o]["object"] # None
      BY <1>4, <1>11 DEF Has
    <3>2. QED
      BY <1>3, <3>1 DEF ObjectSound, Matched
  <2>3. FreedBy(o)["memory"] = Allocator(o)
    BY <2>2 DEF FreedBy, StoreFreedBy, VmFreedBy, Parts
  <2>4. Mapped(o)' = Mapped(o)
    BY <1>7 DEF Mapped, CodeParts, Parts
  <2>5. Matched(o)'
    <3>1. \A p \in Parts : held'[o][p] \in {None, FreedBy(o)'[p]}
      BY <1>3, <1>7, <2>1, <2>3 DEF ObjectSound, Matched
    <3>2. \A p \in CodeParts : held'[o][p] = None => prot'[o][p] = None
      BY <1>3, <1>7 DEF ObjectSound, Matched, CodeParts, Parts, pages
    <3>3. QED
      BY <2>2, <3>1, <3>2 DEF Matched, Allocator
  <2>6. Closed(o)' /\ Sorted(o)'
    BY <1>2, <1>3 DEF ObjectSound, Closed, Sorted, pages
  <2>7. StaysOpen(o)'
    <3>1. StaysOpen(o) /\ Obj(t) = o /\ call[t].at = "memory"
      BY <1>2, <1>3 DEF ObjectSound
    <3>2. flags[o].jit /\ ~flags[o].secure => Permitted(o, {"RWX"})
      BY <3>1 DEF StaysOpen
    <3>3. QED
      BY <2>4, <3>2 DEF StaysOpen, Permitted, pages
  <2>8. AtRest(o)'
    <3>1. o \notin Stores \cap ready'
      BY <1>3, <1>4 DEF ObjectSound, Sorted
    <3>2. QED
      BY <1>2, <3>1 DEF AtRest
  <2>9. Complete(o)'
    <3>1. Has(o)' = Has(o) \cup {"memory"}
      BY <1>6, <1>7, NoneAssumption DEF Has, Parts
    <3>2. QED
      BY <1>4, <1>11, <3>1 DEF Complete
  <2>10. QED
    BY <2>5, <2>6, <2>7, <2>8, <2>9 DEF ObjectSound
<1>13. FaultsOnlyIfRefused'
  BY DEF AllocationInv, FaultsOnlyIfRefused, pages
<1>14. QED
  BY <1>5, <1>8, <1>9, <1>10, <1>12, <1>13, StepKeeps

\* The memory of a cache or dataset, and the scratchpad of a machine
LEMMA MemoryKeeps ==
    ASSUME AllocationInv, NEW t \in Threads, StoreMemory(t) \/ Scratchpad(t)
    PROVE  AllocationInv'
<1>1. PICK ops \in SUBSET Allocating :
         /\ At(t, ops, "memory")
         /\ \/ /\ held' = [held EXCEPT ![Obj(t)]["memory"] = Allocator(Obj(t))]
               /\ given' = given \cup {Obj(t)} /\ Goto(t, "return")
            \/ Goto(t, "failed") /\ UNCHANGED <<held, given>>
         /\ UNCHANGED <<platform, flags, dealloc, ready, pages>>
  <2>1. CASE StoreMemory(t)
    <3>1. {"alloc_cache", "alloc_dataset"} \in SUBSET Allocating
      BY DEF Allocating
    <3>2. QED
      BY <2>1, <3>1 DEF StoreMemory
  <2>2. CASE Scratchpad(t)
    <3>1. {"create_vm"} \in SUBSET Allocating
      BY DEF Allocating
    <3>2. QED
      BY <2>2, <3>1 DEF Scratchpad
  <2>3. QED
    BY <2>1, <2>2
<1>2. CASE Goto(t, "failed") /\ UNCHANGED <<held, given>>
  <2>1. PICK step \in {"compiler", "memory"} : step = "memory"
    OBVIOUS
  <2>2. At(t, ops, step) /\ UNCHANGED <<platform, heap, pages>>
    BY <1>1, <1>2, <2>1 DEF heap
  <2>3. QED
    BY <1>2, <2>2, AllocationFails
<1>3. CASE /\ held' = [held EXCEPT ![Obj(t)]["memory"] = Allocator(Obj(t))]
           /\ given' = given \cup {Obj(t)} /\ Goto(t, "return")
  BY <1>1, <1>3, MemoryArrives
<1>4. QED
  BY <1>1, <1>2, <1>3

-----------------------------------------------------------------------------
(* Releasing.                                                              *)

\* What is released is gone, and nothing is freed by an allocator it did not come from.
LEMMA FreedDoes ==
    ASSUME AllocationInv, NEW o \in Objects, Freed(o, FreedBy(o)), fault = None
    PROVE  /\ held' \in [Objects -> [Parts -> {"new", "aligned", "large", "mapped", None}]]
           /\ prot' \in [Objects -> [CodeParts -> {"RW", "RX", "RWX", "MAP_JIT", None}]]
           /\ held'[o] = NoParts /\ prot'[o] = Unmapped
           /\ \A q \in Objects \ {o} : held'[q] = held[q] /\ prot'[q] = prot[q]
           /\ fault' = None /\ refused' = refused \ {o} /\ UNCHANGED <<mode, creators, strayed>>
<1>1. /\ held \in [Objects -> [Parts -> {"new", "aligned", "large", "mapped", None}]]
      /\ prot \in [Objects -> [CodeParts -> {"RW", "RX", "RWX", "MAP_JIT", None}]]
  BY DEF AllocationInv, TypeOK
<1>2. \A p \in Parts : held[o][p] \in {None, FreedBy(o)[p]}
  BY DEF AllocationInv, ObjectSound, Matched
<1>3. held' = [held EXCEPT ![o] = NoParts]
  BY DEF Freed, Released, NoParts
<1>4. NoParts \in [Parts -> {"new", "aligned", "large", "mapped", None}]
      /\ Unmapped \in [CodeParts -> {"RW", "RX", "RWX", "MAP_JIT", None}]
  BY DEF NoParts, Unmapped
<1>5. prot' = [prot EXCEPT ![o] = Unmapped]
  BY DEF Freed
<1>6. fault' = None /\ refused' = refused \ {o} /\ UNCHANGED <<mode, creators, strayed>>
  BY <1>2 DEF Freed
<1>7. QED
  BY <1>1, <1>3, <1>4, <1>5, <1>6

\* An object that is gone can be allocated again.
LEMMA GoneIsSound ==
    ASSUME AllocationInv, NEW o \in Objects, flags'[o] = flags[o], platform' = platform,
           held'[o] = NoParts, prot'[o] = Unmapped, o \notin given', o \notin ready'
    PROVE  ObjectSound(o)'
<1>1. ObjectSound(o)
  BY DEF AllocationInv
<1>2. \A p \in Parts : held'[o][p] = None
  BY DEF NoParts
<1>3. \A p \in CodeParts : prot'[o][p] = None
  BY DEF Unmapped
<1>4. Matched(o)' /\ Closed(o)'
  BY <1>2, <1>3, NoneAssumption DEF Matched, Closed, Parts
<1>5. Sorted(o)'
  BY <1>1 DEF ObjectSound, Sorted
<1>6. Mapped(o)' = {}
  BY <1>2 DEF Mapped, CodeParts, Parts
<1>7. StaysOpen(o)'
  BY <1>6 DEF StaysOpen, Permitted
<1>8. AtRest(o)' /\ Complete(o)'
  BY DEF AtRest, Complete, NoParts
<1>9. QED
  BY <1>4, <1>5, <1>7, <1>8 DEF ObjectSound

\* The handlers of failed allocations
LEMMA FailedKeeps ==
    ASSUME AllocationInv, NEW t \in Threads, Failed(t)
    PROVE  AllocationInv'
<1>1. "failed" \in Steps /\ "return" \in Steps \cup {"return"}
  BY DEF Steps
<1>2. PICK o \in Objects : o = Obj(t)
  BY <1>1, InsideCall DEF Failed
<1>3. At(t, {"alloc_cache", "alloc_dataset", "create_vm"}, "failed") /\ Goto(t, "return")
  BY DEF Failed
<1>4. fault = None /\ o \notin given
  BY <1>1, <1>2, <1>3, InsideCall DEF Allocating
<1>5. /\ \A u \in Threads \ {t} : Obj(u) # o /\ call'[u] = call[u]
      /\ call'[t] = Idle /\ Obj(t)' = None
      /\ call' \in [Threads -> CallRecords]
  BY <1>1, <1>2, <1>3, MoveDoes
<1>6. /\ held' \in [Objects -> [Parts -> {"new", "aligned", "large", "mapped", None}]]
      /\ prot' \in [Objects -> [CodeParts -> {"RW", "RX", "RWX", "MAP_JIT", None}]]
      /\ held'[o] = NoParts /\ prot'[o] = Unmapped
      /\ \A q \in Objects \ {o} : held'[q] = held[q] /\ prot'[q] = prot[q]
      /\ fault' = None /\ refused' = refused \ {o} /\ UNCHANGED <<mode, creators, strayed>>
  BY <1>2, <1>4, FreedDoes DEF Failed
<1>7. ready' = ready \ {o} /\ UNCHANGED <<platform, flags, dealloc, given>>
  BY <1>2 DEF Failed
<1>8. Concerns(t, o)
  BY <1>2, <1>5, <1>6, <1>7 DEF Concerns
<1>9. TypeOK'
  BY <1>5, <1>6, <1>7 DEF AllocationInv, TypeOK, CallRecords
<1>10. CallSound(t)'
  BY <1>5 DEF CallSound, InCall, PartsOfTheCall, MayWriteAndRun, Idle, Allocating
<1>11. ObjectSound(o)'
  BY <1>4, <1>6, <1>7, GoneIsSound
<1>12. FaultsOnlyIfRefused'
  BY <1>6 DEF FaultsOnlyIfRefused
<1>13. QED
  BY <1>5, <1>8, <1>9, <1>10, <1>11, <1>12, StepKeeps

\* randomx_release_cache, randomx_release_dataset, randomx_destroy_vm
LEMMA ReleaseKeeps ==
    ASSUME AllocationInv, NEW t \in Threads, NEW o \in Objects, Release(t, o)
    PROVE  AllocationInv'
<1>1. /\ fault = None /\ call[t] = Idle /\ call' = call
      /\ \A u \in Threads : Obj(u) # o
      /\ given' = given \ {o} /\ ready' = ready \ {o}
      /\ UNCHANGED <<platform, flags, dealloc>>
  BY DEF Release, Obj
<1>2. /\ held' \in [Objects -> [Parts -> {"new", "aligned", "large", "mapped", None}]]
      /\ prot' \in [Objects -> [CodeParts -> {"RW", "RX", "RWX", "MAP_JIT", None}]]
      /\ held'[o] = NoParts /\ prot'[o] = Unmapped
      /\ \A q \in Objects \ {o} : held'[q] = held[q] /\ prot'[q] = prot[q]
      /\ fault' = None /\ refused' = refused \ {o} /\ UNCHANGED <<mode, creators, strayed>>
  BY <1>1, FreedDoes DEF Release
<1>3. Obj(t) = None /\ Obj(t)' = None
  BY <1>1 DEF Obj, Idle
<1>4. Concerns(t, o)
  BY <1>1, <1>2, <1>3 DEF Concerns
<1>5. TypeOK'
  BY <1>1, <1>2 DEF AllocationInv, TypeOK
<1>6. CallSound(t)'
  BY <1>1 DEF CallSound, InCall, PartsOfTheCall, MayWriteAndRun, Idle, Allocating
<1>7. ObjectSound(o)'
  BY <1>1, <1>2, GoneIsSound
<1>8. FaultsOnlyIfRefused'
  BY <1>2 DEF FaultsOnlyIfRefused
<1>9. QED
  BY <1>1, <1>4, <1>5, <1>6, <1>7, <1>8, StepKeeps


-----------------------------------------------------------------------------
(* Machines.                                                               *)

\* operator new and the constructor of a machine
LEMMA NewVmKeeps ==
    ASSUME AllocationInv, NEW t \in Threads, NewVm(t)
    PROVE  AllocationInv'
<1>1. "object" \in Steps /\ {"constructor", "memory"} \subseteq Steps \cup {"return"}
  BY DEF Steps
<1>2. PICK o \in Objects : o = Obj(t)
  BY <1>1, InsideCall DEF NewVm
<1>3. At(t, {"create_vm"}, "object") /\ UNCHANGED <<platform, flags, dealloc, given, ready>>
  BY DEF NewVm
<1>4. /\ ObjectSound(o) /\ PartsOfTheCall(t) /\ call[t].at = "object" /\ fault = None
      /\ call[t].op = "create_vm" /\ o \in UsedBy(call[t].op)
      /\ o \in given <=> call[t].op \notin Allocating
      /\ flags[o] \in Flags
  BY <1>1, <1>2, <1>3, InsideCall
<1>5. o \in VMs /\ o \notin Stores /\ o \notin given /\ held[o] = NoParts
  BY <1>2, <1>4, SortsAssumption DEF UsedBy, PartsOfTheCall, Allocating
<1>6. CASE Goto(t, "return") /\ UNCHANGED held /\ (NoPages(t) \/ UNCHANGED pages)
  BY <1>3, <1>6, NothingAllocated DEF heap
<1>7. ASSUME NEW vector \in BOOLEAN, vector => flags[o].jit,
             NEW parts,
             parts = [NoParts EXCEPT !["object"] = "aligned",
                                     !["code"] = IF flags[o].jit THEN "mapped" ELSE None,
                                     !["vector"] = IF vector THEN "mapped" ELSE None],
             held' = [held EXCEPT ![o] = parts],
             IF flags[o].jit THEN MapPages(t, o, vector) ELSE UNCHANGED pages,
             NEW next \in {"constructor", "memory"}, next = "constructor" <=> flags[o].jit,
             Goto(t, next)
      PROVE  AllocationInv'
  <2>1. /\ \A u \in Threads \ {t} : Obj(u) # o /\ call'[u] = call[u]
        /\ call'[t].op = "create_vm" /\ call'[t].at = next /\ Obj(t)' = o
        /\ call' \in [Threads -> CallRecords]
    BY <1>1, <1>2, <1>3, <1>4, <1>7, MoveDoes
  <2> DEFINE H == {"new", "aligned", "large", "mapped", None}
  <2>2. /\ parts \in [Parts -> H] /\ parts["object"] = "aligned"
        /\ parts["code"] = IF flags[o].jit THEN "mapped" ELSE None
        /\ parts["vector"] = IF vector THEN "mapped" ELSE None
        /\ parts["memory"] = None /\ parts["compiler"] = None
    BY <1>7 DEF NoParts, Parts
  <2>3. /\ held' \in [Objects -> [Parts -> H]] /\ held'[o] = parts
        /\ \A q \in Objects \ {o} : held'[q] = held[q]
    BY <1>7, <2>2 DEF AllocationInv, TypeOK
  <2>4. \A p \in CodeParts : prot[o][p] = None
    BY <1>4, <1>5 DEF ObjectSound, Matched, NoParts, CodeParts, Parts
  <2>5. /\ prot' \in [Objects -> [CodeParts -> {"RW", "RX", "RWX", "MAP_JIT", None}]]
        /\ mode' \in [Threads -> {"write", "run"}] /\ creators' \subseteq Threads /\ UNCHANGED <<refused, strayed, fault>>
        /\ \A q \in Objects \ {o} : prot'[q] = prot[q]
        /\ \A u \in Threads \ {t} : mode'[u] = mode[u]
        /\ \A p \in CodeParts : prot'[o][p] \in {"RW", "MAP_JIT", None}
        /\ \A p \in CodeParts : held'[o][p] = None => prot'[o][p] = None
    <3>1. CASE flags[o].jit
      <4>1. /\ prot' \in [Objects -> [CodeParts -> {"RW", "RX", "RWX", "MAP_JIT", None}]]
            /\ mode' \in [Threads -> {"write", "run"}] /\ creators' \subseteq Threads /\ UNCHANGED <<refused, strayed, fault>>
            /\ \A q \in Objects \ {o} : prot'[q] = prot[q]
            /\ \A u \in Threads \ {t} : mode'[u] = mode[u]
            /\ prot'[o]["code"] \in {"RW", "MAP_JIT"}
            /\ prot'[o]["vector"] \in IF vector THEN {"RW", "MAP_JIT"} ELSE {None}
        BY <1>7, <3>1, MapPagesDoes DEF AllocationInv
      <4>2. held'[o]["code"] = "mapped" /\ (held'[o]["vector"] = None => ~vector)
        BY <2>2, <2>3, <3>1, NoneAssumption
      <4>3. QED
        BY <4>1, <4>2, NoneAssumption DEF CodeParts
    <3>2. CASE ~flags[o].jit
      BY <1>7, <2>4, <3>2 DEF pages, AllocationInv, TypeOK
    <3>3. QED
      BY <3>1, <3>2
  <2>6. Concerns(t, o)
    BY <1>2, <1>3, <2>1, <2>3, <2>5 DEF Concerns
  <2>7. TypeOK'
    BY <1>3, <2>1, <2>3, <2>5 DEF AllocationInv, TypeOK, CallRecords
  <2>8. Has(o)' = IF flags[o].jit THEN {"object", "code"} ELSE {"object"}
    BY <2>2, <2>3, NoneAssumption DEF Has, Parts
  <2>9. CallSound(t)'
    <3>1. InCall(t)'
      BY <1>3, <1>5, <1>7, <2>1 DEF InCall, UsedBy, Calls, StepsOf, Steps, Allocating
    <3>2. SoFar(o, next)' = IF flags[o].jit THEN {"object", "code"} ELSE {"object"}
      BY <1>3, <1>5, <1>7 DEF SoFar, Needed
    <3>3. PartsOfTheCall(t)' /\ MayWriteAndRun(t)'
      BY <1>7, <2>1, <2>8, <3>2 DEF PartsOfTheCall, MayWriteAndRun
    <3>4. QED
      BY <3>1, <3>3 DEF CallSound
  <2>10. ObjectSound(o)'
    <3>1. \A p \in Parts : held'[o][p] \in {None, FreedBy(o)'[p]}
      BY <1>5, <2>2, <2>3 DEF FreedBy, VmFreedBy, Parts
    <3>2. Matched(o)' /\ Closed(o)'
      BY <1>5, <2>5, <3>1, NoneAssumption DEF Matched, Closed
    <3>3. Sorted(o)'
      BY <1>3, <1>4 DEF ObjectSound, Sorted
    <3>4. StaysOpen(o)'
      <4>1. flags'[o].jit => call'[t].at = "constructor"
        BY <1>3, <1>7, <2>1
      <4>2. \A u \in Threads \ {t} : Obj(u)' # o
        BY <2>1 DEF Obj
      <4>3. QED
        BY <1>3, <1>5, <4>1, <4>2 DEF StaysOpen
    <3>5. AtRest(o)' /\ Complete(o)'
      BY <1>3, <1>5, <2>1 DEF AtRest, Complete
    <3>6. QED
      BY <3>2, <3>3, <3>4, <3>5 DEF ObjectSound
  <2>11. FaultsOnlyIfRefused'
    BY <1>4, <2>5 DEF FaultsOnlyIfRefused
  <2>12. QED
    BY <2>1, <2>6, <2>7, <2>9, <2>10, <2>11, StepKeeps
<1>8. ASSUME NEW vector \in BOOLEAN, vector => flags[o].jit,
             held' = [held EXCEPT ![o] =
                        [NoParts EXCEPT !["object"] = "aligned",
                                        !["code"] = IF flags[o].jit THEN "mapped" ELSE None,
                                        !["vector"] = IF vector THEN "mapped" ELSE None]],
             IF flags[o].jit THEN MapPages(t, o, vector) ELSE UNCHANGED pages,
             Goto(t, IF flags[o].jit THEN "constructor" ELSE Attachment(t))
      PROVE  AllocationInv'
  <2>1. ~flags[o].jit => Attachment(t) = "memory"
    BY <1>2, <1>4 DEF Attachment, ObjectSound, Sorted
  <2>2. PICK next \in {"constructor", "memory"} :
           next = IF flags[o].jit THEN "constructor" ELSE Attachment(t)
    BY <2>1
  <2>3. next = "constructor" <=> flags[o].jit
    BY <2>1, <2>2
  <2>4. QED
    BY <1>7, <1>8, <2>2, <2>3
<1>9. QED
  BY <1>2, <1>6, <1>8 DEF NewVm

-----------------------------------------------------------------------------
(* Writing and running code.                                               *)

\* A step that asks for a protection, or leaves it, keeps what does not depend on it.
LEMMA PagesStep ==
    ASSUME AllocationInv, NEW t \in Threads, NEW o \in Objects, o = Obj(t),
           NEW rules \in {"RW", "RX", "RWX"}, NEW next \in Steps \cup {"return"},
           NEW ops, NEW step \in Steps, At(t, ops, step), Goto(t, next),
           SetPages(t, o, rules) \/ UNCHANGED pages,
           rules = "RWX" => o \in VMs /\ ~flags[o].secure,
           UNCHANGED <<platform, heap>>
    PROVE  /\ Concerns(t, o) /\ TypeOK' /\ FaultsOnlyIfRefused'
           /\ Matched(o)' /\ Sorted(o)' /\ Closed(o)' /\ Complete(o)'
           /\ Mapped(o)' = Mapped(o) /\ Has(o)' = Has(o) /\ Needed(o)' = Needed(o)
           /\ \A u \in Threads \ {t} : Obj(u) # o /\ call'[u] = call[u]
           /\ next = "return" => call'[t] = Idle /\ Obj(t)' = None
           /\ next # "return" => call'[t].op = call[t].op /\ call'[t].at = next /\ Obj(t)' = o
<1>1. /\ \A u \in Threads \ {t} : Obj(u) # o /\ call'[u] = call[u]
      /\ next = "return" => call'[t] = Idle /\ Obj(t)' = None
      /\ next # "return" => call'[t].op = call[t].op /\ call'[t].at = next /\ Obj(t)' = o
      /\ call' \in [Threads -> CallRecords]
      /\ fault = None
  BY MoveDoes
<1>2. /\ prot' \in [Objects -> [CodeParts -> {"RW", "RX", "RWX", "MAP_JIT", None}]]
      /\ mode' \in [Threads -> {"write", "run"}]
      /\ refused' \subseteq Objects /\ creators' \subseteq Threads
      /\ fault' = fault /\ strayed' = strayed
      /\ \A q \in Objects \ {o} : prot'[q] = prot[q] /\ (q \in refused' <=> q \in refused)
      /\ \A u \in Threads \ {t} : mode'[u] = mode[u]
      /\ \A p \in CodeParts : \/ prot'[o][p] = prot[o][p]
                              \/ prot'[o][p] = rules /\ p \in Mapped(o)
  <2>1. TypeOK
    BY DEF AllocationInv
  <2>2. CASE SetPages(t, o, rules)
    BY <2>1, <2>2, SetPagesDoes
  <2>3. CASE UNCHANGED pages
    BY <2>1, <2>3 DEF pages, TypeOK
  <2>4. QED
    BY <2>2, <2>3
<1>3. Concerns(t, o)
  BY <1>1, <1>2 DEF Concerns, heap
<1>4. TypeOK'
  BY <1>1, <1>2 DEF AllocationInv, TypeOK, CallRecords, heap
<1>5. FaultsOnlyIfRefused'
  BY <1>1, <1>2 DEF FaultsOnlyIfRefused
<1>6. ObjectSound(o)
  BY DEF AllocationInv
<1>7. Mapped(o)' = Mapped(o) /\ Has(o)' = Has(o) /\ Needed(o)' = Needed(o)
  BY DEF Mapped, Has, Needed, heap
<1>8. Matched(o)'
  <2>1. \A p \in Parts : FreedBy(o)'[p] = FreedBy(o)[p]
    BY SameAllocators DEF heap
  <2>2. \A p \in CodeParts : held'[o][p] = None => prot'[o][p] = None
    BY <1>2, <1>6 DEF ObjectSound, Matched, Mapped, heap
  <2>3. QED
    BY <1>6, <2>1, <2>2 DEF ObjectSound, Matched, Allocator, heap
<1>9. Sorted(o)' /\ Complete(o)'
  BY <1>6, <1>7 DEF ObjectSound, Sorted, Complete, heap
<1>10. Closed(o)'
  BY <1>2, <1>6 DEF ObjectSound, Closed, heap
<1>11. QED
  BY <1>1, <1>3, <1>4, <1>5, <1>7, <1>8, <1>9, <1>10


\* CompiledVm::CompiledVm opens the pages of a machine that is not secure for good.
LEMMA ConstructorKeeps ==
    ASSUME AllocationInv, NEW t \in Threads, Constructor(t)
    PROVE  AllocationInv'
<1>1. "constructor" \in Steps
  BY DEF Steps
<1>2. PICK o \in Objects : o = Obj(t)
  BY <1>1, InsideCall DEF Constructor
<1>3. At(t, {"create_vm"}, "constructor") /\ UNCHANGED <<platform, heap>>
  BY DEF Constructor
<1>4. /\ ObjectSound(o) /\ PartsOfTheCall(t) /\ call[t].at = "constructor"
      /\ call[t].op = "create_vm" /\ o \in UsedBy(call[t].op)
      /\ o \in given <=> call[t].op \notin Allocating
      /\ flags[o].jit
  BY <1>1, <1>2, <1>3, InsideCall
<1>5. o \in VMs /\ o \notin Stores /\ o \notin given /\ Has(o) = Needed(o) \ {"memory"}
  BY <1>2, <1>4, SortsAssumption DEF UsedBy, PartsOfTheCall, Allocating, SoFar
<1>6. PICK next \in {"writing", "memory"} : next = Attachment(t)
  BY DEF Attachment
<1>7. Goto(t, next) /\ IF ~flags[o].secure THEN SetPages(t, o, "RWX") ELSE UNCHANGED pages
  BY <1>2, <1>6 DEF Constructor, Open
<1>8. PICK rules \in {"RW", "RX", "RWX"} : rules = IF flags[o].secure THEN "RX" ELSE "RWX"
  OBVIOUS
<1>9. SetPages(t, o, rules) \/ UNCHANGED pages
  BY <1>7, <1>8
<1>10. rules = "RWX" => o \in VMs /\ ~flags[o].secure
  BY <1>5, <1>8
<1>11. next \in Steps \cup {"return"} /\ next # "return"
  BY DEF Steps
<1>12. /\ Concerns(t, o) /\ TypeOK' /\ FaultsOnlyIfRefused'
       /\ Matched(o)' /\ Sorted(o)' /\ Closed(o)' /\ Complete(o)'
       /\ Mapped(o)' = Mapped(o) /\ Has(o)' = Has(o) /\ Needed(o)' = Needed(o)
       /\ \A u \in Threads \ {t} : Obj(u) # o /\ call'[u] = call[u]
       /\ call'[t].op = call[t].op /\ call'[t].at = next /\ Obj(t)' = o
  BY <1>1, <1>2, <1>3, <1>7, <1>9, <1>10, <1>11, PagesStep
<1>13. CallSound(t)'
  <2>1. InCall(t)'
    BY <1>3, <1>4, <1>5, <1>12 DEF InCall, UsedBy, Calls, StepsOf, Steps, Allocating, heap
  <2>2. PartsOfTheCall(t)'
    BY <1>5, <1>12 DEF PartsOfTheCall, SoFar
  <2>3. MayWriteAndRun(t)'
    BY <1>12 DEF MayWriteAndRun
  <2>4. QED
    BY <2>1, <2>2, <2>3 DEF CallSound
<1>14. StaysOpen(o)'
  <2>1. SUFFICES ASSUME ~flags[o].secure
                 PROVE  Permitted(o, {"RWX"})'
    BY <1>3 DEF StaysOpen, heap
  <2>2. platform = "pages"
    BY <1>4, <2>1, PlatformsAssumption DEF ObjectSound, Sorted, AllocationInv, TypeOK
  <2>3. SetPages(t, o, rules) /\ rules = "RWX"
    BY <1>7, <1>8, <2>1
  <2>4. o \notin refused' => \A p \in Mapped(o) : prot'[o][p] = rules
    BY <2>2, <2>3, SetPagesDoes DEF AllocationInv
  <2>5. QED
    BY <1>12, <2>3, <2>4 DEF Permitted
<1>15. AtRest(o)'
  BY <1>12 DEF AtRest
<1>16. ObjectSound(o)'
  BY <1>12, <1>14, <1>15 DEF ObjectSound
<1>17. QED
  BY <1>12, <1>13, <1>16, StepKeeps

\* enableWriting: what is written next may be.
LEMMA EnableWritingKeeps ==
    ASSUME AllocationInv, NEW t \in Threads, EnableWriting(t)
    PROVE  AllocationInv'
<1>1. "writing" \in Steps
  BY DEF Steps
<1>2. PICK o \in Objects : o = Obj(t)
  BY <1>1, InsideCall DEF EnableWriting
<1>3. At(t, Generating, "writing") /\ UNCHANGED <<platform, heap>> /\ Goto(t, "generate")
  BY DEF EnableWriting
<1>4. /\ ObjectSound(o) /\ PartsOfTheCall(t) /\ call[t].at = "writing"
      /\ call[t].op \in Generating \cap Calls /\ o \in UsedBy(call[t].op)
      /\ o \in given <=> call[t].op \notin Allocating
      /\ flags[o].jit
  BY <1>1, <1>2, <1>3, InsideCall
<1>5. PICK rules \in {"RW", "RX", "RWX"} : rules = "RW"
  OBVIOUS
<1>6. SetPages(t, o, rules) \/ UNCHANGED pages
  BY <1>2, <1>5 DEF EnableWriting
<1>7. PICK next \in Steps \cup {"return"} : next = "generate"
  BY DEF Steps
<1>8. /\ Concerns(t, o) /\ TypeOK' /\ FaultsOnlyIfRefused'
      /\ Matched(o)' /\ Sorted(o)' /\ Closed(o)' /\ Complete(o)'
      /\ Mapped(o)' = Mapped(o) /\ Has(o)' = Has(o) /\ Needed(o)' = Needed(o)
      /\ \A u \in Threads \ {t} : Obj(u) # o /\ call'[u] = call[u]
      /\ call'[t].op = call[t].op /\ call'[t].at = "generate" /\ Obj(t)' = o
  BY <1>1, <1>2, <1>3, <1>5, <1>6, <1>7, PagesStep
<1>9. platform \in {"pages", "threads"}
  BY PlatformsAssumption DEF AllocationInv, TypeOK
<1>10. ~flags[o].secure => /\ platform = "pages" /\ UNCHANGED pages
                           /\ Permitted(o, {"RWX"}) /\ Permitted(o, {"RWX"})'
  <2>1. SUFFICES ASSUME ~flags[o].secure
                 PROVE  /\ platform = "pages" /\ UNCHANGED pages
                        /\ Permitted(o, {"RWX"}) /\ Permitted(o, {"RWX"})'
    OBVIOUS
  <2>2. platform = "pages" /\ UNCHANGED pages
    BY <1>2, <1>4, <1>9, <2>1 DEF EnableWriting, ObjectSound, Sorted
  <2>3. Permitted(o, {"RWX"})
    BY <1>2, <1>4, <2>1 DEF ObjectSound, StaysOpen
  <2>4. Permitted(o, {"RWX"})'
    BY <1>8, <2>2, <2>3 DEF Permitted, pages
  <2>5. QED
    BY <2>2, <2>3, <2>4
<1>11. flags[o].secure =>
          /\ platform = "pages" => Permitted(o, {"RW"})'
          /\ platform = "threads" => mode'[t] = "write"
  <2>1. flags[o].secure => SetPages(t, o, rules)
    BY <1>2, <1>5 DEF EnableWriting
  <2>2. SetPages(t, o, rules) =>
            /\ platform = "pages" /\ o \notin refused' => \A p \in Mapped(o) : prot'[o][p] = rules
            /\ platform = "threads" => mode'[t] = IF rules = "RW" THEN "write" ELSE "run"
    BY SetPagesDoes DEF AllocationInv
  <2>3. QED
    BY <1>5, <1>8, <2>1, <2>2 DEF Permitted
<1>12. CallSound(t)'
  <2>1. InCall(t)'
    BY <1>3, <1>4, <1>8 DEF InCall, UsedBy, Calls, StepsOf, Steps, Generating, Allocating, heap
  <2>2. PartsOfTheCall(t)'
    BY <1>2, <1>4, <1>8 DEF PartsOfTheCall, SoFar
  <2>3. platform' = "pages" => Permitted(o, {"RW", "RWX"})'
    BY <1>3, <1>10, <1>11 DEF Permitted
  <2>4. MayWriteAndRun(t)'
    BY <1>3, <1>8, <1>9, <1>10, <1>11, <2>3 DEF MayWriteAndRun
  <2>5. QED
    BY <2>1, <2>2, <2>4 DEF CallSound
<1>13. StaysOpen(o)' /\ AtRest(o)'
  BY <1>3, <1>8, <1>10 DEF StaysOpen, AtRest, heap
<1>14. ObjectSound(o)'
  BY <1>8, <1>13 DEF ObjectSound
<1>15. QED
  BY <1>8, <1>12, <1>14, StepKeeps

\* enableExecution: what is run next may be, and a cache is left as it can be run.
LEMMA EnableExecutionKeeps ==
    ASSUME AllocationInv, NEW t \in Threads, EnableExecution(t)
    PROVE  AllocationInv'
<1>1. "execution" \in Steps
  BY DEF Steps
<1>2. PICK o \in Objects : o = Obj(t)
  BY <1>1, InsideCall DEF EnableExecution
<1>3. At(t, Generating, "execution") /\ UNCHANGED <<platform, heap>>
  BY DEF EnableExecution
<1>4. /\ ObjectSound(o) /\ PartsOfTheCall(t) /\ call[t].at = "execution"
      /\ call[t].op \in Generating \cap Calls /\ o \in UsedBy(call[t].op)
      /\ o \in given <=> call[t].op \notin Allocating
      /\ flags[o].jit
  BY <1>1, <1>2, <1>3, InsideCall
<1>5. PICK rules \in {"RW", "RX", "RWX"} : rules = "RX"
  OBVIOUS
<1>6. SetPages(t, o, rules) \/ UNCHANGED pages
  BY <1>2, <1>5 DEF EnableExecution
<1>7. PICK next \in Steps \cup {"return"} :
         next = CASE call[t].op = "create_vm" -> "memory"
                  [] call[t].op = "run" -> "code"
                  [] OTHER -> "return"
  BY DEF Steps
<1>8. Goto(t, next)
  BY <1>7 DEF EnableExecution
<1>9. /\ Concerns(t, o) /\ TypeOK' /\ FaultsOnlyIfRefused'
      /\ Matched(o)' /\ Sorted(o)' /\ Closed(o)' /\ Complete(o)'
      /\ Mapped(o)' = Mapped(o) /\ Has(o)' = Has(o) /\ Needed(o)' = Needed(o)
      /\ \A u \in Threads \ {t} : Obj(u) # o /\ call'[u] = call[u]
      /\ next = "return" => call'[t] = Idle /\ Obj(t)' = None
      /\ next # "return" => call'[t].op = call[t].op /\ call'[t].at = next /\ Obj(t)' = o
  BY <1>1, <1>2, <1>3, <1>5, <1>6, <1>8, PagesStep
<1>10. platform \in {"pages", "threads"}
  BY PlatformsAssumption DEF AllocationInv, TypeOK
<1>11. ~flags[o].secure => /\ platform = "pages" /\ UNCHANGED pages
                           /\ Permitted(o, {"RWX"}) /\ Permitted(o, {"RWX"})'
  <2>1. SUFFICES ASSUME ~flags[o].secure
                 PROVE  /\ platform = "pages" /\ UNCHANGED pages
                        /\ Permitted(o, {"RWX"}) /\ Permitted(o, {"RWX"})'
    OBVIOUS
  <2>2. platform = "pages" /\ UNCHANGED pages
    BY <1>2, <1>4, <1>10, <2>1 DEF EnableExecution, ObjectSound, Sorted
  <2>3. Permitted(o, {"RWX"})
    BY <1>2, <1>4, <2>1 DEF ObjectSound, StaysOpen
  <2>4. Permitted(o, {"RWX"})'
    BY <1>9, <2>2, <2>3 DEF Permitted, pages
  <2>5. QED
    BY <2>2, <2>3, <2>4
<1>12. flags[o].secure =>
          /\ platform = "pages" => Permitted(o, {"RX"})'
          /\ platform = "threads" => mode'[t] = "run"
  <2>1. flags[o].secure => SetPages(t, o, rules)
    BY <1>2, <1>5 DEF EnableExecution
  <2>2. SetPages(t, o, rules) =>
            /\ platform = "pages" /\ o \notin refused' => \A p \in Mapped(o) : prot'[o][p] = rules
            /\ platform = "threads" => mode'[t] = IF rules = "RW" THEN "write" ELSE "run"
    BY SetPagesDoes DEF AllocationInv
  <2>3. QED
    BY <1>5, <1>9, <2>1, <2>2 DEF Permitted
<1>13. CallSound(t)'
  <2>1. CASE next = "return"
    BY <1>9, <2>1 DEF CallSound, InCall, PartsOfTheCall, MayWriteAndRun, Idle, Allocating
  <2>2. CASE next # "return"
    <3>1. next \in StepsOf(call[t].op) /\ next \in {"memory", "code"} /\ (next = "code" <=> call[t].op = "run")
      BY <1>4, <1>7, <2>2 DEF StepsOf, Steps, Generating
    <3>2. InCall(t)'
      BY <1>3, <1>4, <1>9, <2>2, <3>1 DEF InCall, UsedBy, Generating, heap
    <3>3. PartsOfTheCall(t)'
      BY <1>2, <1>4, <1>9, <2>2, <3>1 DEF PartsOfTheCall, SoFar, Allocating
    <3>4. platform' = "pages" => Permitted(o, {"RX", "RWX"})'
      BY <1>3, <1>11, <1>12 DEF Permitted
    <3>5. MayWriteAndRun(t)'
      BY <1>3, <1>9, <1>10, <1>11, <1>12, <2>2, <3>1, <3>4 DEF MayWriteAndRun
    <3>6. QED
      BY <3>2, <3>3, <3>5 DEF CallSound
  <2>3. QED
    BY <2>1, <2>2
<1>14. StaysOpen(o)'
  BY <1>3, <1>11 DEF StaysOpen, heap
<1>15. AtRest(o)'
  <2>1. SUFFICES ASSUME \A u \in Threads : Obj(u)' # o
                 PROVE  /\ o \notin given' => held'[o] = NoParts
                        /\ o \in Stores \cap ready' /\ platform' = "pages" => Permitted(o, {"RX"})'
    BY DEF AtRest, NoParts
  <2>2. next = "return"
    BY <1>9, <2>1
  <2>3. o \in given
    BY <1>4, <1>7, <2>2 DEF Generating, Allocating
  <2>4. o \in Stores => flags[o].secure
    BY <1>4 DEF ObjectSound, Sorted
  <2>5. QED
    BY <1>3, <1>12, <2>3, <2>4 DEF heap
<1>16. ObjectSound(o)'
  BY <1>9, <1>14, <1>15 DEF ObjectSound
<1>17. QED
  BY <1>9, <1>13, <1>16, StepKeeps


\* Where pages may be written, the protection or the thread's mode says so.
LEMMA PermittedIsEnough ==
    ASSUME AllocationInv, NEW t \in Threads, NEW o \in Objects, MayWriteAndRun(t), o = Obj(t),
           NEW parts \in SUBSET Mapped(o), o \notin refused, call[t].at = "generate"
    PROVE  \A p \in parts : Writable(t, o, p)
<1>1. CASE platform = "threads"
  BY <1>1 DEF MayWriteAndRun, Writable
<1>2. CASE platform # "threads"
  BY <1>2 DEF MayWriteAndRun, Permitted, Writable
<1>3. QED
  BY <1>1, <1>2

\* The code of an object whose code may be used is there.
LEMMA MainIsMapped ==
    ASSUME NEW o \in Objects, o \in given, Complete(o), flags[o].jit
    PROVE  Main(o) \subseteq Mapped(o)
<1>1. "code" \in Has(o)
  BY DEF Complete, Needed
<1>2. held[o]["code"] # None
  BY <1>1 DEF Has
<1>3. QED
  BY <1>2 DEF Main, Mapped, CodeParts

\* generateSuperscalarHash, generateProgram, generateProgramLight
LEMMA GenerateKeeps ==
    ASSUME AllocationInv, NEW t \in Threads, Generate(t)
    PROVE  AllocationInv'
<1>1. "generate" \in Steps
  BY DEF Steps
<1>2. PICK o \in Objects : o = Obj(t)
  BY <1>1, InsideCall DEF Generate
<1>3. /\ At(t, Generating, "generate") /\ Goto(t, "execution")
      /\ UNCHANGED <<platform, flags, held, dealloc, given, prot, mode, creators, strayed, refused>>
      /\ ready' = ready \cup {o}
  BY <1>2 DEF Generate, Access
<1>4. /\ ObjectSound(o) /\ PartsOfTheCall(t) /\ call[t].at = "generate" /\ fault = None
      /\ call[t].op \in Generating \cap Calls /\ o \in UsedBy(call[t].op)
      /\ o \in given <=> call[t].op \notin Allocating
      /\ flags[o].jit /\ MayWriteAndRun(t)
  BY <1>1, <1>2, <1>3, InsideCall
<1>5. /\ \A u \in Threads \ {t} : Obj(u) # o /\ call'[u] = call[u]
      /\ call'[t].op = call[t].op /\ call'[t].at = "execution" /\ Obj(t)' = o
      /\ call' \in [Threads -> CallRecords]
  <2>1. PICK next \in Steps \cup {"return"} : next = "execution"
    BY DEF Steps
  <2>2. Goto(t, next) /\ next # "return"
    BY <1>3, <2>1
  <2>3. QED
    BY <1>1, <1>2, <1>3, <2>1, <2>2, MoveDoes
<1>6. fault' \in {None, o} /\ (fault' = o => o \in refused)
  <2>1. PICK written \in SUBSET Mapped(o) :
           fault' = IF \A p \in written : Writable(t, o, p) THEN fault ELSE o
    <3>1. call[t].op = "run" => Main(o) \subseteq Mapped(o)
      BY <1>4, MainIsMapped DEF ObjectSound, Allocating
    <3>2. PICK written : written = IF call[t].op = "run" THEN Main(o) ELSE Mapped(o)
      OBVIOUS
    <3>3. written \in SUBSET Mapped(o)
      BY <3>1, <3>2
    <3>4. QED
      BY <1>2, <3>2, <3>3 DEF Generate, Access
  <2>2. o # None
    BY SortsAssumption DEF Objects
  <2>3. o \notin refused => \A p \in written : Writable(t, o, p)
    BY <1>2, <1>4, PermittedIsEnough
  <2>4. QED
    BY <1>4, <2>1, <2>2, <2>3
<1>7. Concerns(t, o)
  BY <1>2, <1>3, <1>5 DEF Concerns
<1>8. TypeOK'
  BY <1>3, <1>5, <1>6 DEF AllocationInv, TypeOK, CallRecords
<1>9. FaultsOnlyIfRefused'
  BY <1>3, <1>6 DEF FaultsOnlyIfRefused
<1>10. CallSound(t)'
  <2>1. InCall(t)'
    BY <1>3, <1>4, <1>5 DEF InCall, UsedBy, Calls, StepsOf, Steps, Generating, Allocating
  <2>2. Has(o)' = Has(o) /\ Needed(o)' = Needed(o)
    BY <1>3 DEF Has, Needed
  <2>3. PartsOfTheCall(t)' /\ MayWriteAndRun(t)'
    BY <1>2, <1>4, <1>5, <2>2 DEF PartsOfTheCall, SoFar, MayWriteAndRun
  <2>4. QED
    BY <2>1, <2>3 DEF CallSound
<1>11. ObjectSound(o)'
  <2>1. \A p \in Parts : FreedBy(o)'[p] = FreedBy(o)[p]
    BY <1>3, SameAllocators
  <2>2. Matched(o)' /\ Closed(o)' /\ Complete(o)'
    BY <1>3, <1>4, <2>1 DEF ObjectSound, Matched, Closed, Complete, Has, Needed, Allocator
  <2>3. Sorted(o)'
    <3>1. o \in Stores => o \in given
      BY <1>4, SortsAssumption DEF UsedBy, Generating, Allocating
    <3>2. QED
      BY <1>3, <1>4, <3>1 DEF ObjectSound, Sorted
  <2>4. StaysOpen(o)'
    <3>1. flags[o].jit /\ ~flags[o].secure => Permitted(o, {"RWX"})
      BY <1>2, <1>4 DEF ObjectSound, StaysOpen
    <3>2. QED
      BY <1>3, <3>1 DEF StaysOpen, Permitted, Mapped
  <2>5. AtRest(o)'
    BY <1>5 DEF AtRest
  <2>6. QED
    BY <2>2, <2>3, <2>4, <2>5 DEF ObjectSound
<1>12. QED
  BY <1>5, <1>7, <1>8, <1>9, <1>10, <1>11, StepKeeps

\* A program, or the initialisation of a dataset, runs the code.
LEMMA RunCodeKeeps ==
    ASSUME AllocationInv, ThreadsSwitched, NEW t \in Threads, RunCode(t)
    PROVE  AllocationInv'
<1>1. "code" \in Steps /\ "return" \in Steps \cup {"return"}
  BY DEF Steps
<1>2. PICK o \in Objects : o = Obj(t)
  BY <1>1, InsideCall DEF RunCode
<1>3. /\ At(t, {"run", "init_dataset"}, "code") /\ Goto(t, "return")
      /\ UNCHANGED <<platform, flags, held, dealloc, given, ready, prot, mode, creators, refused>>
  BY DEF RunCode, Access, heap
<1>4. /\ ObjectSound(o) /\ call[t].at = "code" /\ fault = None
      /\ call[t].op \in {"run", "init_dataset"} \cap Calls
      /\ o \in given <=> call[t].op \notin Allocating
      /\ flags[o].jit /\ MayWriteAndRun(t)
  BY <1>1, <1>2, <1>3, InsideCall
<1>5. o \in given
  BY <1>4 DEF Allocating
<1>6. /\ \A u \in Threads \ {t} : Obj(u) # o /\ call'[u] = call[u]
      /\ call'[t] = Idle /\ Obj(t)' = None
      /\ call' \in [Threads -> CallRecords]
  BY <1>1, <1>2, <1>3, MoveDoes
<1>7. strayed' = IF call[t].op = "init_dataset" /\ t \in creators THEN strayed \cup {o} ELSE strayed
  BY <1>2 DEF RunCode
<1>14. fault' \in {None, o} /\ (fault' = o => o \in refused \cup strayed')
  <2>1. PICK run \in SUBSET Mapped(o) :
           fault' = IF \A p \in run : Executable(t, o, p) THEN fault ELSE o
    <3>1. Main(o) \subseteq Mapped(o)
      BY <1>4, <1>5, MainIsMapped DEF ObjectSound
    <3>2. PICK run : run = IF flags[o].kind = "light" THEN Mapped(o) ELSE Main(o)
      OBVIOUS
    <3>3. run \in SUBSET Mapped(o)
      BY <3>1, <3>2
    <3>4. QED
      BY <1>2, <3>2, <3>3 DEF RunCode, Access
  <2>2. o # None
    BY SortsAssumption DEF Objects
  <2>3. o \notin refused /\ o \notin strayed' => \A p \in run : Executable(t, o, p)
    <3>1. CASE platform = "threads" /\ mode[t] = "write"
      <4>1. t \in creators
        BY <1>4, <3>1 DEF ThreadsSwitched, Switched
      <4>2. call[t].op = "init_dataset"
        BY <1>4, <3>1 DEF MayWriteAndRun
      <4>3. QED
        BY <1>7, <4>1, <4>2
    <3>2. CASE platform = "threads" /\ mode[t] # "write"
      <4>1. mode[t] = "run"
        BY <3>2 DEF AllocationInv, TypeOK
      <4>2. QED
        BY <3>2, <4>1 DEF Executable
    <3>3. CASE platform # "threads"
      <4>1. o \notin refused => Permitted(o, {"RX", "RWX"}) /\ \A p \in Mapped(o) : prot[o][p] \in {"RX", "RWX"}
        BY <1>2, <1>4, <3>3 DEF MayWriteAndRun, Permitted
      <4>2. QED
        BY <3>3, <4>1 DEF Executable
    <3>4. QED
      BY <3>1, <3>2, <3>3
  <2>4. QED
    BY <1>4, <2>1, <2>2, <2>3
<1>8. Concerns(t, o)
  BY <1>2, <1>3, <1>6 DEF Concerns
<1>9. TypeOK'
  BY <1>3, <1>6, <1>7, <1>14 DEF AllocationInv, TypeOK, CallRecords
<1>10. FaultsOnlyIfRefused'
  BY <1>3, <1>14 DEF FaultsOnlyIfRefused
<1>11. CallSound(t)'
  BY <1>6 DEF CallSound, InCall, PartsOfTheCall, MayWriteAndRun, Idle, Allocating
<1>12. ObjectSound(o)'
  <2>1. \A p \in Parts : FreedBy(o)'[p] = FreedBy(o)[p]
    BY <1>3, SameAllocators
  <2>2. Matched(o)' /\ Closed(o)' /\ Complete(o)' /\ Sorted(o)'
    BY <1>3, <1>4, <2>1 DEF ObjectSound, Matched, Closed, Complete, Sorted, Has, Needed, Allocator
  <2>3. StaysOpen(o)'
    BY <1>3, <1>4, <1>5 DEF ObjectSound, StaysOpen, Permitted, Mapped
  <2>4. AtRest(o)'
    <3>1. SUFFICES ASSUME o \in Stores, platform = "pages"
                   PROVE  Permitted(o, {"RX"})
      BY <1>3, <1>5 DEF AtRest, Permitted, Mapped
    <3>2. Permitted(o, {"RX", "RWX"})
      BY <1>2, <1>4, <3>1 DEF MayWriteAndRun
    <3>3. \A p \in CodeParts : prot[o][p] # "RWX"
      BY <1>4, <3>1, SortsAssumption DEF ObjectSound, Closed
    <3>4. QED
      BY <3>2, <3>3 DEF Permitted, Mapped
  <2>5. QED
    BY <2>2, <2>3, <2>4 DEF ObjectSound
<1>13. QED
  BY <1>6, <1>8, <1>9, <1>10, <1>11, <1>12, StepKeeps

-----------------------------------------------------------------------------
(* The invariant, and what follows from it.                                *)

\* It holds before anything is allocated.
LEMMA InitAllocation == Init => AllocationInv
<1> SUFFICES ASSUME Init PROVE AllocationInv
  OBVIOUS
<1>1. TypeOK
  <2>1. NoFlags \in Flags /\ Idle \in CallRecords
    BY DEF NoFlags, Flags, Idle, CallRecords
  <2>2. NoParts \in [Parts -> {"new", "aligned", "large", "mapped", None}]
        /\ Unmapped \in [CodeParts -> {"RW", "RX", "RWX", "MAP_JIT", None}]
    BY DEF NoParts, Unmapped
  <2>3. QED
    BY <2>1, <2>2 DEF Init, TypeOK, CallRecords
<1>2. \A t \in Threads : call[t] = Idle /\ Obj(t) = None
  BY DEF Init, Idle, Obj
<1>3. OneCallEach
  BY <1>2 DEF OneCallEach
<1>4. ASSUME NEW t \in Threads
      PROVE  CallSound(t)
  <2>1. call[t] = Idle
    BY <1>2
  <2>2. QED
    BY <2>1 DEF CallSound, InCall, PartsOfTheCall, MayWriteAndRun, Idle, Allocating
<1>5. ASSUME NEW o \in Objects
      PROVE  ObjectSound(o)
  <2>1. /\ flags[o] = NoFlags /\ held[o] = NoParts /\ prot[o] = Unmapped
        /\ o \notin given /\ o \notin ready
    BY DEF Init
  <2>2. \A p \in Parts : held[o][p] = None
    BY <2>1 DEF NoParts
  <2>3. Matched(o) /\ Closed(o)
    BY <2>1, <2>2, NoneAssumption DEF Matched, Closed, Unmapped, Parts
  <2>4. Sorted(o) /\ StaysOpen(o)
    BY <2>1 DEF Sorted, StaysOpen, NoFlags
  <2>5. AtRest(o) /\ Complete(o)
    BY <2>1 DEF AtRest, Complete
  <2>6. QED
    BY <2>3, <2>4, <2>5 DEF ObjectSound
<1>6. FaultsOnlyIfRefused
  BY DEF Init, FaultsOnlyIfRefused
<1>7. QED
  BY <1>1, <1>3, <1>4, <1>5, <1>6 DEF AllocationInv

\* A thread that may not run code comes out of a call only with a compiler it has asked
\* pages for: enableExecution ends the generation of code.
LEMMA SwitchedKeeps ==
    ASSUME AllocationInv, ThreadsSwitched, Next
    PROVE  ThreadsSwitched'
<1>1. PICK t \in Threads :
        \/ \E c \in Stores, jit, large \in BOOLEAN : AllocCache(t, c, jit, large)
        \/ \E d \in Stores, large \in BOOLEAN : AllocDataset(t, d, large)
        \/ NewStore(t) \/ NewCompiler(t) \/ StoreMemory(t) \/ Failed(t)
        \/ \E v \in VMs, kind \in {"interpreted", "light", "full"}, large, secure, source \in BOOLEAN :
              CreateVm(t, v, kind, large, secure, source)
        \/ NewVm(t) \/ Constructor(t) \/ Scratchpad(t)
        \/ \E c \in Stores : InitCache(t, c) \/ InitDataset(t, c)
        \/ \E v \in VMs : SetCache(t, v) \/ RunProgram(t, v)
        \/ EnableWriting(t) \/ Generate(t) \/ EnableExecution(t) \/ RunCode(t)
        \/ \E o \in Objects : Release(t, o)
  BY DEF Next
<1>2. /\ mode \in [Threads -> {"write", "run"}] /\ call \in [Threads -> CallRecords]
      /\ platform \in {"pages", "threads"}
  BY PlatformsAssumption DEF AllocationInv, TypeOK, CallRecords
<1>3. platform' = platform
  BY <1>1 DEF AllocCache, AllocDataset, NewStore, NewCompiler, StoreMemory, Failed, CreateVm, NewVm,
              Constructor, Scratchpad, InitCache, InitDataset, SetCache, RunProgram, EnableWriting,
              Generate, EnableExecution, RunCode, Release
<1>4. call' = [call EXCEPT ![t] = call'[t]]
  BY <1>1, <1>2 DEF AllocCache, AllocDataset, NewStore, NewCompiler, StoreMemory, Failed, CreateVm, NewVm,
              Constructor, Scratchpad, InitCache, InitDataset, SetCache, RunProgram, EnableWriting,
              Generate, EnableExecution, RunCode, Release, Enter, Goto
<1>5. \A u \in Threads \ {t} : call'[u] = call[u]
  BY <1>2, <1>4
\* Everything else a thread does comes before it generates code or leaves it generating.
<1>6. ASSUME UNCHANGED <<mode, creators>>,
             call[t].at \in {"generate", "execution"} => call'[t].at \in {"generate", "execution"}
      PROVE  ThreadsSwitched'
  BY <1>3, <1>5, <1>6 DEF ThreadsSwitched, Switched
<1>7. CASE \/ \E c \in Stores, jit, large \in BOOLEAN : AllocCache(t, c, jit, large)
           \/ \E d \in Stores, large \in BOOLEAN : AllocDataset(t, d, large)
           \/ \E v \in VMs, kind \in {"interpreted", "light", "full"}, large, secure, source \in BOOLEAN :
                 CreateVm(t, v, kind, large, secure, source)
           \/ \E c \in Stores : InitCache(t, c) \/ InitDataset(t, c)
           \/ \E v \in VMs : SetCache(t, v) \/ RunProgram(t, v)
           \/ \E o \in Objects : Release(t, o)
  <2>1. call[t] = Idle /\ UNCHANGED <<mode, creators>>
    BY <1>7 DEF AllocCache, AllocDataset, CreateVm, InitCache, InitDataset, SetCache, RunProgram,
                Release, Enter, Freed, pages
  <2>2. QED
    BY <1>6, <2>1 DEF Idle
<1>8. CASE NewStore(t) \/ StoreMemory(t) \/ Failed(t) \/ Scratchpad(t) \/ RunCode(t)
  <2>1. call[t].at \notin {"generate", "execution"} /\ UNCHANGED <<mode, creators>>
    BY <1>8 DEF NewStore, StoreMemory, Failed, Scratchpad, RunCode, At, Freed, Access, pages
  <2>2. QED
    BY <1>6, <2>1
<1>9. CASE Generate(t)
  <2>1. UNCHANGED <<mode, creators>> /\ call' = [call EXCEPT ![t] = [@ EXCEPT !.at = "execution"]]
    BY <1>9 DEF Generate, Access, Goto
  <2>2. call'[t].at = "execution"
    BY <1>2, <2>1 DEF CallRecords
  <2>3. QED
    BY <1>6, <2>1, <2>2
<1>10. CASE NewCompiler(t) \/ NewVm(t)
  <2>1. call[t].at \notin {"generate", "execution"} /\ (SwitchToWriting(t) \/ UNCHANGED <<mode, creators>>)
    BY <1>10 DEF NewCompiler, NewVm, At, MapPages, NoPages, pages
  <2>2. CASE SwitchToWriting(t)
    <3>1. \A u \in Threads \ {t} : mode'[u] = mode[u]
      BY <1>2, <2>2 DEF SwitchToWriting
    <3>2. creators \subseteq creators' /\ (platform = "threads" => t \in creators')
      BY <2>2 DEF SwitchToWriting
    <3>3. platform = "pages" => mode'[t] = mode[t]
      BY <1>2, <2>2 DEF SwitchToWriting
    <3>4. \A u \in Threads \ {t} : Switched(u)'
      BY <1>3, <1>5, <3>1, <3>2 DEF ThreadsSwitched, Switched
    <3>5. Switched(t)'
      BY <1>2, <1>3, <3>2, <3>3 DEF ThreadsSwitched, Switched
    <3>6. QED
      BY <3>4, <3>5 DEF ThreadsSwitched
  <2>3. QED
    BY <1>6, <2>1, <2>2
<1>11. CASE Constructor(t)
  <2>1. call[t].at = "constructor" /\ UNCHANGED <<mode, creators>>
    BY <1>11 DEF Constructor, At, SetPages, pages
  <2>2. QED
    BY <1>6, <2>1
<1>12. CASE EnableWriting(t)
  <2>1. call' = [call EXCEPT ![t] = [@ EXCEPT !.at = "generate"]]
    BY <1>12 DEF EnableWriting, Goto
  <2>2. call'[t].at = "generate"
    BY <1>2, <2>1 DEF CallRecords
  <2>3. SetPages(t, Obj(t), "RW") \/ UNCHANGED <<mode, creators>>
    BY <1>12 DEF EnableWriting, pages
  <2>4. \/ platform = "threads" /\ creators' = creators /\ mode' = [mode EXCEPT ![t] = "write"]
        \/ UNCHANGED <<mode, creators>>
    BY <2>3 DEF SetPages
  <2>5. CASE platform = "threads" /\ creators' = creators /\ mode' = [mode EXCEPT ![t] = "write"]
    BY <1>2, <1>3, <1>5, <2>2, <2>5 DEF ThreadsSwitched, Switched
  <2>6. QED
    BY <1>6, <2>2, <2>4, <2>5
<1>13. CASE EnableExecution(t)
  <2>1. "execution" \in Steps /\ At(t, Generating, "execution")
    BY <1>13 DEF EnableExecution, Steps
  <2>2. Obj(t) \in Objects /\ ObjectSound(Obj(t)) /\ flags[Obj(t)].jit
    BY <2>1, InsideCall
  <2>3. CASE platform = "threads"
    <3>1. flags[Obj(t)].secure
      BY <2>2, <2>3 DEF ObjectSound, Sorted
    <3>2. mode' = [mode EXCEPT ![t] = "run"] /\ creators' = creators \ {t}
      BY <1>13, <2>3, <3>1 DEF EnableExecution, SetPages
    <3>3. QED
      BY <1>2, <1>3, <1>5, <3>2 DEF ThreadsSwitched, Switched
  <2>4. CASE platform = "pages"
    <3>1. UNCHANGED <<mode, creators>>
      BY <1>13, <2>4 DEF EnableExecution, SetPages, pages
    <3>2. QED
      BY <1>3, <2>4, <3>1 DEF ThreadsSwitched, Switched
  <2>5. QED
    BY <1>2, <2>3, <2>4
<1>14. QED
  BY <1>1, <1>7, <1>8, <1>9, <1>10, <1>11, <1>12, <1>13

\* Every step keeps both.
LEMMA NextAllocation == AllocationInv /\ ThreadsSwitched /\ [Next]_vars => AllocationInv' /\ ThreadsSwitched'
<1> SUFFICES ASSUME AllocationInv, ThreadsSwitched, [Next]_vars PROVE AllocationInv' /\ ThreadsSwitched'
  OBVIOUS
<1>1. CASE UNCHANGED vars
  <2>1. UNCHANGED <<platform, flags, held, dealloc, given, ready, prot, mode, creators, refused, strayed, fault, call>>
    BY <1>1 DEF vars, heap, pages
  <2>2. TypeOK' /\ OneCallEach' /\ FaultsOnlyIfRefused'
    BY <2>1 DEF AllocationInv, TypeOK, OneCallEach, FaultsOnlyIfRefused, Obj
  <2>3. \A t \in Threads : CallSound(t)'
    BY <2>1 DEF AllocationInv, CallSound, InCall, UsedBy, PartsOfTheCall, Has, SoFar, Needed,
                MayWriteAndRun, Permitted, Mapped, Obj
  <2>4. \A o \in Objects : ObjectSound(o)'
    BY <2>1 DEF AllocationInv, ObjectSound, Matched, FreedBy, StoreFreedBy, VmFreedBy, Allocator,
                Sorted, Closed, StaysOpen, Permitted, Mapped, AtRest, Complete, Has, Needed, Obj
  <2>5. ThreadsSwitched'
    BY <2>1 DEF ThreadsSwitched, Switched
  <2>6. QED
    BY <2>2, <2>3, <2>4, <2>5 DEF AllocationInv
<1>2. ASSUME NEW t \in Threads, NEW c \in Stores, NEW jit \in BOOLEAN, NEW large \in BOOLEAN,
             AllocCache(t, c, jit, large) \/ AllocDataset(t, c, large)
      PROVE  AllocationInv'
  <2>1. c \in Objects
    BY DEF Objects
  <2>2. PICK kind \in {"interpreted", "light", "full"}, secure \in BOOLEAN, source \in BOOLEAN : TRUE
    OBVIOUS
  <2>3. QED
    BY <1>2, <2>1, <2>2, ClientAllocates
<1>3. ASSUME NEW t \in Threads, NEW v \in VMs, NEW kind \in {"interpreted", "light", "full"},
             NEW large \in BOOLEAN, NEW secure \in BOOLEAN, NEW source \in BOOLEAN,
             CreateVm(t, v, kind, large, secure, source)
      PROVE  AllocationInv'
  <2>1. v \in Objects
    BY DEF Objects
  <2>2. QED
    BY <1>3, <2>1, ClientAllocates
<1>4. ASSUME NEW t \in Threads, NEW o \in Objects,
             \/ o \in Stores /\ (InitCache(t, o) \/ InitDataset(t, o))
             \/ o \in VMs /\ (SetCache(t, o) \/ RunProgram(t, o))
             \/ Release(t, o)
      PROVE  AllocationInv'
  BY <1>4, ClientUses, ReleaseKeeps
<1>5. ASSUME NEW t \in Threads,
             \/ NewStore(t) \/ NewCompiler(t) \/ StoreMemory(t) \/ Failed(t)
             \/ NewVm(t) \/ Constructor(t) \/ Scratchpad(t)
             \/ EnableWriting(t) \/ Generate(t) \/ EnableExecution(t) \/ RunCode(t)
      PROVE  AllocationInv'
  BY <1>5, NewStoreKeeps, NewCompilerKeeps, MemoryKeeps, FailedKeeps, NewVmKeeps, ConstructorKeeps,
     EnableWritingKeeps, GenerateKeeps, EnableExecutionKeeps, RunCodeKeeps
<1>6. Next => AllocationInv'
  BY <1>2, <1>3, <1>4, <1>5 DEF Next, Objects
<1>7. QED
  BY <1>1, <1>6, SwitchedKeeps

\* So it always holds.
LEMMA AllocationInvariant == Spec => []AllocationInv
<1>1. Init => ThreadsSwitched
  BY DEF Init, ThreadsSwitched, Switched
<1>2. QED
  BY <1>1, InitAllocation, NextAllocation, PTL DEF Spec

\* The state of every object, the calls the threads are in and the protections keep their
\* types.
THEOREM TypeCorrect == Spec => []TypeOK
<1>1. AllocationInv => TypeOK
  BY DEF AllocationInv
<1>2. QED
  BY <1>1, AllocationInvariant, PTL

\* Whichever allocation of randomx_alloc_cache, randomx_alloc_dataset or
\* randomx_create_vm fails, nothing of the object is left; otherwise it is complete.
THEOREM FailuresLeaveNothing == Spec => []AllOrNothing
<1>1. AllocationInv => AllOrNothing
  BY DEF AllocationInv, ObjectSound, Complete, Has, AtRest, AllOrNothing, Obj
<1>2. QED
  BY <1>1, AllocationInvariant, PTL

\* The process is only stopped at code whose protection the system refused, or, with
\* MAP_JIT, by a randomx_init_dataset on a thread that has asked for a compiler's pages since
\* it last enabled execution: no part goes to an allocator it did not come from, and no
\* other step writes or runs code it may not.
THEOREM RefusalsOnlyFault == Spec => []FaultsOnlyIfRefused
<1>1. AllocationInv => FaultsOnlyIfRefused
  BY DEF AllocationInv
<1>2. QED
  BY <1>1, AllocationInvariant, PTL

\* The pages of caches and of secure machines are never writable and executable, even
\* where the system refuses a protection.
THEOREM PagesNeverBoth == Spec => []NeverBoth
<1>1. AllocationInv => NeverBoth
  BY DEF AllocationInv, ObjectSound, Closed, NeverBoth
<1>2. QED
  BY <1>1, AllocationInvariant, PTL
=============================================================================
