----------------------------- MODULE RandomXApi -----------------------------
(***************************************************************************)
(* The objects behind randomx.h: caches, datasets and virtual machines,    *)
(* the pointers between them and the shortcuts the code takes.             *)
(*                                                                         *)
(* Data is abstracted to its provenance.  A block of cache memory holds    *)
(* the Argon2 fill of a key, a SuperscalarHash program list belongs to a   *)
(* key, and so does the machine code compiled from it.  What a hash or a   *)
(* dataset item depends on is the pair <<key of the cache memory, key of   *)
(* the SuperscalarHash>> it was computed from; a pair of two different     *)
(* keys is a value that belongs to no key at all.                          *)
(*                                                                         *)
(* Every call is one action: the library promises no thread safety for     *)
(* concurrent calls on one object, and callers make none.                  *)
(***************************************************************************)
EXTENDS FiniteSets, TLC

CONSTANTS
    Keys,        \* key values
    EmptyKey,    \* the key of length zero, which a fresh cacheKey equals
    Caches,      \* addresses of randomx_cache structures
    Mems,        \* addresses allocMemory returns for a cache block
    Datasets,    \* randomx_dataset structures (and their one block)
    Items,       \* item numbers of a dataset
    VMs,         \* randomx_vm structures
    Kinds,       \* the virtual machine classes in play
    ReleaseWhileBound,  \* may a client release the cache a machine points to?
    None

AllKinds == {"InterpretedLightVm", "CompiledLightVm", "InterpretedVm", "CompiledVm"}

ASSUME EmptyKeyAssumption == EmptyKey \in Keys
ASSUME KindsAssumption == Kinds \subseteq AllKinds
ASSUME ReleaseAssumption == ReleaseWhileBound \in BOOLEAN
ASSUME NoneAssumption == None \notin Keys \cup Caches \cup Mems \cup Datasets
ASSUME MemsAssumption == Mems # {}
ASSUME ItemsAssumption == Datasets # {} => Items # {}
ASSUME SortsAssumption == /\ Caches \cap Datasets = {}
                          /\ Mems \cap Datasets = {}

VARIABLES
    liveCaches,    \* allocated randomx_cache structures
    cache,         \* their fields (left behind when a structure is freed)
    content,       \* the key whose Argon2 fill a memory block holds
    liveDatasets,  \* allocated datasets
    dataset,       \* what each dataset item was computed from
    liveVms,       \* created virtual machines
    vm,            \* their fields
    hashed,        \* the last hash: machine, version, what it was computed from
    bound,         \* ghost: the cache or dataset the client gave a machine
                   \* last; None once it is re-keyed or released
    filled         \* ghost: the key the client computed each item for

vars == <<liveCaches, cache, content, liveDatasets, dataset, liveVms, vm,
          hashed, bound, filled>>

cacheVars   == <<liveCaches, cache, content>>
datasetVars == <<liveDatasets, dataset, filled>>
vmVars      == <<liveVms, vm, bound>>

-----------------------------------------------------------------------------
(* Types.                                                                  *)

OptKey == Keys \cup {None}

Light(m) == m.kind \in {"InterpretedLightVm", "CompiledLightVm"}
Compiled(m) == m.kind \in {"CompiledLightVm", "CompiledVm"}

\* <<key of the cache memory, key of the SuperscalarHash>>
Provenance == OptKey \X OptKey

Unknown == <<None, None>>

CacheRec == [jit: BOOLEAN, memory: Mems, cacheKey: Keys, programs: OptKey, code: OptKey]

VmFields == [kind: AllKinds, flagV2: BOOLEAN, compilerV2: BOOLEAN,
             cacheKey: Keys,
             ptr: Caches \cup Datasets \cup {None},     \* cachePtr / datasetPtr
             memory: Mems \cup Datasets \cup {None},    \* mem.memory
             ssh: OptKey]                   \* SuperscalarHash in the code buffer

\* cachePtr and datasetPtr are a union: a light machine never holds a dataset
\* in it, nor a full machine a cache.
VmRec == {m \in VmFields :
            m.ptr \in (IF Light(m) THEN Caches ELSE Datasets) \cup {None}}

HashRec == [vm: VMs \cup {None}, v2: BOOLEAN, from: SUBSET Provenance]

TypeOK ==
    /\ liveCaches \subseteq Caches
    /\ cache \in [Caches -> CacheRec]
    /\ content \in [Mems -> OptKey]
    /\ liveDatasets \subseteq Datasets
    /\ dataset \in [Datasets -> [Items -> Provenance]]
    /\ liveVms \subseteq VMs
    /\ vm \in [VMs -> VmRec]
    /\ hashed \in HashRec
    /\ bound \in [VMs -> Caches \cup Datasets \cup {None}]
    /\ filled \in [Datasets -> [Items -> OptKey]]

-----------------------------------------------------------------------------
(* Caches.                                                                 *)

IsInitialized(c) == cache[c].programs # None

UsableCaches == {c \in liveCaches : IsInitialized(c)}

\* The client has to hand machines whose cache or dataset s changed a new one.
Unbind(s) == bound' = [v \in VMs |-> IF bound[v] = s THEN None ELSE bound[v]]

\* The allocator hands out no block of a live cache.
FreeMem(m) == m \notin {cache[x].memory : x \in liveCaches}

\* randomx_alloc_cache, when no allocation fails.  The block comes from the
\* allocator with whatever it held before.
AllocCache(c, m, jit) ==
    /\ c \notin liveCaches
    /\ FreeMem(m)
    /\ liveCaches' = liveCaches \cup {c}
    /\ cache' = [cache EXCEPT ![c] = [jit |-> jit, memory |-> m, cacheKey |-> EmptyKey,
                                      programs |-> None, code |-> None]]
    /\ UNCHANGED <<content, datasetVars, vmVars, hashed>>

\* Mutant: the compiler keeps the code of the first key.
InitializedCompileOnce(r, key) ==
    [r EXCEPT !.cacheKey = key, !.programs = key,
              !.code = IF r.jit /\ @ = None THEN key ELSE @]

\* initCache and initCacheCompile: fill the memory, generate the programs
\* and, in a cache with a compiler, compile them.
Initialized(r, key) ==
    [r EXCEPT !.cacheKey = key, !.programs = key, !.code = IF r.jit THEN key ELSE @]

\* Mutant: the key comparison alone decides, so a fresh cache counts as
\* initialised with the empty key.
NeedsInitByKeyOnly(c, key) == cache[c].cacheKey # key

\* The test of randomx_init_cache: does the cache have to be computed?
NeedsInit(c, key) == cache[c].cacheKey # key \/ ~IsInitialized(c)

\* randomx_init_cache: nothing happens for the key the cache already has.
InitCache(c, key) ==
    /\ c \in liveCaches
    /\ NeedsInit(c, key)
    /\ content' = [content EXCEPT ![cache[c].memory] = key]
    /\ cache' = [cache EXCEPT ![c] = Initialized(@, key)]
    /\ Unbind(c)
    /\ UNCHANGED <<liveCaches, datasetVars, liveVms, vm, hashed>>

\* randomx_release_cache.  tests.cpp releases a cache while a machine still
\* points to it and attaches the machine to the next cache afterwards.
ReleaseCache(c) ==
    /\ c \in liveCaches
    /\ ReleaseWhileBound \/ \A v \in liveVms : vm[v].ptr # c
    /\ liveCaches' = liveCaches \ {c}
    /\ Unbind(c)
    /\ UNCHANGED <<cache, content, datasetVars, liveVms, vm, hashed>>

-----------------------------------------------------------------------------
(* Datasets.                                                               *)

\* randomx_alloc_dataset: the items of a fresh block are not initialised.
AllocDataset(d) ==
    /\ d \notin liveDatasets
    /\ liveDatasets' = liveDatasets \cup {d}
    /\ dataset' = [dataset EXCEPT ![d] = [i \in Items |-> Unknown]]
    /\ filled' = [filled EXCEPT ![d] = [i \in Items |-> None]]
    /\ UNCHANGED <<cacheVars, vmVars, hashed>>

\* What datasetInit of this cache computes an item from: the interpreter
\* runs the programs, the compiler's function runs the code in its buffer.
ItemFrom(c) ==
    <<content[cache[c].memory], IF cache[c].jit THEN cache[c].code ELSE cache[c].programs>>

\* randomx_init_dataset over a sequence of items.
InitDataset(d, c, range) ==
    /\ d \in liveDatasets
    /\ c \in UsableCaches
    /\ dataset' = [dataset EXCEPT ![d] = [i \in Items |-> IF i \in range THEN ItemFrom(c) ELSE @[i]]]
    /\ filled' = [filled EXCEPT ![d] = [i \in Items |-> IF i \in range THEN cache[c].cacheKey ELSE @[i]]]
    /\ UNCHANGED <<cacheVars, liveDatasets, vmVars, hashed>>

\* randomx_release_dataset.
ReleaseDataset(d) ==
    /\ d \in liveDatasets
    /\ liveDatasets' = liveDatasets \ {d}
    /\ filled' = [filled EXCEPT ![d] = [i \in Items |-> None]]
    /\ Unbind(d)
    /\ UNCHANGED <<cacheVars, dataset, liveVms, vm, hashed>>

-----------------------------------------------------------------------------
(* Virtual machines.                                                       *)

\* Mutant: a compiled machine is re-pointed without compiling the programs.
SetCacheNoCompile(m, c) ==
    IF Light(m) THEN [m EXCEPT !.ptr = c, !.memory = cache[c].memory] ELSE m

\* The virtual setCache: a light machine points to the cache, a compiled one
\* also compiles the SuperscalarHash into its own buffer; the base does nothing.
SetCache(m, c) ==
    CASE m.kind = "InterpretedLightVm" -> [m EXCEPT !.ptr = c, !.memory = cache[c].memory]
      [] m.kind = "CompiledLightVm"    -> [m EXCEPT !.ptr = c, !.memory = cache[c].memory,
                                                    !.ssh = cache[c].programs]
      [] OTHER                         -> m

\* The virtual setDataset: light machines override it with nothing.
SetDataset(m, d) ==
    CASE m.kind = "InterpretedVm" -> [m EXCEPT !.ptr = d, !.memory = d]
      [] m.kind = "CompiledVm"    -> [m EXCEPT !.ptr = d]
      [] OTHER                    -> m

CopyKey(m, c) == [m EXCEPT !.cacheKey = cache[c].cacheKey]

\* The machine as its constructor leaves it.
NewVm(kind, v2) ==
    [kind |-> kind, flagV2 |-> v2, compilerV2 |-> v2, cacheKey |-> EmptyKey,
     ptr |-> None, memory |-> None, ssh |-> None]

\* randomx_create_vm: the optional cache first, then the optional dataset;
\* allocate() refuses a machine that has neither.
CreateVm(v, kind, v2, c, d) ==
    LET m0 == NewVm(kind, v2)
        m1 == IF c # None THEN CopyKey(SetCache(m0, c), c) ELSE m0
        m2 == IF d # None THEN SetDataset(m1, d) ELSE m1
    IN  /\ v \notin liveVms
        /\ c \in UsableCaches \cup {None}
        /\ d \in liveDatasets \cup {None}
        /\ m2.ptr # None
        /\ liveVms' = liveVms \cup {v}
        /\ vm' = [vm EXCEPT ![v] = m2]
        /\ bound' = [bound EXCEPT ![v] = IF Light(m2) THEN c ELSE d]
        /\ UNCHANGED <<cacheVars, datasetVars, hashed>>

\* Mutant: equal keys are enough to skip setCache.
SameCacheByKey(m, c) == m.cacheKey = cache[c].cacheKey

\* Mutant: equal memory is enough to skip setCache.
SameCacheByMemory(m, c) == m.memory = cache[c].memory

\* The test of randomx_vm_set_cache.
SameCache(m, c) == m.cacheKey = cache[c].cacheKey /\ m.memory = cache[c].memory

\* randomx_vm_set_cache: skipped when the machine already has the key and
\* the memory of this cache.
VmSetCache(v, c) ==
    /\ v \in liveVms
    /\ Light(vm[v])
    /\ c \in UsableCaches
    /\ vm' = [vm EXCEPT ![v] =
                IF SameCache(@, c) THEN @ ELSE CopyKey(SetCache(@, c), c)]
    /\ bound' = [bound EXCEPT ![v] = c]
    /\ UNCHANGED <<cacheVars, datasetVars, liveVms, hashed>>

\* randomx_vm_set_dataset.
VmSetDataset(v, d) ==
    /\ v \in liveVms
    /\ ~Light(vm[v])
    /\ d \in liveDatasets
    /\ vm' = [vm EXCEPT ![v] = SetDataset(@, d)]
    /\ bound' = [bound EXCEPT ![v] = d]
    /\ UNCHANGED <<cacheVars, datasetVars, liveVms, hashed>>

\* The machine after setFlagV2 or clearFlagV2.
Switched(m, v2) ==
    [m EXCEPT !.flagV2 = v2, !.compilerV2 = IF Compiled(m) THEN v2 ELSE @]

\* setFlagV2 and clearFlagV2: a compiled machine forwards the flags to its
\* compiler.
SwitchVersion(v, v2) ==
    /\ v \in liveVms
    /\ vm' = [vm EXCEPT ![v] = Switched(@, v2)]
    /\ UNCHANGED <<cacheVars, datasetVars, liveVms, bound, hashed>>

\* The version of the program the machine generates and runs.
ProgramV2(m) == IF Compiled(m) THEN m.compilerV2 ELSE m.flagV2

\* randomx_destroy_vm.  Nothing points to a machine, so nobody reads what is left
\* of one: destroyed machines are all alike, but for the version they had.
DestroyVm(v) ==
    /\ v \in liveVms
    /\ liveVms' = liveVms \ {v}
    /\ bound' = [bound EXCEPT ![v] = None]
    /\ vm' = [vm EXCEPT ![v] = NewVm("InterpretedLightVm", ProgramV2(@))]
    /\ UNCHANGED <<cacheVars, datasetVars, hashed>>

-----------------------------------------------------------------------------
(* Hashing.                                                                *)

\* What the dataset reads of the next hash are computed from.  A light
\* interpreter follows cachePtr on every read, light compiled code reads
\* mem.memory and runs the SuperscalarHash in its own buffer, a full machine
\* reads the dataset.  Through a pointer to a freed object it is unknown.
CacheRead(c) ==
    IF c \in liveCaches THEN <<content[cache[c].memory], cache[c].programs>> ELSE Unknown

MemRead(m) == IF \E c \in liveCaches : cache[c].memory = m THEN content[m] ELSE None

ItemReads(d) ==
    IF d \in liveDatasets THEN {dataset[d][i] : i \in Items} ELSE {Unknown}

Reads(m) ==
    CASE m.kind = "InterpretedLightVm" -> {CacheRead(m.ptr)}
      [] m.kind = "CompiledLightVm"    -> {<<MemRead(m.memory), m.ssh>>}
      [] m.kind = "InterpretedVm"      -> ItemReads(m.memory)
      [] m.kind = "CompiledVm"         -> ItemReads(m.ptr)

\* The client may hash on v: it re-attached v after the last change, and a
\* dataset is initialised from one key throughout.
MayHash(v) ==
    /\ v \in liveVms
    /\ bound[v] # None
    /\ ~Light(vm[v]) => \E k \in Keys : \A i \in Items : filled[bound[v]][i] = k

\* randomx_calculate_hash; CompiledVm::run refreshes mem.memory.
CalculateHash(v) ==
    /\ MayHash(v)
    /\ hashed' = [vm |-> v, v2 |-> ProgramV2(vm[v]), from |-> Reads(vm[v])]
    /\ vm' = [vm EXCEPT ![v].memory = IF vm[v].kind = "CompiledVm" THEN vm[v].ptr ELSE @]
    /\ UNCHANGED <<cacheVars, datasetVars, liveVms, bound>>

-----------------------------------------------------------------------------

NoCache == [jit |-> FALSE, memory |-> CHOOSE m \in Mems : TRUE, cacheKey |-> EmptyKey,
            programs |-> None, code |-> None]

Init ==
    /\ liveCaches = {}
    /\ cache = [c \in Caches |-> NoCache]
    /\ content = [m \in Mems |-> None]
    /\ liveDatasets = {}
    /\ dataset = [d \in Datasets |-> [i \in Items |-> Unknown]]
    /\ liveVms = {}
    /\ vm = [v \in VMs |-> NewVm("InterpretedLightVm", FALSE)]
    /\ hashed = [vm |-> None, v2 |-> FALSE, from |-> {}]
    /\ bound = [v \in VMs |-> None]
    /\ filled = [d \in Datasets |-> [i \in Items |-> None]]

CacheNext ==
    \/ \E c \in Caches, m \in Mems, jit \in BOOLEAN : AllocCache(c, m, jit)
    \/ \E c \in Caches, key \in Keys : InitCache(c, key)
    \/ \E c \in Caches : ReleaseCache(c)

DatasetNext ==
    \/ \E d \in Datasets : AllocDataset(d)
    \/ \E d \in Datasets, c \in Caches, range \in SUBSET Items : InitDataset(d, c, range)
    \/ \E d \in Datasets : ReleaseDataset(d)

VmNext ==
    \/ \E v \in VMs, kind \in Kinds, v2 \in BOOLEAN,
          c \in Caches \cup {None}, d \in Datasets \cup {None} : CreateVm(v, kind, v2, c, d)
    \/ \E v \in VMs, c \in Caches : VmSetCache(v, c)
    \/ \E v \in VMs, d \in Datasets : VmSetDataset(v, d)
    \/ \E v \in VMs, v2 \in BOOLEAN : SwitchVersion(v, v2)
    \/ \E v \in VMs : DestroyVm(v)
    \/ \E v \in VMs : CalculateHash(v)

Next == CacheNext \/ DatasetNext \/ VmNext

Spec == Init /\ [][Next]_vars

-----------------------------------------------------------------------------
(* Correctness.                                                            *)

\* The early return of randomx_init_cache is sound: a cache it would leave
\* alone for this key is initialised, and its memory, its programs and its
\* compiled code all belong to the key.
CacheCoherent ==
    \A c \in liveCaches, key \in Keys : ~NeedsInit(c, key) =>
        /\ IsInitialized(c)
        /\ content[cache[c].memory] = key
        /\ cache[c].programs = key
        /\ cache[c].jit => cache[c].code = key

\* A light machine the client has attached reads the key of that cache and
\* nothing else, whichever of its calls to randomx_vm_set_cache were skipped
\* and whatever happened to the other caches since.
VmCoherent ==
    \A v \in liveVms : bound[v] # None /\ Light(vm[v]) =>
        LET key == cache[bound[v]].cacheKey IN Reads(vm[v]) = {<<key, key>>}

\* Every dataset item was computed from the one key of the cache that was
\* passed to randomx_init_dataset, by the interpreter or by compiled code.
DatasetCoherent ==
    \A d \in liveDatasets, i \in Items :
        filled[d][i] # None => dataset[d][i] = <<filled[d][i], filled[d][i]>>

\* "Reinitializes a virtual machine with a new Cache", but "does nothing if called
\* with a Cache containing the same key value as already set" (randomx.h:216-218,
\* randomx.cpp:363): a light machine attached to a cache points to that cache, also
\* after a call that did nothing.
PointsToBoundCache ==
    \A v \in liveVms : Light(vm[v]) /\ bound[v] # None => vm[v].ptr = bound[v]

\* While a machine stays attached nothing changes what it reads: no call on
\* another cache, dataset or machine, and no skipped call on its own cache.
Undisturbed ==
    [][\A v \in liveVms \cap liveVms' :
          bound[v] # None /\ bound'[v] = bound[v] /\ Light(vm[v]) => Reads(vm[v])' = Reads(vm[v])]_vars

(* The inductive invariant of a client that releases no cache a machine    *)
(* still points to.                                                        *)

\* No two live caches share a block: the memory comparison in
\* randomx_vm_set_cache identifies a cache only because of this.
DistinctBlocks ==
    \A c, x \in liveCaches : cache[c].memory = cache[x].memory => c = x

\* A light machine points to a live cache and into its block, and compiled
\* code is for the key the machine recorded.
PointersLive ==
    \A v \in liveVms : Light(vm[v]) =>
        /\ vm[v].ptr \in liveCaches
        /\ vm[v].memory = cache[vm[v].ptr].memory
        /\ Compiled(vm[v]) => vm[v].ssh = vm[v].cacheKey

\* An attached light machine points to the cache it is attached to and has
\* recorded its present key.
BoundIsCurrent ==
    \A v \in liveVms : Light(vm[v]) /\ bound[v] # None =>
        /\ bound[v] = vm[v].ptr
        /\ bound[v] \in UsableCaches
        /\ vm[v].cacheKey = cache[bound[v]].cacheKey

\* What holds for every client.
CacheInv ==
    /\ TypeOK
    /\ DistinctBlocks
    /\ CacheCoherent
    /\ DatasetCoherent

IInv ==
    /\ CacheInv
    /\ PointersLive
    /\ BoundIsCurrent

(* What has to be known of the other machines, of datasets and of versions *)
(* besides, for every hash to be the one the interface promises.           *)

\* An attached full machine points to the dataset it is attached to; the interpreter
\* does with both of its pointers.
FullIsCurrent ==
    \A v \in liveVms : ~Light(vm[v]) /\ bound[v] # None =>
        /\ bound[v] \in liveDatasets
        /\ vm[v].ptr = bound[v]
        /\ vm[v].kind = "InterpretedVm" => vm[v].memory = bound[v]

\* A compiled machine and its compiler are set to the same version.
VersionsAgree ==
    \A v \in VMs : Compiled(vm[v]) => vm[v].compilerV2 = vm[v].flagV2

\* No item of a released dataset counts as computed.
ReleasedAreEmpty ==
    \A d \in Datasets \ liveDatasets, i \in Items : filled[d][i] = None

ServiceInv ==
    /\ IInv
    /\ FullIsCurrent
    /\ VersionsAgree
    /\ ReleasedAreEmpty

\* The key and version the client sees in a hash: a hash computed from more
\* than one key, or from freed memory, has none.
HashKey ==
    IF \E k \in Keys : hashed.from = {<<k, k>>}
    THEN CHOOSE k \in Keys : hashed.from = {<<k, k>>}
    ELSE None

VersionName(v2) == IF v2 THEN "v2" ELSE "v1"

Service == INSTANCE RandomXService WITH
    keyOf   <- [c \in Caches |-> IF c \in UsableCaches THEN cache[c].cacheKey ELSE None],
    itemKey <- filled,
    source  <- bound,
    version <- [v \in VMs |-> VersionName(vm[v].flagV2)],
    result  <- [vm |-> hashed.vm, version |-> VersionName(hashed.v2), key |-> HashKey]

\* Pointers, reused memory, compiled code and the shortcuts implement the
\* interface's promise: every hash is the function of the attached key.
ImplementsService == Service!Spec

-----------------------------------------------------------------------------
(* Model checking.  Caches are interchangeable, and so are blocks: no       *)
(* action, and no safety property above, tells two of them apart.           *)
Symmetry == Permutations(Caches) \cup Permutations(Mems)
=============================================================================
