-------------------------- MODULE RandomXApiProofs --------------------------
(***************************************************************************)
(* Proofs about RandomXApi for any number of caches, blocks, datasets,     *)
(* machines and keys.                                                      *)
(***************************************************************************)
EXTENDS RandomXApi, TLAPS

USE DEF OptKey, Provenance, Unknown, VmFields, Light

LEMMA InitializedType ==
    ASSUME NEW r \in CacheRec, NEW key \in Keys
    PROVE  Initialized(r, key) \in CacheRec
BY DEF Initialized, CacheRec

LEMMA NewVmType ==
    ASSUME NEW kind \in AllKinds, NEW v2 \in BOOLEAN
    PROVE  NewVm(kind, v2) \in VmRec
BY EmptyKeyAssumption DEF NewVm, VmRec

LEMMA SetCacheType ==
    ASSUME NEW m \in VmRec, NEW c \in Caches, cache \in [Caches -> CacheRec]
    PROVE  SetCache(m, c) \in VmRec
BY DEF SetCache, VmRec, CacheRec

LEMMA SetDatasetType ==
    ASSUME NEW m \in VmRec, NEW d \in Datasets
    PROVE  SetDataset(m, d) \in VmRec
BY DEF SetDataset, VmRec

LEMMA CopyKeyType ==
    ASSUME NEW m \in VmRec, NEW c \in Caches, cache \in [Caches -> CacheRec]
    PROVE  CopyKey(m, c) \in VmRec
BY DEF CopyKey, VmRec, CacheRec

LEMMA SwitchedType ==
    ASSUME NEW m \in VmRec, NEW v2 \in BOOLEAN
    PROVE  Switched(m, v2) \in VmRec
BY DEF Switched, VmRec, Compiled

LEMMA UnbindType ==
    ASSUME bound \in [VMs -> Caches \cup Datasets \cup {None}], NEW s, Unbind(s)
    PROVE  bound' \in [VMs -> Caches \cup Datasets \cup {None}]
BY DEF Unbind

LEMMA ItemFromType ==
    ASSUME TypeOK, NEW c \in Caches
    PROVE  ItemFrom(c) \in Provenance
BY DEF TypeOK, ItemFrom, CacheRec

LEMMA ReadsType ==
    ASSUME TypeOK, NEW v \in VMs
    PROVE  Reads(vm[v]) \in SUBSET Provenance
<1>. DEFINE m == vm[v]
<1>1. m \in VmRec
  BY DEF TypeOK
<1>2. ASSUME NEW c PROVE CacheRead(c) \in Provenance
  BY DEF TypeOK, CacheRead, CacheRec
<1>3. MemRead(m.memory) \in OptKey
  BY <1>1 DEF TypeOK, MemRead, CacheRec
<1>4. ASSUME NEW d PROVE ItemReads(d) \in SUBSET Provenance
  BY DEF TypeOK, ItemReads
<1>5. m.ssh \in OptKey /\ m.kind \in AllKinds
  BY <1>1 DEF VmRec
<1>6. QED
  BY <1>2, <1>3, <1>4, <1>5 DEF Reads, AllKinds

-----------------------------------------------------------------------------
(* Type correctness.                                                       *)

LEMMA InitTypeOK == Init => TypeOK
<1>1. NoCache \in CacheRec
  BY EmptyKeyAssumption, MemsAssumption DEF NoCache, CacheRec
<1>2. NewVm("InterpretedLightVm", FALSE) \in VmRec
  BY NewVmType DEF AllKinds
<1>3. Init => hashed \in HashRec
  BY DEF Init, HashRec
<1>4. Unknown \in Provenance
  OBVIOUS
<1>5. Init => /\ cache \in [Caches -> CacheRec]
              /\ vm \in [VMs -> VmRec]
  BY <1>1, <1>2 DEF Init
<1>6. Init => /\ dataset \in [Datasets -> [Items -> Provenance]]
              /\ filled \in [Datasets -> [Items -> OptKey]]
              /\ content \in [Mems -> OptKey]
              /\ bound \in [VMs -> Caches \cup Datasets \cup {None}]
  BY <1>4 DEF Init
<1>7. Init => /\ liveCaches \subseteq Caches
              /\ liveDatasets \subseteq Datasets
              /\ liveVms \subseteq VMs
  BY DEF Init
<1>8. QED
  BY <1>3, <1>5, <1>6, <1>7 DEF TypeOK

LEMMA CacheNextTypeOK == TypeOK /\ CacheNext => TypeOK'
<1>. SUFFICES ASSUME TypeOK, CacheNext PROVE TypeOK'
  OBVIOUS
<1>. USE DEF TypeOK, datasetVars, vmVars
<1>1. ASSUME NEW c \in Caches, NEW m \in Mems, NEW jit \in BOOLEAN, AllocCache(c, m, jit)
      PROVE  TypeOK'
  BY <1>1, EmptyKeyAssumption DEF AllocCache, CacheRec
<1>2. ASSUME NEW c \in Caches, NEW key \in Keys, InitCache(c, key)
      PROVE  TypeOK'
  <2>1. Initialized(cache[c], key) \in CacheRec
    BY InitializedType
  <2>2. cache[c].memory \in Mems
    BY DEF CacheRec
  <2>3. QED
    BY <1>2, <2>1, <2>2, UnbindType DEF InitCache
<1>3. ASSUME NEW c \in Caches, ReleaseCache(c)
      PROVE  TypeOK'
  BY <1>3, UnbindType DEF ReleaseCache
<1>4. QED
  BY <1>1, <1>2, <1>3 DEF CacheNext

LEMMA DatasetNextTypeOK == TypeOK /\ DatasetNext => TypeOK'
<1>. SUFFICES ASSUME TypeOK, DatasetNext PROVE TypeOK'
  OBVIOUS
<1>. USE DEF TypeOK, cacheVars, vmVars
<1>1. ASSUME NEW d \in Datasets, AllocDataset(d)
      PROVE  TypeOK'
  BY <1>1 DEF AllocDataset
<1>2. ASSUME NEW d \in Datasets, NEW c \in Caches, NEW range \in SUBSET Items,
             InitDataset(d, c, range)
      PROVE  TypeOK'
  <2>1. ItemFrom(c) \in Provenance /\ cache[c].cacheKey \in OptKey
    BY ItemFromType DEF CacheRec
  <2>2. QED
    BY <1>2, <2>1 DEF InitDataset
<1>3. ASSUME NEW d \in Datasets, ReleaseDataset(d)
      PROVE  TypeOK'
  BY <1>3, UnbindType DEF ReleaseDataset
<1>4. QED
  BY <1>1, <1>2, <1>3 DEF DatasetNext

LEMMA VmNextTypeOK == TypeOK /\ VmNext => TypeOK'
<1>. SUFFICES ASSUME TypeOK, VmNext PROVE TypeOK'
  OBVIOUS
<1>. USE DEF TypeOK, cacheVars, datasetVars
<1>1. ASSUME NEW v \in VMs, NEW kind \in Kinds, NEW v2 \in BOOLEAN,
             NEW c \in Caches \cup {None}, NEW d \in Datasets \cup {None},
             CreateVm(v, kind, v2, c, d)
      PROVE  TypeOK'
  <2>. DEFINE m0 == NewVm(kind, v2)
              m1 == IF c # None THEN CopyKey(SetCache(m0, c), c) ELSE m0
              m2 == IF d # None THEN SetDataset(m1, d) ELSE m1
  <2>1. m0 \in VmRec
    BY NewVmType, KindsAssumption
  <2>2. m1 \in VmRec
    BY <2>1, SetCacheType, CopyKeyType
  <2>3. m2 \in VmRec
    BY <2>2, SetDatasetType
  <2>4. QED
    BY <1>1, <2>3 DEF CreateVm
<1>2. ASSUME NEW v \in VMs, NEW c \in Caches, VmSetCache(v, c)
      PROVE  TypeOK'
  <2>1. CopyKey(SetCache(vm[v], c), c) \in VmRec
    BY SetCacheType, CopyKeyType
  <2>2. QED
    BY <1>2, <2>1 DEF VmSetCache
<1>3. ASSUME NEW v \in VMs, NEW d \in Datasets, VmSetDataset(v, d)
      PROVE  TypeOK'
  BY <1>3, SetDatasetType DEF VmSetDataset
<1>4. ASSUME NEW v \in VMs, NEW v2 \in BOOLEAN, SwitchVersion(v, v2)
      PROVE  TypeOK'
  BY <1>4, SwitchedType DEF SwitchVersion
<1>5. ASSUME NEW v \in VMs, DestroyVm(v)
      PROVE  TypeOK'
  <2>1. ProgramV2(vm[v]) \in BOOLEAN
    BY DEF ProgramV2, VmRec, VmFields
  <2>2. NewVm("InterpretedLightVm", ProgramV2(vm[v])) \in VmRec
    BY <2>1, NewVmType DEF AllKinds
  <2>3. QED
    BY <1>5, <2>2 DEF DestroyVm
<1>6. ASSUME NEW v \in VMs, CalculateHash(v)
      PROVE  TypeOK'
  <2>1. vm[v] \in VmRec /\ Reads(vm[v]) \in SUBSET Provenance
    BY ReadsType
  <2>2. ProgramV2(vm[v]) \in BOOLEAN
    BY <2>1 DEF ProgramV2, VmRec
  <2>3. vm' \in [VMs -> VmRec]
    BY <1>6, <2>1 DEF CalculateHash, VmRec
  <2>4. QED
    BY <1>6, <2>1, <2>2, <2>3 DEF CalculateHash, HashRec
<1>7. QED
  BY <1>1, <1>2, <1>3, <1>4, <1>5, <1>6 DEF VmNext

\* Every field of every cache, dataset and machine keeps its type, whatever
\* calls a client makes.
THEOREM TypeCorrect == Spec => []TypeOK
<1>1. TypeOK /\ [Next]_vars => TypeOK'
  <2>1. TypeOK /\ UNCHANGED vars => TypeOK'
    BY DEF TypeOK, vars
  <2>2. QED
    BY <2>1, CacheNextTypeOK, DatasetNextTypeOK, VmNextTypeOK DEF Next
<1>2. QED
  BY <1>1, InitTypeOK, PTL DEF Spec

-----------------------------------------------------------------------------
(* Caches and datasets: CacheInv is inductive for every client.            *)

\* A usable cache, at its own key, is left alone by randomx_init_cache.
LEMMA UsableIsOneKey ==
    ASSUME TypeOK, CacheCoherent, NEW c \in UsableCaches
    PROVE  /\ c \in liveCaches /\ c \in Caches
           /\ cache[c].cacheKey \in Keys
           /\ content[cache[c].memory] = cache[c].cacheKey
           /\ cache[c].programs = cache[c].cacheKey
           /\ cache[c].jit => cache[c].code = cache[c].cacheKey
<1>1. c \in liveCaches /\ c \in Caches /\ IsInitialized(c)
  BY DEF UsableCaches, TypeOK
<1>2. cache[c].cacheKey \in Keys
  BY <1>1 DEF TypeOK, CacheRec
<1>3. ~NeedsInit(c, cache[c].cacheKey)
  BY <1>1 DEF NeedsInit
<1>4. QED
  BY <1>1, <1>2, <1>3 DEF CacheCoherent

LEMMA AllocCacheKeepsInv ==
    ASSUME CacheInv, NEW c \in Caches, NEW m \in Mems, NEW jit \in BOOLEAN,
           AllocCache(c, m, jit)
    PROVE  /\ DistinctBlocks' /\ CacheCoherent' /\ DatasetCoherent'
           /\ \A x \in liveCaches : x \in liveCaches' /\ cache'[x] = cache[x]
<1>. USE DEF CacheInv, AllocCache, datasetVars, TypeOK
<1>1. /\ c \notin liveCaches /\ liveCaches' = liveCaches \cup {c}
      /\ \A x \in liveCaches : cache'[x] = cache[x] /\ cache[x].memory # m
      /\ cache'[c].memory = m /\ cache'[c].programs = None
  BY DEF FreeMem
<1>2. DistinctBlocks'
  BY <1>1 DEF DistinctBlocks
<1>3. CacheCoherent'
  BY <1>1 DEF CacheCoherent, NeedsInit, IsInitialized
<1>4. DatasetCoherent'
  BY DEF DatasetCoherent
<1>5. QED
  BY <1>1, <1>2, <1>3, <1>4

LEMMA InitCacheKeepsInv ==
    ASSUME CacheInv, NEW c \in Caches, NEW key \in Keys, InitCache(c, key)
    PROVE  /\ DistinctBlocks' /\ CacheCoherent' /\ DatasetCoherent'
           /\ cache'[c].memory = cache[c].memory
           /\ \A x \in Caches \ {c} : cache'[x] = cache[x]
<1>. USE DEF CacheInv, InitCache, datasetVars, TypeOK
<1>0. cache[c] \in CacheRec /\ c \in liveCaches
  OBVIOUS
<1>1. /\ cache'[c].memory = cache[c].memory /\ cache'[c].jit = cache[c].jit
      /\ cache'[c].cacheKey = key /\ cache'[c].programs = key
      /\ cache'[c].jit => cache'[c].code = key
      /\ \A x \in Caches \ {c} : cache'[x] = cache[x]
  BY <1>0 DEF Initialized, CacheRec
<1>2. DistinctBlocks'
  BY <1>1 DEF DistinctBlocks
<1>3. /\ content'[cache[c].memory] = key
      /\ \A x \in liveCaches \ {c} : content'[cache[x].memory] = content[cache[x].memory]
  BY <1>0 DEF DistinctBlocks, CacheRec
<1>4. CacheCoherent'
  BY <1>1, <1>3, NoneAssumption DEF CacheCoherent, NeedsInit, IsInitialized
<1>5. DatasetCoherent'
  BY DEF DatasetCoherent
<1>6. QED
  BY <1>1, <1>2, <1>4, <1>5

LEMMA ReleaseCacheKeepsInv ==
    ASSUME CacheInv, NEW c \in Caches, ReleaseCache(c)
    PROVE  DistinctBlocks' /\ CacheCoherent' /\ DatasetCoherent'
BY DEF CacheInv, ReleaseCache, datasetVars, DistinctBlocks, CacheCoherent, NeedsInit,
       IsInitialized, DatasetCoherent

LEMMA DatasetNextKeepsInv ==
    ASSUME CacheInv, DatasetNext
    PROVE  DistinctBlocks' /\ CacheCoherent' /\ DatasetCoherent'
<1>. USE DEF CacheInv, TypeOK
<1>1. UNCHANGED <<liveCaches, cache, content>>
  BY DEF DatasetNext, AllocDataset, InitDataset, ReleaseDataset, cacheVars
<1>2. DistinctBlocks' /\ CacheCoherent'
  BY <1>1 DEF DistinctBlocks, CacheCoherent, NeedsInit, IsInitialized
<1>3. ASSUME NEW d \in Datasets, AllocDataset(d)
      PROVE  DatasetCoherent'
  BY <1>3 DEF AllocDataset, DatasetCoherent
<1>4. ASSUME NEW d \in Datasets, NEW c \in Caches, NEW range \in SUBSET Items,
             InitDataset(d, c, range)
      PROVE  DatasetCoherent'
  <2>1. ItemFrom(c) = <<cache[c].cacheKey, cache[c].cacheKey>>
    BY <1>4, UsableIsOneKey DEF InitDataset, ItemFrom
  <2>2. QED
    BY <1>4, <2>1 DEF InitDataset, DatasetCoherent
<1>5. ASSUME NEW d \in Datasets, ReleaseDataset(d)
      PROVE  DatasetCoherent'
  BY <1>5 DEF ReleaseDataset, DatasetCoherent
<1>6. QED
  BY <1>2, <1>3, <1>4, <1>5 DEF DatasetNext

LEMMA VmNextKeepsInv ==
    ASSUME CacheInv, VmNext
    PROVE  DistinctBlocks' /\ CacheCoherent' /\ DatasetCoherent' /\ UNCHANGED cacheVars
<1>1. UNCHANGED <<cacheVars, datasetVars>>
  BY DEF VmNext, CreateVm, VmSetCache, VmSetDataset, SwitchVersion, DestroyVm, CalculateHash
<1>2. QED
  BY <1>1 DEF CacheInv, cacheVars, datasetVars, DistinctBlocks, CacheCoherent, NeedsInit,
              IsInitialized, DatasetCoherent

LEMMA CacheInvStep == CacheInv /\ [Next]_vars => CacheInv'
<1>. SUFFICES ASSUME CacheInv, [Next]_vars PROVE CacheInv'
  OBVIOUS
<1>1. CASE CacheNext
  BY <1>1, CacheNextTypeOK, AllocCacheKeepsInv, InitCacheKeepsInv, ReleaseCacheKeepsInv
  DEF CacheNext, CacheInv
<1>2. CASE DatasetNext
  BY <1>2, DatasetNextTypeOK, DatasetNextKeepsInv DEF CacheInv
<1>3. CASE VmNext
  BY <1>3, VmNextTypeOK, VmNextKeepsInv DEF CacheInv
<1>4. CASE UNCHANGED vars
  BY <1>4 DEF vars, CacheInv, TypeOK, DistinctBlocks, CacheCoherent, NeedsInit, IsInitialized,
              DatasetCoherent
<1>5. QED
  BY <1>1, <1>2, <1>3, <1>4 DEF Next

LEMMA InitCacheInv == Init => CacheInv
BY InitTypeOK DEF Init, CacheInv, DistinctBlocks, CacheCoherent, DatasetCoherent

\* For every client, the early return of randomx_init_cache is sound.
THEOREM SkippedInitIsRedundant == Spec => []CacheCoherent
<1>1. CacheInv => CacheCoherent
  BY DEF CacheInv
<1>2. QED
  BY <1>1, InitCacheInv, CacheInvStep, PTL DEF Spec

\* For every client, dataset items belong to the key of the cache they were
\* requested from, computed by the interpreter or by compiled code.
THEOREM DatasetItemsHaveOneKey == Spec => []DatasetCoherent
<1>1. CacheInv => DatasetCoherent
  BY DEF CacheInv
<1>2. QED
  BY <1>1, InitCacheInv, CacheInvStep, PTL DEF Spec

-----------------------------------------------------------------------------
(* Attached machines.  VmCoherent says nothing about machines the client   *)
(* has not re-attached, but a later call to randomx_vm_set_cache may be    *)
(* skipped for one of those, and is right to be only if the machine still  *)
(* points into a live block of its own: PointersLive strengthens it.       *)

LEMMA CacheNextKeeps ==
    ASSUME IInv, ~ReleaseWhileBound, CacheNext
    PROVE  PointersLive' /\ BoundIsCurrent'
<1>. USE DEF IInv, CacheInv, TypeOK
<1>1. ASSUME NEW c \in Caches, NEW m \in Mems, NEW jit \in BOOLEAN, AllocCache(c, m, jit)
      PROVE  PointersLive' /\ BoundIsCurrent'
  <2>1. \A x \in liveCaches : x \in liveCaches' /\ cache'[x] = cache[x]
    BY <1>1, AllocCacheKeepsInv
  <2>2. QED
    BY <1>1, <2>1 DEF AllocCache, vmVars, PointersLive, BoundIsCurrent, UsableCaches, IsInitialized
<1>2. ASSUME NEW c \in Caches, NEW key \in Keys, InitCache(c, key)
      PROVE  PointersLive' /\ BoundIsCurrent'
  <2>1. /\ cache'[c].memory = cache[c].memory
        /\ \A x \in Caches \ {c} : cache'[x] = cache[x]
    BY <1>2, InitCacheKeepsInv
  <2>2. \A v \in VMs : bound'[v] # None => bound'[v] = bound[v] /\ bound'[v] # c
    BY <1>2 DEF InitCache, Unbind
  <2>3. PointersLive'
    BY <1>2, <2>1 DEF InitCache, PointersLive
  <2>4. BoundIsCurrent'
    BY <1>2, <2>1, <2>2 DEF InitCache, BoundIsCurrent, UsableCaches, IsInitialized
  <2>5. QED
    BY <2>3, <2>4
<1>3. ASSUME NEW c \in Caches, ReleaseCache(c)
      PROVE  PointersLive' /\ BoundIsCurrent'
  <2>1. \A v \in VMs : bound'[v] # None => bound'[v] = bound[v] /\ bound'[v] # c
    BY <1>3 DEF ReleaseCache, Unbind
  <2>2. QED
    BY <1>3, <2>1 DEF ReleaseCache, PointersLive, BoundIsCurrent, UsableCaches, IsInitialized
<1>4. QED
  BY <1>1, <1>2, <1>3 DEF CacheNext

\* No call on a dataset touches a cache or a light machine.
LEMMA DatasetNextKeeps ==
    ASSUME IInv, DatasetNext
    PROVE  PointersLive' /\ BoundIsCurrent'
<1>. USE DEF IInv, CacheInv, TypeOK
<1>1. UNCHANGED <<liveCaches, cache, content, liveVms, vm>>
  BY DEF DatasetNext, AllocDataset, InitDataset, ReleaseDataset, cacheVars, vmVars
<1>2. \A v \in VMs : bound'[v] # None => bound'[v] = bound[v]
  BY DEF DatasetNext, AllocDataset, InitDataset, ReleaseDataset, vmVars, Unbind
<1>3. PointersLive'
  BY <1>1 DEF PointersLive
<1>4. BoundIsCurrent'
  BY <1>1, <1>2 DEF BoundIsCurrent, UsableCaches, IsInitialized
<1>5. QED
  BY <1>3, <1>4

\* What PointersLive and BoundIsCurrent ask of one machine.
VmOK(m, b) ==
    Light(m) =>
        /\ m.ptr \in liveCaches
        /\ m.memory = cache[m.ptr].memory
        /\ Compiled(m) => m.ssh = m.cacheKey
        /\ b # None => /\ b = m.ptr
                       /\ b \in UsableCaches
                       /\ m.cacheKey = cache[b].cacheKey

\* setCache followed by the copy of the key, on any machine.
LEMMA SetCacheOK ==
    ASSUME IInv, NEW m \in VmRec, NEW c \in UsableCaches
    PROVE  LET n == CopyKey(SetCache(m, c), c)
           IN  n \in VmRec /\ n.kind = m.kind /\ VmOK(n, c)
<1>. DEFINE s == SetCache(m, c)
            n == CopyKey(s, c)
<1>1. /\ c \in liveCaches /\ c \in Caches /\ cache[c] \in CacheRec
      /\ cache[c].programs = cache[c].cacheKey
  BY UsableIsOneKey DEF IInv, CacheInv, TypeOK
<1>2. s \in VmRec /\ n \in VmRec
  BY <1>1, SetCacheType, CopyKeyType DEF IInv, CacheInv, TypeOK
<1>3. s.kind = m.kind /\ n.kind = m.kind
  BY <1>1 DEF SetCache, CopyKey, VmRec
<1>4. Light(m) => /\ s.ptr = c /\ s.memory = cache[c].memory
                  /\ Compiled(m) => s.ssh = cache[c].programs
  BY DEF SetCache, VmRec, Compiled
<1>5. /\ n.ptr = s.ptr /\ n.memory = s.memory /\ n.ssh = s.ssh
      /\ n.cacheKey = cache[c].cacheKey
  BY <1>2 DEF CopyKey, VmRec
<1>6. QED
  BY <1>1, <1>2, <1>3, <1>4, <1>5 DEF VmOK, Compiled

\* A step that changes one machine and no cache keeps the invariant if the
\* new machine is in order.
LEMMA OneVmKeeps ==
    ASSUME IInv, UNCHANGED cacheVars, NEW v \in VMs,
           liveVms' \subseteq liveVms \cup {v},
           vm' \in [VMs -> VmRec], \A w \in VMs \ {v} : vm'[w] = vm[w] /\ bound'[w] = bound[w],
           v \in liveVms' => VmOK(vm'[v], bound'[v])
    PROVE  PointersLive' /\ BoundIsCurrent'
<1>. USE DEF IInv, CacheInv, TypeOK, cacheVars
<1>1. UsableCaches' = UsableCaches
  BY DEF UsableCaches, IsInitialized
<1>2. PointersLive'
  BY DEF PointersLive, VmOK, Compiled
<1>3. BoundIsCurrent'
  BY <1>1 DEF BoundIsCurrent, VmOK
<1>4. QED
  BY <1>2, <1>3

LEMMA VmNextKeeps ==
    ASSUME IInv, VmNext
    PROVE  PointersLive' /\ BoundIsCurrent'
<1>0. vm' \in [VMs -> VmRec]
  BY VmNextTypeOK DEF IInv, CacheInv, TypeOK
<1>. USE DEF IInv, CacheInv, TypeOK, datasetVars
<1>1. ASSUME NEW v \in VMs, NEW kind \in Kinds, NEW v2 \in BOOLEAN,
             NEW c \in Caches \cup {None}, NEW d \in Datasets \cup {None},
             CreateVm(v, kind, v2, c, d)
      PROVE  PointersLive' /\ BoundIsCurrent'
  <2>. DEFINE m0 == NewVm(kind, v2)
              m1 == IF c # None THEN CopyKey(SetCache(m0, c), c) ELSE m0
              m2 == IF d # None THEN SetDataset(m1, d) ELSE m1
  <2>1. m0 \in VmRec /\ m0.ptr = None
    BY NewVmType, KindsAssumption DEF NewVm
  <2>2. /\ c # None => c \in UsableCaches
        /\ m2.ptr # None
        /\ vm'[v] = m2 /\ bound'[v] = (IF Light(m2) THEN c ELSE d)
    BY <1>1 DEF CreateVm
  <2>3. m1 \in VmRec /\ m1.kind = m0.kind
    BY <2>1, <2>2, SetCacheOK
  <2>4. m2.kind = m1.kind /\ (Light(m1) => m2 = m1)
    BY <2>3 DEF SetDataset, VmRec
  <2>5. Light(m2) => c # None
    BY <2>1, <2>2, <2>4
  <2>6. VmOK(m2, bound'[v])
    BY <2>1, <2>2, <2>4, <2>5, SetCacheOK DEF VmOK
  <2>7. QED
    BY <1>0, <1>1, <2>2, <2>6, OneVmKeeps DEF CreateVm
<1>2. ASSUME NEW v \in VMs, NEW c \in Caches, VmSetCache(v, c)
      PROVE  PointersLive' /\ BoundIsCurrent'
  <2>. DEFINE n == CopyKey(SetCache(vm[v], c), c)
  <2>1. v \in liveVms /\ Light(vm[v]) /\ c \in UsableCaches /\ c \in liveCaches
    BY <1>2 DEF VmSetCache, UsableCaches
  <2>2. bound'[v] = c /\ c # None
    BY <1>2, NoneAssumption DEF VmSetCache
  <2>3. CASE SameCache(vm[v], c)
    <3>1. vm[v].ptr = c
      BY <2>1, <2>3 DEF SameCache, PointersLive, DistinctBlocks
    <3>2. vm'[v] = vm[v]
      BY <1>2, <2>3 DEF VmSetCache
    <3>3. VmOK(vm[v], c)
      BY <2>1, <2>3, <3>1 DEF VmOK, SameCache, PointersLive
    <3>4. QED
      BY <1>0, <1>2, <2>2, <3>2, <3>3, OneVmKeeps DEF VmSetCache
  <2>4. CASE ~SameCache(vm[v], c)
    <3>1. vm'[v] = n
      BY <1>2, <2>4 DEF VmSetCache
    <3>2. VmOK(n, c)
      BY <2>1, SetCacheOK
    <3>3. QED
      BY <1>0, <1>2, <2>2, <3>1, <3>2, OneVmKeeps DEF VmSetCache
  <2>5. QED
    BY <2>3, <2>4
<1>3. ASSUME NEW v \in VMs, NEW d \in Datasets, VmSetDataset(v, d)
      PROVE  PointersLive' /\ BoundIsCurrent'
  <2>1. ~Light(vm'[v])
    BY <1>3 DEF VmSetDataset, SetDataset, VmRec
  <2>2. QED
    BY <1>0, <1>3, <2>1, OneVmKeeps DEF VmSetDataset, VmOK
<1>4. ASSUME NEW v \in VMs, NEW v2 \in BOOLEAN, SwitchVersion(v, v2)
      PROVE  PointersLive' /\ BoundIsCurrent'
  <2>. DEFINE n == Switched(vm[v], v2)
  <2>1. /\ v \in liveVms /\ vm'[v] = n /\ bound'[v] = bound[v]
        /\ n.kind = vm[v].kind /\ n.ptr = vm[v].ptr /\ n.memory = vm[v].memory
        /\ n.ssh = vm[v].ssh /\ n.cacheKey = vm[v].cacheKey
    BY <1>4 DEF SwitchVersion, Switched, VmRec
  <2>2. VmOK(n, bound[v])
    BY <2>1 DEF VmOK, PointersLive, BoundIsCurrent, Compiled
  <2>3. QED
    BY <1>0, <1>4, <2>1, <2>2, OneVmKeeps DEF SwitchVersion
<1>5. ASSUME NEW v \in VMs, DestroyVm(v)
      PROVE  PointersLive' /\ BoundIsCurrent'
  BY <1>0, <1>5, OneVmKeeps DEF DestroyVm
<1>6. ASSUME NEW v \in VMs, CalculateHash(v)
      PROVE  PointersLive' /\ BoundIsCurrent'
  <2>1. v \in liveVms /\ bound'[v] = bound[v] /\ vm'[v].kind = vm[v].kind
    BY <1>6 DEF CalculateHash, MayHash, VmRec
  <2>2. Light(vm[v]) => vm'[v] = vm[v]
    BY <1>6 DEF CalculateHash, VmRec
  <2>3. VmOK(vm'[v], bound[v])
    BY <2>1, <2>2 DEF VmOK, PointersLive, BoundIsCurrent
  <2>4. QED
    BY <1>0, <1>6, <2>1, <2>3, OneVmKeeps DEF CalculateHash
<1>7. QED
  BY <1>1, <1>2, <1>3, <1>4, <1>5, <1>6 DEF VmNext

\* What the invariant says of hashing: see VmCoherent.
LEMMA IInvImpliesVmCoherent == IInv => VmCoherent
<1>. SUFFICES ASSUME IInv, NEW v \in liveVms, bound[v] # None, Light(vm[v])
              PROVE  Reads(vm[v]) = {<<cache[bound[v]].cacheKey, cache[bound[v]].cacheKey>>}
  BY DEF VmCoherent
<1>. DEFINE c == vm[v].ptr
            key == cache[c].cacheKey
<1>1. bound[v] = c /\ c \in UsableCaches /\ vm[v].cacheKey = key
  BY DEF IInv, BoundIsCurrent
<1>2. /\ c \in liveCaches /\ content[cache[c].memory] = key /\ cache[c].programs = key
  BY <1>1, UsableIsOneKey DEF IInv, CacheInv
<1>3. vm[v].memory = cache[c].memory /\ (Compiled(vm[v]) => vm[v].ssh = key)
  BY <1>1 DEF IInv, PointersLive
<1>4. CASE vm[v].kind = "InterpretedLightVm"
  BY <1>1, <1>2, <1>4 DEF Reads, CacheRead
<1>5. CASE vm[v].kind = "CompiledLightVm"
  BY <1>1, <1>2, <1>3, <1>5 DEF Reads, MemRead, Compiled
<1>6. QED
  BY <1>4, <1>5

LEMMA InductiveInvariant ==
    ASSUME ~ReleaseWhileBound
    PROVE  Spec => []IInv
<1>1. Init => IInv
  BY InitCacheInv DEF Init, IInv, PointersLive, BoundIsCurrent
<1>2. IInv /\ [Next]_vars => IInv'
  <2>. SUFFICES ASSUME IInv, [Next]_vars PROVE IInv'
    OBVIOUS
  <2>1. CacheInv'
    BY CacheInvStep DEF IInv
  <2>2. CASE CacheNext
    BY <2>1, <2>2, CacheNextKeeps DEF IInv
  <2>3. CASE DatasetNext
    BY <2>1, <2>3, DatasetNextKeeps DEF IInv
  <2>4. CASE VmNext
    BY <2>1, <2>4, VmNextKeeps DEF IInv
  <2>5. CASE UNCHANGED vars
    BY <2>1, <2>5 DEF vars, IInv, PointersLive, BoundIsCurrent, UsableCaches, IsInitialized
  <2>6. QED
    BY <2>2, <2>3, <2>4, <2>5 DEF Next
<1>3. QED
  BY <1>1, <1>2, PTL DEF Spec

\* A client that releases no cache a machine still points to always hashes
\* with the key of the cache it attached: the calls randomx_vm_set_cache and
\* randomx_init_cache skip are redundant.
THEOREM AttachedVmReadsItsKey ==
    ASSUME ~ReleaseWhileBound
    PROVE  Spec => []VmCoherent
BY InductiveInvariant, IInvImpliesVmCoherent, PTL

\* For the same client, an attached machine points to the cache it is
\* attached to, skipped call or not.
THEOREM AttachedVmPointsToItsCache ==
    ASSUME ~ReleaseWhileBound
    PROVE  Spec => []PointsToBoundCache
<1>1. IInv => PointsToBoundCache
  BY DEF IInv, BoundIsCurrent, PointsToBoundCache
<1>2. QED
  BY <1>1, InductiveInvariant, PTL

-----------------------------------------------------------------------------
(* Steps of an attached machine.                                           *)

\* No call changes the class of a machine that exists before and after it.
LEMMA KindIsForLife ==
    ASSUME TypeOK, [Next]_vars, NEW v \in liveVms \cap liveVms'
    PROVE  vm'[v].kind = vm[v].kind
<1>. USE DEF TypeOK
<1>1. v \in VMs /\ vm[v] \in VmRec
  OBVIOUS
<1>2. ASSUME NEW w \in VMs, NEW c \in Caches, VmSetCache(w, c)
      PROVE  vm'[v].kind = vm[v].kind
  BY <1>1, <1>2 DEF VmSetCache, SetCache, CopyKey, VmRec
<1>3. ASSUME NEW w \in VMs, NEW d \in Datasets, VmSetDataset(w, d)
      PROVE  vm'[v].kind = vm[v].kind
  BY <1>1, <1>3 DEF VmSetDataset, SetDataset, VmRec
<1>4. ASSUME NEW w \in VMs, NEW v2 \in BOOLEAN, SwitchVersion(w, v2)
      PROVE  vm'[v].kind = vm[v].kind
  BY <1>1, <1>4 DEF SwitchVersion, Switched, VmRec
<1>5. ASSUME NEW w \in VMs, CalculateHash(w)
      PROVE  vm'[v].kind = vm[v].kind
  BY <1>1, <1>5 DEF CalculateHash, VmRec
<1>6. CASE VmNext
  BY <1>1, <1>2, <1>3, <1>4, <1>5, <1>6 DEF VmNext, CreateVm, DestroyVm
<1>7. CASE CacheNext \/ DatasetNext \/ UNCHANGED vars
  BY <1>7 DEF CacheNext, DatasetNext, AllocCache, InitCache, ReleaseCache, AllocDataset,
              InitDataset, ReleaseDataset, vmVars, vars
<1>8. QED
  BY <1>6, <1>7 DEF Next

\* The cache a light machine stays attached to is not re-keyed.
LEMMA AttachedKeyStays ==
    ASSUME IInv, [Next]_vars, NEW v \in liveVms, Light(vm[v]), bound[v] # None,
           bound'[v] = bound[v]
    PROVE  cache'[bound[v]] = cache[bound[v]]
<1>. USE DEF IInv, CacheInv, TypeOK
<1>1. v \in VMs /\ bound[v] \in liveCaches /\ bound[v] \in Caches
  BY DEF BoundIsCurrent, UsableCaches
<1>2. ASSUME NEW c \in Caches, NEW m \in Mems, NEW jit \in BOOLEAN, AllocCache(c, m, jit)
      PROVE  cache'[bound[v]] = cache[bound[v]]
  BY <1>1, <1>2, AllocCacheKeepsInv
<1>3. ASSUME NEW c \in Caches, NEW key \in Keys, InitCache(c, key)
      PROVE  cache'[bound[v]] = cache[bound[v]]
  <2>1. bound[v] # c
    BY <1>1, <1>3 DEF InitCache, Unbind
  <2>2. QED
    BY <1>1, <1>3, <2>1, InitCacheKeepsInv
<1>4. CASE CacheNext
  BY <1>2, <1>3, <1>4 DEF CacheNext, ReleaseCache
<1>5. CASE DatasetNext
  BY <1>5 DEF DatasetNext, AllocDataset, InitDataset, ReleaseDataset, cacheVars
<1>6. CASE VmNext
  BY <1>6, VmNextKeepsInv DEF cacheVars
<1>7. QED
  BY <1>4, <1>5, <1>6 DEF Next, vars

\* While a light machine stays attached no call, on whichever object, changes
\* what it reads: its cache keeps its key, and it reads that key before and
\* after.
THEOREM AttachedVmIsUndisturbed ==
    ASSUME ~ReleaseWhileBound
    PROVE  Spec => Undisturbed
<1>1. ASSUME IInv, IInv', [Next]_vars, NEW v \in liveVms \cap liveVms',
             bound[v] # None, bound'[v] = bound[v], Light(vm[v])
      PROVE  Reads(vm[v])' = Reads(vm[v])
  <2>. DEFINE key == cache[bound[v]].cacheKey
  <2>1. Reads(vm[v]) = {<<key, key>>}
    BY <1>1, IInvImpliesVmCoherent DEF VmCoherent
  <2>2. vm'[v].kind = vm[v].kind
    BY <1>1, KindIsForLife DEF IInv, CacheInv
  <2>3. VmCoherent'
    BY <1>1, IInvImpliesVmCoherent, PTL
  <2>4. Reads(vm[v])' = {<<cache'[bound'[v]].cacheKey, cache'[bound'[v]].cacheKey>>}
    BY <1>1, <2>2, <2>3 DEF VmCoherent
  <2>5. cache'[bound[v]] = cache[bound[v]]
    BY <1>1, AttachedKeyStays
  <2>6. QED
    BY <1>1, <2>1, <2>4, <2>5
<1>2. IInv /\ IInv' /\ [Next]_vars
      => [\A v \in liveVms \cap liveVms' :
            bound[v] # None /\ bound'[v] = bound[v] /\ Light(vm[v])
            => Reads(vm[v])' = Reads(vm[v])]_vars
  BY <1>1
<1>3. QED
  BY <1>2, InductiveInvariant, PTL DEF Spec, Undisturbed

-----------------------------------------------------------------------------
(* Full machines, versions and released datasets.                          *)

\* What FullIsCurrent and VersionsAgree ask of one machine.
FullOK(m, b) ==
    ~Light(m) /\ b # None =>
        /\ b \in liveDatasets
        /\ m.ptr = b
        /\ m.kind = "InterpretedVm" => m.memory = b

VersionOK(m) == Compiled(m) => m.compilerV2 = m.flagV2

\* Attaching a machine leaves its class and versions alone, and setCache does
\* nothing to a full one.
LEMMA SetCacheKeeps ==
    ASSUME TypeOK, NEW m \in VmRec, NEW c \in Caches
    PROVE  LET n == CopyKey(SetCache(m, c), c)
           IN  /\ n.kind = m.kind /\ n.flagV2 = m.flagV2 /\ n.compilerV2 = m.compilerV2
               /\ ~Light(m) => n.ptr = m.ptr /\ n.memory = m.memory
<1>. DEFINE s == SetCache(m, c)
            n == CopyKey(s, c)
<1>1. s \in VmRec
  BY SetCacheType DEF TypeOK
<1>2. /\ s.kind = m.kind /\ s.flagV2 = m.flagV2 /\ s.compilerV2 = m.compilerV2
      /\ ~Light(m) => s.ptr = m.ptr /\ s.memory = m.memory
  BY DEF SetCache, VmRec
<1>3. /\ n.kind = s.kind /\ n.flagV2 = s.flagV2 /\ n.compilerV2 = s.compilerV2
      /\ n.ptr = s.ptr /\ n.memory = s.memory
  BY <1>1 DEF CopyKey, VmRec
<1>4. QED
  BY <1>2, <1>3

LEMMA SetDatasetKeeps ==
    ASSUME NEW m \in VmRec, NEW d
    PROVE  LET n == SetDataset(m, d)
           IN  /\ n.kind = m.kind /\ n.flagV2 = m.flagV2 /\ n.compilerV2 = m.compilerV2
               /\ Light(m) => n = m
BY DEF SetDataset, VmRec

LEMMA SetDatasetOK ==
    ASSUME NEW m \in VmRec, NEW d \in liveDatasets
    PROVE  FullOK(SetDataset(m, d), d)
BY DEF SetDataset, VmRec, AllKinds, FullOK

\* A step that changes one machine and no dataset keeps the invariant if the
\* new machine is in order.
LEMMA OneFullVmKeeps ==
    ASSUME ServiceInv, UNCHANGED datasetVars, NEW v \in VMs,
           liveVms' \subseteq liveVms \cup {v}, liveVms' \subseteq VMs,
           \A w \in VMs \ {v} : vm'[w] = vm[w] /\ bound'[w] = bound[w],
           v \in liveVms' => FullOK(vm'[v], bound'[v]),
           VersionOK(vm'[v])
    PROVE  FullIsCurrent' /\ VersionsAgree' /\ ReleasedAreEmpty'
<1>. USE DEF ServiceInv, datasetVars
<1>1. FullIsCurrent'
  BY DEF FullIsCurrent, FullOK
<1>2. VersionsAgree'
  BY DEF VersionsAgree, VersionOK, Compiled
<1>3. ReleasedAreEmpty'
  BY DEF ReleasedAreEmpty
<1>4. QED
  BY <1>1, <1>2, <1>3

\* The machine randomx_create_vm returns has the version asked for and is
\* attached to a cache or a dataset of its class.
LEMMA CreatedVm ==
    ASSUME ServiceInv, NEW v \in VMs, NEW kind \in Kinds, NEW v2 \in BOOLEAN,
           NEW c \in Caches \cup {None}, NEW d \in Datasets \cup {None},
           CreateVm(v, kind, v2, c, d)
    PROVE  /\ vm'[v].flagV2 = v2 /\ vm'[v].compilerV2 = v2
           /\ FullOK(vm'[v], bound'[v])
           /\ bound'[v] \in UsableCaches \cup liveDatasets
<1>. USE DEF ServiceInv, IInv, CacheInv
<1>. DEFINE m0 == NewVm(kind, v2)
            m1 == IF c # None THEN CopyKey(SetCache(m0, c), c) ELSE m0
            m2 == IF d # None THEN SetDataset(m1, d) ELSE m1
<1>1. /\ c # None => c \in UsableCaches /\ c \in Caches
      /\ d # None => d \in liveDatasets
      /\ m2.ptr # None /\ vm'[v] = m2 /\ bound'[v] = (IF Light(m2) THEN c ELSE d)
  BY DEF CreateVm, TypeOK
<1>2. m0 \in VmRec /\ m0.ptr = None /\ m0.flagV2 = v2 /\ m0.compilerV2 = v2
  BY NewVmType, KindsAssumption DEF NewVm
<1>3. /\ m1 \in VmRec /\ m1.kind = m0.kind /\ m1.flagV2 = v2 /\ m1.compilerV2 = v2
      /\ ~Light(m1) => m1.ptr = None
  BY <1>1, <1>2, SetCacheOK, SetCacheKeeps
<1>4. m2.kind = m1.kind /\ m2.flagV2 = v2 /\ m2.compilerV2 = v2 /\ (Light(m1) => m2 = m1)
  BY <1>3, SetDatasetKeeps
<1>5. ~Light(m2) => d # None
  BY <1>1, <1>3, <1>4
<1>6. Light(m2) => c # None
  BY <1>1, <1>2, <1>4
<1>7. FullOK(m2, bound'[v])
  BY <1>1, <1>3, <1>5, SetDatasetOK DEF FullOK
<1>8. QED
  BY <1>1, <1>4, <1>5, <1>6, <1>7

\* What randomx_vm_set_cache leaves of a light machine's class and versions.
LEMMA ReattachedVm ==
    ASSUME TypeOK, NEW v \in VMs, NEW c \in Caches, VmSetCache(v, c)
    PROVE  /\ vm'[v].kind = vm[v].kind /\ vm'[v].flagV2 = vm[v].flagV2
           /\ vm'[v].compilerV2 = vm[v].compilerV2
<1>1. vm[v] \in VmRec /\ vm'[v] \in {vm[v], CopyKey(SetCache(vm[v], c), c)}
  BY DEF VmSetCache, TypeOK
<1>2. QED
  BY <1>1, SetCacheKeeps

LEMMA VmNextKeepsFull ==
    ASSUME ServiceInv, VmNext
    PROVE  FullIsCurrent' /\ VersionsAgree' /\ ReleasedAreEmpty'
<1>0. TypeOK /\ liveVms' \subseteq VMs
  BY VmNextTypeOK DEF ServiceInv, IInv, CacheInv, TypeOK
<1>1. ASSUME NEW v \in VMs, NEW kind \in Kinds, NEW v2 \in BOOLEAN,
             NEW c \in Caches \cup {None}, NEW d \in Datasets \cup {None},
             CreateVm(v, kind, v2, c, d)
      PROVE  FullIsCurrent' /\ VersionsAgree' /\ ReleasedAreEmpty'
  <2>1. FullOK(vm'[v], bound'[v]) /\ VersionOK(vm'[v])
    BY <1>1, CreatedVm DEF VersionOK
  <2>2. QED
    BY <1>0, <1>1, <2>1, OneFullVmKeeps DEF CreateVm, TypeOK
<1>2. ASSUME NEW v \in VMs, NEW c \in Caches, VmSetCache(v, c)
      PROVE  FullIsCurrent' /\ VersionsAgree' /\ ReleasedAreEmpty'
  <2>1. FullOK(vm'[v], bound'[v]) /\ VersionOK(vm'[v])
    BY <1>0, <1>2, ReattachedVm
    DEF VmSetCache, FullOK, VersionOK, ServiceInv, VersionsAgree, Compiled
  <2>2. QED
    BY <1>0, <1>2, <2>1, OneFullVmKeeps DEF VmSetCache, TypeOK
<1>3. ASSUME NEW v \in VMs, NEW d \in Datasets, VmSetDataset(v, d)
      PROVE  FullIsCurrent' /\ VersionsAgree' /\ ReleasedAreEmpty'
  <2>1. vm[v] \in VmRec /\ vm'[v] = SetDataset(vm[v], d) /\ bound'[v] = d /\ d \in liveDatasets
    BY <1>0, <1>3 DEF VmSetDataset, TypeOK
  <2>2. FullOK(vm'[v], bound'[v])
    BY <2>1, SetDatasetOK
  <2>3. VersionOK(vm'[v])
    BY <2>1, SetDatasetKeeps DEF VersionOK, ServiceInv, VersionsAgree, Compiled
  <2>4. QED
    BY <1>0, <1>3, <2>2, <2>3, OneFullVmKeeps DEF VmSetDataset, TypeOK
<1>4. ASSUME NEW v \in VMs, NEW v2 \in BOOLEAN, SwitchVersion(v, v2)
      PROVE  FullIsCurrent' /\ VersionsAgree' /\ ReleasedAreEmpty'
  <2>1. v \in liveVms /\ vm[v] \in VmRec /\ vm'[v] = Switched(vm[v], v2) /\ bound'[v] = bound[v]
    BY <1>0, <1>4 DEF SwitchVersion, TypeOK
  <2>2. FullOK(vm'[v], bound'[v])
    BY <2>1 DEF Switched, VmRec, FullOK, ServiceInv, FullIsCurrent
  <2>3. VersionOK(vm'[v])
    BY <2>1 DEF Switched, VmRec, VersionOK, Compiled
  <2>4. QED
    BY <1>0, <1>4, <2>2, <2>3, OneFullVmKeeps DEF SwitchVersion, TypeOK
<1>5. ASSUME NEW v \in VMs, DestroyVm(v)
      PROVE  FullIsCurrent' /\ VersionsAgree' /\ ReleasedAreEmpty'
  <2>1. VersionOK(vm'[v])
    BY <1>0, <1>5 DEF DestroyVm, TypeOK, NewVm, VersionOK
  <2>2. QED
    BY <1>0, <1>5, <2>1, OneFullVmKeeps DEF DestroyVm, TypeOK
<1>6. ASSUME NEW v \in VMs, CalculateHash(v)
      PROVE  FullIsCurrent' /\ VersionsAgree' /\ ReleasedAreEmpty'
  <2>1. /\ v \in liveVms /\ vm[v] \in VmRec /\ bound'[v] = bound[v]
        /\ vm'[v] = [vm[v] EXCEPT !.memory = IF vm[v].kind = "CompiledVm" THEN vm[v].ptr ELSE @]
    BY <1>0, <1>6 DEF CalculateHash, MayHash, TypeOK
  <2>2. FullOK(vm'[v], bound'[v]) /\ VersionOK(vm'[v])
    BY <1>0, <2>1 DEF VmRec, FullOK, ServiceInv, FullIsCurrent, VersionOK, VersionsAgree, Compiled,
                TypeOK
  <2>3. QED
    BY <1>0, <1>6, <2>2, OneFullVmKeeps DEF CalculateHash, TypeOK
<1>7. QED
  BY <1>1, <1>2, <1>3, <1>4, <1>5, <1>6 DEF VmNext

\* Calls on caches and datasets attach nothing; a released dataset is let go
\* of by every machine.
LEMMA OtherNextKeepsFull ==
    ASSUME ServiceInv, CacheNext \/ DatasetNext
    PROVE  FullIsCurrent' /\ VersionsAgree' /\ ReleasedAreEmpty'
<1>. USE DEF ServiceInv, IInv, CacheInv, TypeOK
<1>1. liveVms' = liveVms /\ vm' = vm
  BY DEF CacheNext, DatasetNext, AllocCache, InitCache, ReleaseCache, AllocDataset, InitDataset,
         ReleaseDataset, vmVars
<1>2. \A v \in VMs : bound'[v] # None => bound'[v] = bound[v]
  BY DEF CacheNext, DatasetNext, AllocCache, InitCache, ReleaseCache, AllocDataset, InitDataset,
         ReleaseDataset, vmVars, Unbind
<1>3. VersionsAgree'
  BY <1>1 DEF VersionsAgree, Compiled
<1>4. ASSUME NEW d \in Datasets, AllocDataset(d)
      PROVE  FullIsCurrent' /\ ReleasedAreEmpty'
  BY <1>1, <1>2, <1>4 DEF AllocDataset, FullIsCurrent, ReleasedAreEmpty
<1>5. ASSUME NEW d \in Datasets, NEW c \in Caches, NEW range \in SUBSET Items,
             InitDataset(d, c, range)
      PROVE  FullIsCurrent' /\ ReleasedAreEmpty'
  BY <1>1, <1>2, <1>5 DEF InitDataset, FullIsCurrent, ReleasedAreEmpty
<1>6. ASSUME NEW d \in Datasets, ReleaseDataset(d)
      PROVE  FullIsCurrent' /\ ReleasedAreEmpty'
  <2>1. \A v \in VMs : bound'[v] # None => bound'[v] = bound[v] /\ bound[v] # d
    BY <1>6 DEF ReleaseDataset, Unbind
  <2>2. QED
    BY <1>1, <1>6, <2>1 DEF ReleaseDataset, FullIsCurrent, ReleasedAreEmpty
<1>7. CASE CacheNext
  <2>1. liveDatasets' = liveDatasets /\ filled' = filled
    BY <1>7 DEF CacheNext, AllocCache, InitCache, ReleaseCache, datasetVars
  <2>2. QED
    BY <1>1, <1>2, <1>3, <2>1 DEF FullIsCurrent, ReleasedAreEmpty
<1>8. CASE DatasetNext
  BY <1>3, <1>4, <1>5, <1>6, <1>8 DEF DatasetNext
<1>9. QED
  BY <1>7, <1>8

\* The strengthened invariant of the same client.
LEMMA ServiceInvariant ==
    ASSUME ~ReleaseWhileBound
    PROVE  Spec => []ServiceInv
<1>1. Init => ServiceInv
  <2>1. Init => IInv
    BY InitCacheInv DEF Init, IInv, PointersLive, BoundIsCurrent
  <2>2. Init => FullIsCurrent /\ VersionsAgree /\ ReleasedAreEmpty
    BY DEF Init, FullIsCurrent, VersionsAgree, ReleasedAreEmpty, NewVm, Compiled
  <2>3. QED
    BY <2>1, <2>2 DEF ServiceInv
<1>2. ServiceInv /\ IInv' /\ [Next]_vars => ServiceInv'
  <2>. SUFFICES ASSUME ServiceInv, IInv', [Next]_vars PROVE ServiceInv'
    OBVIOUS
  <2>1. CASE Next
    BY <2>1, VmNextKeepsFull, OtherNextKeepsFull DEF Next, ServiceInv
  <2>2. CASE UNCHANGED vars
    BY <2>2 DEF vars, ServiceInv, FullIsCurrent, VersionsAgree, Compiled, ReleasedAreEmpty
  <2>3. QED
    BY <2>1, <2>2
<1>3. QED
  BY <1>1, <1>2, InductiveInvariant, PTL DEF Spec

-----------------------------------------------------------------------------
(* RandomXApi implements RandomXService.                                   *)

\* The refinement mapping of Service.
KeyOf == [c \in Caches |-> IF c \in UsableCaches THEN cache[c].cacheKey ELSE None]
Version == [v \in VMs |-> VersionName(vm[v].flagV2)]
Result == [vm |-> hashed.vm, version |-> VersionName(hashed.v2), key |-> HashKey]

ServiceStep == [Service!Next]_Service!serviceVars

\* A set that is one key's hash is no other key's.
LEMMA OneKeyHash ==
    ASSUME NEW k \in Keys
    PROVE  (CHOOSE j \in Keys : {<<k, k>>} = {<<j, j>>}) = k
<1>1. \A j \in Keys : {<<k, k>>} = {<<j, j>>} <=> j = k
  <2>. TAKE j \in Keys
  <2>1. {<<k, k>>} = {<<j, j>>} => <<k, k>> \in {<<j, j>>}
    OBVIOUS
  <2>2. QED
    BY <2>1
<1>2. QED
  BY <1>1

LEMMA InitService == Init => Service!Init
<1>. SUFFICES ASSUME Init PROVE Service!Init
  OBVIOUS
<1>1. KeyOf = [c \in Caches |-> None]
  BY DEF Init, KeyOf, UsableCaches
<1>2. Version = [v \in VMs |-> "v1"]
  BY DEF Init, Version, VersionName, NewVm
<1>3. HashKey = None
  BY DEF Init, HashKey
<1>4. Result = [vm |-> None, version |-> "v1", key |-> None]
  BY <1>3 DEF Init, Result, VersionName
<1>5. QED
  BY <1>1, <1>2, <1>4 DEF Init, Service!Init, Service!NoResult, KeyOf, Version, Result

\* What a step on a cache leaves of the mapping.
LEMMA CacheStepImplements ==
    ASSUME ServiceInv, CacheNext
    PROVE  ServiceStep
<1>. USE DEF ServiceInv, IInv, CacheInv, TypeOK
<1>0. UNCHANGED <<vm, filled, hashed>>
  BY DEF CacheNext, AllocCache, InitCache, ReleaseCache, datasetVars, vmVars
<1>1. Version' = Version /\ Result' = Result
  BY <1>0 DEF Version, Result, HashKey
<1>2. ASSUME NEW c \in Caches, NEW m \in Mems, NEW jit \in BOOLEAN, AllocCache(c, m, jit)
      PROVE  ServiceStep
  <2>1. /\ c \notin liveCaches /\ liveCaches' = liveCaches \cup {c}
        /\ cache'[c].programs = None
        /\ \A x \in liveCaches : cache'[x] = cache[x]
    BY <1>2 DEF AllocCache
  <2>2. UsableCaches' = UsableCaches
    BY <2>1 DEF UsableCaches, IsInitialized
  <2>3. KeyOf' = KeyOf
    BY <2>1, <2>2 DEF KeyOf, UsableCaches
  <2>4. bound' = bound
    BY <1>2 DEF AllocCache, vmVars
  <2>5. QED
    BY <1>0, <1>1, <2>3, <2>4 DEF ServiceStep, Service!serviceVars, KeyOf, Version, Result
<1>3. ASSUME NEW c \in Caches, NEW key \in Keys, InitCache(c, key)
      PROVE  ServiceStep
  <2>1. /\ c \in liveCaches /\ liveCaches' = liveCaches
        /\ cache'[c].cacheKey = key /\ cache'[c].programs = key
        /\ \A x \in Caches \ {c} : cache'[x] = cache[x]
    BY <1>3 DEF InitCache, Initialized, CacheRec
  <2>2. c \in UsableCaches' /\ \A x \in Caches \ {c} : x \in UsableCaches' <=> x \in UsableCaches
    BY <2>1, NoneAssumption DEF UsableCaches, IsInitialized
  <2>3. KeyOf' = [KeyOf EXCEPT ![c] = key]
    BY <2>1, <2>2 DEF KeyOf
  <2>4. KeyOf[c] # key
    BY <1>3, NoneAssumption DEF KeyOf, UsableCaches, InitCache, NeedsInit
  <2>5. Service!Orphan(c)
    BY <1>3 DEF InitCache, Unbind, Service!Orphan
  <2>6. Service!Rekey(c, key)
    BY <1>0, <1>1, <2>3, <2>4, <2>5 DEF Service!Rekey, KeyOf, Version, Result
  <2>7. QED
    BY <2>6 DEF ServiceStep, Service!Next
<1>4. ASSUME NEW c \in Caches, ReleaseCache(c)
      PROVE  ServiceStep
  <2>1. liveCaches' = liveCaches \ {c} /\ cache' = cache
    BY <1>4 DEF ReleaseCache
  <2>2. KeyOf' = [KeyOf EXCEPT ![c] = None]
    BY <2>1 DEF KeyOf, UsableCaches, IsInitialized
  <2>3. Service!Orphan(c)
    BY <1>4 DEF ReleaseCache, Unbind, Service!Orphan
  <2>4. Service!DropCache(c)
    BY <1>0, <1>1, <2>2, <2>3 DEF Service!DropCache, KeyOf, Version, Result
  <2>5. QED
    BY <2>4 DEF ServiceStep, Service!Next
<1>5. QED
  BY <1>2, <1>3, <1>4 DEF CacheNext

LEMMA DatasetStepImplements ==
    ASSUME ServiceInv, DatasetNext
    PROVE  ServiceStep
<1>. USE DEF ServiceInv, IInv, CacheInv, TypeOK
<1>0. UNCHANGED <<liveCaches, cache, vm, hashed>>
  BY DEF DatasetNext, AllocDataset, InitDataset, ReleaseDataset, cacheVars, vmVars
<1>1. KeyOf' = KeyOf /\ Version' = Version /\ Result' = Result
  BY <1>0 DEF KeyOf, UsableCaches, IsInitialized, Version, Result, HashKey
<1>2. ASSUME NEW d \in Datasets, AllocDataset(d)
      PROVE  ServiceStep
  <2>1. filled' = filled /\ bound' = bound
    BY <1>2 DEF AllocDataset, vmVars, ReleasedAreEmpty
  <2>2. QED
    BY <1>1, <2>1 DEF ServiceStep, Service!serviceVars, KeyOf, Version, Result
<1>3. ASSUME NEW d \in Datasets, NEW c \in Caches, NEW range \in SUBSET Items,
             InitDataset(d, c, range)
      PROVE  ServiceStep
  <2>1. c \in UsableCaches /\ KeyOf[c] = cache[c].cacheKey /\ cache[c].cacheKey \in Keys
    BY <1>3, UsableIsOneKey DEF InitDataset, KeyOf
  <2>2. /\ bound' = bound
        /\ filled' = [filled EXCEPT ![d] = [i \in Items |-> IF i \in range THEN KeyOf[c] ELSE @[i]]]
    BY <1>3, <2>1 DEF InitDataset, vmVars
  <2>3. KeyOf[c] # None
    BY <2>1, NoneAssumption
  <2>4. Service!FillItems(d, c, range)
    BY <1>1, <2>2, <2>3 DEF Service!FillItems, KeyOf, Version, Result
  <2>5. QED
    BY <2>4 DEF ServiceStep, Service!Next
<1>4. ASSUME NEW d \in Datasets, ReleaseDataset(d)
      PROVE  ServiceStep
  <2>1. Service!Orphan(d) /\ filled' = [filled EXCEPT ![d] = [i \in Items |-> None]]
    BY <1>4 DEF ReleaseDataset, Unbind, Service!Orphan
  <2>2. Service!DropDataset(d)
    BY <1>1, <2>1 DEF Service!DropDataset, KeyOf, Version, Result
  <2>3. QED
    BY <2>2 DEF ServiceStep, Service!Next
<1>5. QED
  BY <1>2, <1>3, <1>4 DEF DatasetNext

\* A hash the client may take is computed from one key: the key of the cache,
\* or of every item of the dataset, that the machine is attached to.
LEMMA HashIsOfTheSource ==
    ASSUME ServiceInv, NEW v \in VMs, MayHash(v)
    PROVE  \E k \in Keys : /\ Reads(vm[v]) = {<<k, k>>}
                           /\ \/ bound[v] \in Caches /\ k = KeyOf[bound[v]]
                              \/ /\ bound[v] \in Datasets
                                 /\ \A i \in Items : filled[bound[v]][i] = k
<1>. USE DEF ServiceInv, IInv, CacheInv, TypeOK
<1>0. v \in liveVms /\ bound[v] # None /\ vm[v] \in VmRec
  BY DEF MayHash
<1>1. CASE Light(vm[v])
  <2>. DEFINE k == cache[bound[v]].cacheKey
  <2>1. bound[v] \in UsableCaches
    BY <1>0, <1>1 DEF BoundIsCurrent
  <2>2. bound[v] \in Caches /\ k \in Keys /\ k = KeyOf[bound[v]]
    BY <2>1, UsableIsOneKey DEF KeyOf
  <2>3. Reads(vm[v]) = {<<k, k>>}
    BY <1>0, <1>1, IInvImpliesVmCoherent DEF VmCoherent
  <2>4. QED
    BY <2>2, <2>3
<1>2. CASE ~Light(vm[v])
  <2>. DEFINE d == bound[v]
  <2>1. PICK k \in Keys : \A i \in Items : filled[d][i] = k
    BY <1>2 DEF MayHash
  <2>2. /\ d \in liveDatasets /\ d \in Datasets /\ vm[v].ptr = d
        /\ vm[v].kind = "InterpretedVm" => vm[v].memory = d
    BY <1>0, <1>2 DEF FullIsCurrent
  <2>3. Items # {}
    BY <2>2, ItemsAssumption
  <2>4. \A i \in Items : dataset[d][i] = <<k, k>>
    BY <2>1, <2>2, NoneAssumption DEF DatasetCoherent
  <2>5. ItemReads(d) = {<<k, k>>}
    BY <2>2, <2>3, <2>4 DEF ItemReads
  <2>6. vm[v].kind \in {"InterpretedVm", "CompiledVm"}
    BY <1>0, <1>2 DEF VmRec, AllKinds
  <2>7. Reads(vm[v]) = {<<k, k>>}
    BY <2>2, <2>5, <2>6 DEF Reads
  <2>8. QED
    BY <2>1, <2>2, <2>7
<1>3. QED
  BY <1>1, <1>2

LEMMA VmStepImplements ==
    ASSUME ServiceInv, VmNext
    PROVE  ServiceStep
<1>. USE DEF ServiceInv, IInv, CacheInv, TypeOK
<1>0. UNCHANGED <<liveCaches, cache, filled>>
  BY DEF VmNext, CreateVm, VmSetCache, VmSetDataset, SwitchVersion, DestroyVm, CalculateHash,
         cacheVars, datasetVars
<1>1. KeyOf' = KeyOf /\ \A c \in UsableCaches : c \in Caches /\ KeyOf[c] # None
  BY <1>0, UsableIsOneKey, NoneAssumption DEF KeyOf, UsableCaches, IsInitialized
<1>2. hashed' = hashed => Result' = Result
  BY DEF Result, HashKey
<1>3. ASSUME NEW v \in VMs, NEW kind \in Kinds, NEW v2 \in BOOLEAN,
             NEW c \in Caches \cup {None}, NEW d \in Datasets \cup {None},
             CreateVm(v, kind, v2, c, d)
      PROVE  ServiceStep
  <2>. DEFINE s == bound'[v]
              x == VersionName(v2)
  <2>1. vm'[v].flagV2 = v2 /\ s \in UsableCaches \cup liveDatasets
    BY <1>3, CreatedVm
  <2>2. /\ hashed' = hashed /\ \A w \in VMs \ {v} : vm'[w] = vm[w]
        /\ bound' = [bound EXCEPT ![v] = s]
    BY <1>3 DEF CreateVm
  <2>3. Version' = [Version EXCEPT ![v] = x]
    BY <2>1, <2>2 DEF Version
  <2>4. s \in Caches \cup Datasets /\ (s \in Caches => KeyOf[s] # None)
    BY <1>1, <2>1, SortsAssumption
  <2>5. Service!Create(v, s, x)
    BY <1>0, <1>1, <1>2, <2>2, <2>3, <2>4 DEF Service!Create, KeyOf, Version, Result
  <2>6. x \in Service!Versions
    BY DEF Service!Versions, VersionName
  <2>7. QED
    BY <2>4, <2>5, <2>6 DEF ServiceStep, Service!Next
<1>4. ASSUME NEW v \in VMs, NEW s \in Caches \cup Datasets \cup {None},
             bound' = [bound EXCEPT ![v] = s], hashed' = hashed,
             s \in Caches => KeyOf[s] # None,
             vm'[v].flagV2 = vm[v].flagV2, \A w \in VMs \ {v} : vm'[w] = vm[w]
      PROVE  ServiceStep
  <2>1. Version' = Version
    BY <1>4 DEF Version
  <2>2. Service!Attach(v, s)
    BY <1>0, <1>1, <1>2, <1>4, <2>1 DEF Service!Attach, KeyOf, Version, Result
  <2>3. QED
    BY <2>2 DEF ServiceStep, Service!Next
<1>5. ASSUME NEW v \in VMs, NEW c \in Caches, VmSetCache(v, c)
      PROVE  ServiceStep
  <2>1. vm'[v].flagV2 = vm[v].flagV2
    BY <1>5, ReattachedVm
  <2>2. QED
    BY <1>1, <1>4, <1>5, <2>1 DEF VmSetCache
<1>6. ASSUME NEW v \in VMs, NEW d \in Datasets, VmSetDataset(v, d)
      PROVE  ServiceStep
  <2>1. vm'[v].flagV2 = vm[v].flagV2
    BY <1>6, SetDatasetKeeps DEF VmSetDataset
  <2>2. QED
    BY <1>4, <1>6, <2>1, SortsAssumption DEF VmSetDataset
<1>7. ASSUME NEW v \in VMs, NEW v2 \in BOOLEAN, SwitchVersion(v, v2)
      PROVE  ServiceStep
  <2>. DEFINE x == VersionName(v2)
  <2>1. /\ hashed' = hashed /\ bound' = bound /\ vm'[v].flagV2 = v2
        /\ \A w \in VMs \ {v} : vm'[w] = vm[w]
    BY <1>7 DEF SwitchVersion, Switched, VmRec
  <2>2. Version' = [Version EXCEPT ![v] = x]
    BY <2>1 DEF Version
  <2>3. Service!SetVersion(v, x)
    BY <1>0, <1>1, <1>2, <2>1, <2>2 DEF Service!SetVersion, KeyOf, Version, Result
  <2>4. x \in Service!Versions
    BY DEF Service!Versions, VersionName
  <2>5. QED
    BY <2>3, <2>4 DEF ServiceStep, Service!Next
<1>8. ASSUME NEW v \in VMs, DestroyVm(v)
      PROVE  ServiceStep
  <2>1. ProgramV2(vm[v]) = vm[v].flagV2
    BY DEF ProgramV2, VersionsAgree
  <2>2. vm'[v].flagV2 = vm[v].flagV2
    BY <1>8, <2>1 DEF DestroyVm, NewVm
  <2>3. QED
    BY <1>4, <1>8, <2>2, NoneAssumption DEF DestroyVm
<1>9. ASSUME NEW v \in VMs, CalculateHash(v)
      PROVE  ServiceStep
  <2>1. /\ bound' = bound /\ vm'[v].flagV2 = vm[v].flagV2
        /\ \A w \in VMs \ {v} : vm'[w] = vm[w]
        /\ hashed' = [vm |-> v, v2 |-> ProgramV2(vm[v]), from |-> Reads(vm[v])]
    BY <1>9 DEF CalculateHash, VmRec
  <2>2. Version' = Version
    BY <2>1 DEF Version
  <2>3. PICK k \in Keys : /\ Reads(vm[v]) = {<<k, k>>}
                          /\ \/ bound[v] \in Caches /\ k = KeyOf[bound[v]]
                             \/ /\ bound[v] \in Datasets
                                /\ \A i \in Items : filled[bound[v]][i] = k
    BY <1>9, HashIsOfTheSource DEF CalculateHash
  <2>4. HashKey' = k
    <3>1. hashed'.from = {<<k, k>>}
      BY <2>1, <2>3
    <3>2. QED
      BY <3>1, OneKeyHash DEF HashKey
  <2>5. ProgramV2(vm[v]) = vm[v].flagV2
    BY DEF ProgramV2, VersionsAgree
  <2>6. Result' = [vm |-> v, version |-> Version[v], key |-> k]
    BY <2>1, <2>4, <2>5 DEF Result, Version
  <2>7. Service!KeyFor(bound[v], k)
    BY <2>3 DEF Service!KeyFor, KeyOf
  <2>8. Service!Hash(v)
    BY <1>0, <1>1, <2>1, <2>2, <2>6, <2>7 DEF Service!Hash, KeyOf, Version, Result
  <2>9. QED
    BY <2>8 DEF ServiceStep, Service!Next
<1>10. QED
  BY <1>3, <1>5, <1>6, <1>7, <1>8, <1>9 DEF VmNext

\* The pointers, reused blocks, compiled code and skipped calls of the library
\* implement the interface: for a client that releases no cache a machine
\* points to, each step is the step of RandomXService the interface describes
\* or none, and every hash is the function of the attached key.
THEOREM ApiImplementsService ==
    ASSUME ~ReleaseWhileBound
    PROVE  Spec => ImplementsService
<1>1. ServiceInv /\ [Next]_vars => [Service!Next]_Service!serviceVars
  <2>1. ServiceInv /\ Next => ServiceStep
    BY CacheStepImplements, DatasetStepImplements, VmStepImplements DEF Next
  <2>2. UNCHANGED vars => ServiceStep
    BY DEF vars, ServiceStep, Service!serviceVars, KeyOf, Version, Result, HashKey, UsableCaches,
           IsInitialized
  <2>3. QED
    BY <2>1, <2>2 DEF ServiceStep
<1>2. QED
  BY <1>1, InitService, ServiceInvariant, PTL DEF Spec, ImplementsService, Service!Spec
=============================================================================
