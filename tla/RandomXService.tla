--------------------------- MODULE RandomXService ---------------------------
(***************************************************************************)
(* What the public interface of RandomX (src/src/randomx.h) promises, with *)
(* no pointers, no memory blocks, no compiled code and no shortcuts.       *)
(*                                                                         *)
(* A cache has at most one key.  A dataset item has the key of the cache   *)
(* it was computed from.  A virtual machine has a source: the cache or the *)
(* dataset the client gave it last, until the client re-keys or releases   *)
(* it.  A hash taken on a machine that has a source is the RandomX         *)
(* function of the source's key, in the version the machine is set to.     *)
(***************************************************************************)

CONSTANTS
    Keys,       \* key values a cache can be initialised with
    Caches,     \* cache handles
    Datasets,   \* dataset handles
    Items,      \* item numbers of a dataset
    VMs,        \* virtual machine handles
    None        \* no key, no source

VARIABLES
    keyOf,      \* the key a cache is initialised with
    itemKey,    \* the key each dataset item was computed for
    source,     \* what each machine computes from
    version,    \* "v1" or "v2": the flavour of RandomX a machine computes
    result      \* the last hash returned to the client

serviceVars == <<keyOf, itemKey, source, version, result>>

Versions == {"v1", "v2"}

NoResult == [vm |-> None, version |-> "v1", key |-> None]

Init ==
    /\ keyOf = [c \in Caches |-> None]
    /\ itemKey = [d \in Datasets |-> [i \in Items |-> None]]
    /\ source = [v \in VMs |-> None]
    /\ version = [v \in VMs |-> "v1"]
    /\ result = NoResult

\* Machines that computed from s have no source until the client says so.
Orphan(s) == source' = [v \in VMs |-> IF source[v] = s THEN None ELSE source[v]]

\* randomx_init_cache with a key the cache does not have.
Rekey(c, k) ==
    /\ keyOf[c] # k
    /\ keyOf' = [keyOf EXCEPT ![c] = k]
    /\ Orphan(c)
    /\ UNCHANGED <<itemKey, version, result>>

\* randomx_release_cache.
DropCache(c) ==
    /\ keyOf' = [keyOf EXCEPT ![c] = None]
    /\ Orphan(c)
    /\ UNCHANGED <<itemKey, version, result>>

\* randomx_init_dataset.
FillItems(d, c, range) ==
    /\ keyOf[c] # None
    /\ itemKey' = [itemKey EXCEPT ![d] =
                     [i \in Items |-> IF i \in range THEN keyOf[c] ELSE @[i]]]
    /\ UNCHANGED <<keyOf, source, version, result>>

\* randomx_release_dataset.
DropDataset(d) ==
    /\ itemKey' = [itemKey EXCEPT ![d] = [i \in Items |-> None]]
    /\ Orphan(d)
    /\ UNCHANGED <<keyOf, version, result>>

\* randomx_create_vm: a machine of version x, with its first source.
Create(v, s, x) ==
    /\ s \in Caches => keyOf[s] # None
    /\ source' = [source EXCEPT ![v] = s]
    /\ version' = [version EXCEPT ![v] = x]
    /\ UNCHANGED <<keyOf, itemKey, result>>

\* randomx_vm_set_cache and randomx_vm_set_dataset; randomx_destroy_vm when
\* s = None.
Attach(v, s) ==
    /\ s \in Caches => keyOf[s] # None
    /\ source' = [source EXCEPT ![v] = s]
    /\ UNCHANGED <<keyOf, itemKey, version, result>>

\* The key a source computes for: a cache's key, or the one key all items of
\* a dataset were computed for.
KeyFor(s, k) ==
    \/ s \in Caches /\ k = keyOf[s]
    \/ s \in Datasets /\ \A i \in Items : itemKey[s][i] = k

\* randomx_calculate_hash.
Hash(v) ==
    /\ \E k \in Keys :
         /\ KeyFor(source[v], k)
         /\ result' = [vm |-> v, version |-> version[v], key |-> k]
    /\ UNCHANGED <<keyOf, itemKey, source, version>>

SetVersion(v, x) ==
    /\ version' = [version EXCEPT ![v] = x]
    /\ UNCHANGED <<keyOf, itemKey, source, result>>

Next ==
    \/ \E c \in Caches, k \in Keys : Rekey(c, k)
    \/ \E c \in Caches : DropCache(c)
    \/ \E d \in Datasets, c \in Caches, range \in SUBSET Items : FillItems(d, c, range)
    \/ \E d \in Datasets : DropDataset(d)
    \/ \E v \in VMs, s \in Caches \cup Datasets, x \in Versions : Create(v, s, x)
    \/ \E v \in VMs, s \in Caches \cup Datasets \cup {None} : Attach(v, s)
    \/ \E v \in VMs : Hash(v)
    \/ \E v \in VMs, x \in Versions : SetVersion(v, x)

Spec == Init /\ [][Next]_serviceVars
=============================================================================
