SPECIFICATION Spec
CONSTANTS
    Keys = {k0, k1}
    EmptyKey = k0
    Caches = {c1, c2}
    Mems = {m1, m2}
    Datasets = {d1}
    Items = {1}
    VMs = {v1}
    Kinds <- AllKinds
    ReleaseWhileBound = FALSE
    None = None
SYMMETRY Symmetry
INVARIANTS CacheCoherent VmCoherent DatasetCoherent
PROPERTIES Undisturbed ImplementsService
