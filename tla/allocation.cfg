SPECIFICATION Spec
CONSTANTS
    Threads = {t1, t2}
    Stores = {c1}
    VMs = {v1}
    Platforms = {"pages", "threads"}
    None = None
INVARIANTS AllOrNothing FaultsOnlyIfRefused NeverBoth
CHECK_DEADLOCK FALSE
