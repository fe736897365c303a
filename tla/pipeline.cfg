SPECIFICATION Spec
CONSTANTS
    Threads = {t1, t2}
    VMs = {v1}
    Inputs = {x, y}
    Configs = {k1, k2}
    CallerModes = {upward}
    ProgramCount = 3
    BlockCount = 3
    PrefetchCount = 1
    None = None
PROPERTIES EnvironmentKept ImplementsSequence
