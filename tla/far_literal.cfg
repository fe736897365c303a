SPECIFICATION MCSpec
CONSTANTS
    ImmBits = 8
    L1Bits = 4
    L2Bits = 5
    L3Bits = 6
    ConditionOffset = 2
    JumpBits = 2
    StoreL3Condition = 3
    CacheBits = 3
    ScratchpadBase = 20480
    CacheBase = 30000
    PoolBase = 40000
    DatasetBase = 50000
    LowBits = 3
    LuiBits = 2
    MovBits = 4
    AddLowBits = 3
    AddBits = 7
    Backends = {"x86", "assembly", "a64", "rv64", "rv64z", "rvv", "rvvz"}
    V2Backends = {"x86", "a64", "rv64", "rv64z", "rvv", "rvvz"}
    Programs <- VersionsPrograms
    RANDOMX_PROGRAM_SIZE_V1 = 256
    RANDOMX_PROGRAM_SIZE_V2 = 384
    Registers <- StartRegisters
    Groups <- StartGroups
    HashBackends = {"interpreter", "assembly", "c", "x86", "a64", "rv64", "rv64z", "rvv", "rvvz"}
    Numbers <- ItemNumbers
    LoopBackends = {"x86", "a64", "rv64", "rv64z", "rvv", "rvvz"}
    Iterations = 3
PROPERTY ImplementsMeaning
CHECK_DEADLOCK FALSE
