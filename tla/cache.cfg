SPECIFICATION MCSpec
CONSTANTS
    lanes = 2
    segment_length = 3
    passes = 3
    Randoms = 16
    None = None
    BlockBytes = 3
    Word = 5
    OutBytes = 2
    MaxLength = 14
    NoDigest = NoDigest
    Keys <- SomeKeys
    Parameters <- SomeParameters
    Salt <- SomeSalt
    DigestBytes = 8
    BlockSizes = {0, 5, 8, 9, 12, 13, 24, 31}
    Lanes = 2
    maxSeedSize = 4
    WordBytes = 4
    MaxDrawn = 20
    NoValue = NoValue
    Registers = {0, 1, 2}
    RegisterNeedsDisplacement = 2
    Names = {"ISUB_R", "IADD_RS", "IMUL_R", "IROR_C", "IADD_C", "IMULH_R", "IMUL_RCP"}
    SUPERSCALAR_LATENCY = 12
    SuperscalarMaxSize = 13
    LOOK_FORWARD_CYCLES = 4
    MAX_THROWAWAY_COUNT = 2
INVARIANTS
    DigestIsHash FirstBlocksAreArgon2s EveryByteOnce
    NothingStale ChainsThroughNeighbour RefersToFinished
    FitsSlot OperandsReady SizesSuffice
PROPERTY ImplementsMatrix
\* The fill and the generator end.
CHECK_DEADLOCK FALSE
