SPECIFICATION MiningSpec
CONSTANTS
    Miners = {t1, t2, t3}
    NoncesCount = 3
    Words = 2
    NoNonce = NoNonce
INVARIANTS ResultComplete NothingTwice
PROPERTIES DrivesMachines EventuallyDone
CHECK_DEADLOCK FALSE
