SPECIFICATION Spec
CONSTANTS
    MaxItems = 17
    MaxThreads = 3
    None = None
INVARIANTS NoRace ItemsRight
PROPERTIES ImplementsFill EventuallyJoined
CHECK_DEADLOCK FALSE
