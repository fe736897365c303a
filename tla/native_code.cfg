SPECIFICATION Spec
CONSTANTS
    Registers = {0, 1}
    Size = 4
    Instrs <- AllInstrs
    Values = {0, 6}
    RegisterBits = 4
    ConditionBits = 2
    ConditionOffset = 2
    None = None
    Backends = {"x86", "a64", "rv64", "rv64v"}
    Lengths = {1, 3}
    ShortReach = 3
    LongReach = 5
INVARIANTS BranchesLand
PROPERTIES ImplementsProgram
CHECK_DEADLOCK FALSE
