SPECIFICATION Spec
CONSTANTS
    Registers = {0, 1}
    Size = 4
    Instrs <- AllInstrs
    Values = {0, 6}
    RegisterBits = 4
    ConditionBits = 2
    ConditionOffset = 2
    None = None
INVARIANTS TargetsRight AtMostTwoJumps
PROPERTIES ImplementsProgram EventuallyDone
CHECK_DEADLOCK FALSE
