SPECIFICATION Spec
CONSTANTS
    RegOrder <- AllRegs
    ArgRegs <- AllArgRegs
    Params <- TwoParams
    Lits = {1}
    LeftConst = FALSE
    Fragments <- MCFragments
    MaxSlots = 20
CHECK_DEADLOCK FALSE
INVARIANTS CodeRight StackBalanced PoolExact
