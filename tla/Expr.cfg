SPECIFICATION FairSpec
CONSTANTS
    Op <- MCOp
    Prec <- MCPrec
    Inputs <- MCInputs
CHECK_DEADLOCK FALSE
INVARIANTS StacksInOrder RightBindsTighter AcceptsWellFormed
PROPERTIES ParseEnds
