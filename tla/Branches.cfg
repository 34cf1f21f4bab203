SPECIFICATION BranchSpec
CONSTANTS
    StmtKinds = {"let", "call", "if", "while", "match"}
    NestInArms = FALSE
    LetInBlocks = TRUE
    Matches <- MCMatches
    StmtBound = 4
    MaxDepth = 2
    MaxSteps = 24
CHECK_DEADLOCK FALSE
INVARIANTS JumpsRight VarsOnStack
