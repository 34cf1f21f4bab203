SPECIFICATION Spec
CONSTANTS
    Vecs = {v1, v2}
    Vals = {x, y}
    NoVal = NoVal
    Panic = Panic
    Blocks = {b1, b2, b3}
    Dangling = Dangling
    Powers = {1, 2, 4, 8}
    FirstCap = 4
    SharedPush = FALSE
    MaxLen = 2
INVARIANTS MemorySound IterLive
PROPERTY ImplementsVectors
SYMMETRY Symmetry
