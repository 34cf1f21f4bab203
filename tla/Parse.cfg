SPECIFICATION Spec
CONSTANT Inputs <- MCInputs
INVARIANTS StaysInInput ParsesAsWritten
PROPERTY ParseEnds
