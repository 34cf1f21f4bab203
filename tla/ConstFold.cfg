CONSTANTS
  Width = 4
  Inputs <- MCInputs
SPECIFICATION Spec
INVARIANTS FoldIsExact FoldsAll
CHECK_DEADLOCK FALSE
