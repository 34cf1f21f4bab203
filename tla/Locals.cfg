SPECIFICATION Spec
CONSTANTS
  Programs <- MCPrograms
  Globals <- MCGlobals
INVARIANTS AcceptsLegal 
